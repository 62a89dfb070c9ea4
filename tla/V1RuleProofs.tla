--------------------------- MODULE V1RuleProofs ---------------------------
(***************************************************************************)
(* Theorems about the first version, for any flows, addresses and bounds:  *)
(* when a freed flow_meta is used, which rules can be destroyed and which  *)
(* are, which flows have one, and that the table is there when it is       *)
(* needed.                                                                 *)
(***************************************************************************)
EXTENDS V1Proofs, FiniteSetTheorems

Packet == wpc \in {"add", "count", "create", "store"}

\* The port is open: smto_exit has not closed it.
Open == mpc \notin {"cleanup", "exited"}

\* The worker runs while main waits for it; the table is there from the hash
\* step to the free step, and no entry or position of one is left when it is
\* freed; a closed port has no rules.
MainInv ==
    /\ wpc \notin {"off", "done"} =>
         tableAlive /\ mpc \in {"wait", "out_of_memory"}
    /\ mpc \in {"count", "free"} => wpc = "done"
    /\ mpc \in {"register", "launch", "wait", "count", "free"} => tableAlive
    /\ ~tableAlive \/ mpc = "free" =>
         dpc # "position" /\ \A k \in Keys : table[k] = NULL
    /\ ~Open => \A h \in Handles : ~Live(h)

\* The interrupt thread fetches contexts only if it has counted some, and
\* looks for one only if there is one.
BatchInv ==
    /\ IsFiniteSet(aged)
    /\ dpc = "fetch" => dcount # 0
    /\ dpc = "lookup" => todo # {}

\* The packet in hand: its flow_meta is in the table, its flow has no aged
\* rule, and the rule it is about to get is the first.
PacketInv ==
    /\ Counting => table[wkey] = wmeta
    /\ Packet => \A h \in aged : rule[h] # wkey
    /\ wpc = "add" => handle[wmeta] = NULL /\ amount[wmeta] = 1
    /\ wpc \in {"create", "store"} =>
         handle[wmeta] = NULL /\ amount[wmeta] = OffloadAt
    /\ wpc = "store" => rule[created] = wkey

\* The contexts: each is that of a rule that has aged, the one in hand too,
\* up to the destruction of the rule, and no two are of the same flow.
ContextInv ==
    /\ \A p \in todo : p[1] \in aged /\ rule[p[1]] = p[2]
    /\ dpc \in {"delete", "position", "destroy"} =>
         /\ \A p \in todo : p[2] # dkey
         /\ \E h \in aged : rule[h] = dkey
    /\ dpc \in {"position", "destroy"} =>
         /\ table[dkey] = NULL
         /\ handle[dmeta] # NULL => rule[handle[dmeta]] = dkey

\* A handle in the table is that of a rule of its key, stored by the packet
\* that reached the threshold.
HandleInv ==
    \A k \in Keys : table[k] # NULL /\ handle[table[k]] # NULL =>
        rule[handle[table[k]]] = k /\ amount[table[k]] >= OffloadAt

\* No flow has two rules.
OneRule ==
    \A g, h \in Handles : Live(h) /\ rule[g] = rule[h] => g = h

InEntry(h) == table[rule[h]] # NULL /\ handle[table[rule[h]]] = h
InHand(h)  == /\ dpc \in {"position", "destroy"}
              /\ dkey = rule[h] /\ handle[dmeta] = h

\* The handle of a rule that has not aged is in the table, or on its way.
FreshInv ==
    \A h \in Handles \ aged : Live(h) =>
        \/ wpc = "store" /\ created = h /\ wkey = rule[h]
        \/ InEntry(h)

\* That of an aged one is in the table or with the interrupt thread, until a
\* call of the aging path fails.
AgedInv ==
    ~agingError => \A h \in aged : InEntry(h) \/ InHand(h)

RuleInv == HandleInv /\ OneRule /\ FreshInv /\ AgedInv

AllInv == PacketInv /\ ContextInv /\ RuleInv

Calm == ~late /\ Open

QuietInv == Calm => AllInv

\* The interrupt thread has no context left when the table is gone.
TodoInv == ~tableAlive /\ Undisturbed => todo = {}

----------------------------------------------------------------------------
(* The worker.                                                             *)

\* The worker receives, skips or leaves.
LEMMA ReceiveKeeps ==
    ASSUME MetaInv, AllInv, ~late', Receive \/ SkipPacket \/ LeaveLoop
    PROVE  AllInv'
<1> USE Distinct, V1BoundAssumption
    DEF Receive, SkipPacket, LeaveLoop, tableVars, nicVars, agingVars,
        ghostVars, mainVars
<1>1. PacketInv'
    BY DEF MetaInv, TypeOK, DeleterInv, WorkerInv, TableInv, Deleting,
           Counting, InTable, Live, AllInv, PacketInv, ContextInv, RuleInv,
           Packet
<1>2. ContextInv'
    BY DEF MetaInv, TypeOK, DeleterInv, WorkerInv, TableInv, Deleting,
           Counting, InTable, Live, AllInv, PacketInv, ContextInv, RuleInv,
           Packet
<1>3. HandleInv'
    BY DEF MetaInv, TypeOK, DeleterInv, WorkerInv, TableInv, Deleting,
           Counting, InTable, Live, AllInv, PacketInv, ContextInv, RuleInv,
           Packet, HandleInv
<1>4. OneRule'
    BY DEF MetaInv, TypeOK, DeleterInv, WorkerInv, TableInv, Deleting,
           Counting, InTable, Live, AllInv, PacketInv, ContextInv, RuleInv,
           Packet, OneRule
<1>5. FreshInv'
    BY DEF MetaInv, TypeOK, DeleterInv, WorkerInv, TableInv, Deleting,
           Counting, InTable, Live, AllInv, PacketInv, ContextInv, RuleInv,
           Packet, FreshInv, InEntry
<1>6. AgedInv'
    BY DEF MetaInv, TypeOK, DeleterInv, WorkerInv, TableInv, Deleting,
           Counting, InTable, Live, AllInv, PacketInv, ContextInv, RuleInv,
           Packet, AgedInv, InEntry, InHand
<1> QED
    BY <1>1, <1>2, <1>3, <1>4, <1>5, <1>6 DEF AllInv, RuleInv

\* A packet of a new flow: no rule of it has aged, or it would be late.
LEMMA LookupMissKeeps ==
    ASSUME MetaInv, AllInv, ~late',
           NEW k \in Keys, NEW m \in Metas, LookupMiss(k, m)
    PROVE  AllInv'
<1> USE Distinct, V1BoundAssumption
    DEF LookupMiss, Late, nicVars, agingVars, mainVars
<1>1. PacketInv'
    BY DEF MetaInv, TypeOK, DeleterInv, WorkerInv, TableInv, Deleting,
           Counting, InTable, Live, AllInv, PacketInv, ContextInv, RuleInv,
           Packet
<1>2. ContextInv'
    BY DEF MetaInv, TypeOK, DeleterInv, WorkerInv, TableInv, Deleting,
           Counting, InTable, Live, AllInv, PacketInv, ContextInv, RuleInv,
           Packet
<1>3. HandleInv'
    BY DEF MetaInv, TypeOK, DeleterInv, WorkerInv, TableInv, Deleting,
           Counting, InTable, Live, AllInv, PacketInv, ContextInv, RuleInv,
           Packet, HandleInv
<1>4. OneRule'
    BY DEF MetaInv, TypeOK, DeleterInv, WorkerInv, TableInv, Deleting,
           Counting, InTable, Live, AllInv, PacketInv, ContextInv, RuleInv,
           Packet, OneRule
<1>5. FreshInv'
    BY DEF MetaInv, TypeOK, DeleterInv, WorkerInv, TableInv, Deleting,
           Counting, InTable, Live, AllInv, PacketInv, ContextInv, RuleInv,
           Packet, FreshInv, InEntry
<1>6. AgedInv'
    BY DEF MetaInv, TypeOK, DeleterInv, WorkerInv, TableInv, Deleting,
           Counting, InTable, Live, AllInv, PacketInv, ContextInv, RuleInv,
           Packet, AgedInv, InEntry, InHand
<1> QED
    BY <1>1, <1>2, <1>3, <1>4, <1>5, <1>6 DEF AllInv, RuleInv

\* A packet of a known flow.
LEMMA LookupHitKeeps ==
    ASSUME MetaInv, AllInv, ~late', NEW k \in Keys, LookupHit(k)
    PROVE  AllInv'
<1> USE Distinct, V1BoundAssumption
    DEF LookupHit, Late, tableVars, nicVars, agingVars, mainVars
<1>1. PacketInv'
    BY DEF MetaInv, TypeOK, DeleterInv, WorkerInv, TableInv, Deleting,
           Counting, InTable, Live, AllInv, PacketInv, ContextInv, RuleInv,
           Packet
<1>2. ContextInv'
    BY DEF MetaInv, TypeOK, DeleterInv, WorkerInv, TableInv, Deleting,
           Counting, InTable, Live, AllInv, PacketInv, ContextInv, RuleInv,
           Packet
<1>3. HandleInv'
    BY DEF MetaInv, TypeOK, DeleterInv, WorkerInv, TableInv, Deleting,
           Counting, InTable, Live, AllInv, PacketInv, ContextInv, RuleInv,
           Packet, HandleInv
<1>4. OneRule'
    BY DEF MetaInv, TypeOK, DeleterInv, WorkerInv, TableInv, Deleting,
           Counting, InTable, Live, AllInv, PacketInv, ContextInv, RuleInv,
           Packet, OneRule
<1>5. FreshInv'
    BY DEF MetaInv, TypeOK, DeleterInv, WorkerInv, TableInv, Deleting,
           Counting, InTable, Live, AllInv, PacketInv, ContextInv, RuleInv,
           Packet, FreshInv, InEntry
<1>6. AgedInv'
    BY DEF MetaInv, TypeOK, DeleterInv, WorkerInv, TableInv, Deleting,
           Counting, InTable, Live, AllInv, PacketInv, ContextInv, RuleInv,
           Packet, AgedInv, InEntry, InHand
<1> QED
    BY <1>1, <1>2, <1>3, <1>4, <1>5, <1>6 DEF AllInv, RuleInv

\* The new flow enters the table, without a rule.
LEMMA AddEntryKeeps ==
    ASSUME MetaInv, AllInv, ~late', AddEntry
    PROVE  AllInv'
<1> USE Distinct, V1BoundAssumption
    DEF AddEntry, PacketDone, nicVars, agingVars, ghostVars, mainVars
<1>1. PacketInv'
    BY DEF MetaInv, TypeOK, DeleterInv, WorkerInv, TableInv, Deleting,
           Counting, InTable, Live, AllInv, PacketInv, ContextInv, RuleInv,
           Packet
<1>2. ContextInv'
    BY DEF MetaInv, TypeOK, DeleterInv, WorkerInv, TableInv, Deleting,
           Counting, InTable, Live, AllInv, PacketInv, ContextInv, RuleInv,
           Packet
<1>3. HandleInv'
    BY DEF MetaInv, TypeOK, DeleterInv, WorkerInv, TableInv, Deleting,
           Counting, InTable, Live, AllInv, PacketInv, ContextInv, RuleInv,
           Packet, HandleInv
<1>4. OneRule'
    BY DEF MetaInv, TypeOK, DeleterInv, WorkerInv, TableInv, Deleting,
           Counting, InTable, Live, AllInv, PacketInv, ContextInv, RuleInv,
           Packet, OneRule
<1>5. FreshInv'
    BY DEF MetaInv, TypeOK, DeleterInv, WorkerInv, TableInv, Deleting,
           Counting, InTable, Live, AllInv, PacketInv, ContextInv, RuleInv,
           Packet, FreshInv, InEntry
<1>6. AgedInv'
    BY DEF MetaInv, TypeOK, DeleterInv, WorkerInv, TableInv, Deleting,
           Counting, InTable, Live, AllInv, PacketInv, ContextInv, RuleInv,
           Packet, AgedInv, InEntry, InHand
<1> QED
    BY <1>1, <1>2, <1>3, <1>4, <1>5, <1>6 DEF AllInv, RuleInv

\* The new flow does not enter it.
LEMMA AddFailedKeeps ==
    ASSUME MetaInv, AllInv, ~late', AddFailed
    PROVE  AllInv'
<1> USE Distinct, V1BoundAssumption
    DEF AddFailed, PacketDone, tableVars, nicVars, agingVars, mainVars
<1>1. PacketInv'
    BY DEF MetaInv, TypeOK, DeleterInv, WorkerInv, TableInv, Deleting,
           Counting, InTable, Live, AllInv, PacketInv, ContextInv, RuleInv,
           Packet
<1>2. ContextInv'
    BY DEF MetaInv, TypeOK, DeleterInv, WorkerInv, TableInv, Deleting,
           Counting, InTable, Live, AllInv, PacketInv, ContextInv, RuleInv,
           Packet
<1>3. HandleInv'
    BY DEF MetaInv, TypeOK, DeleterInv, WorkerInv, TableInv, Deleting,
           Counting, InTable, Live, AllInv, PacketInv, ContextInv, RuleInv,
           Packet, HandleInv
<1>4. OneRule'
    BY DEF MetaInv, TypeOK, DeleterInv, WorkerInv, TableInv, Deleting,
           Counting, InTable, Live, AllInv, PacketInv, ContextInv, RuleInv,
           Packet, OneRule
<1>5. FreshInv'
    BY DEF MetaInv, TypeOK, DeleterInv, WorkerInv, TableInv, Deleting,
           Counting, InTable, Live, AllInv, PacketInv, ContextInv, RuleInv,
           Packet, FreshInv, InEntry
<1>6. AgedInv'
    BY DEF MetaInv, TypeOK, DeleterInv, WorkerInv, TableInv, Deleting,
           Counting, InTable, Live, AllInv, PacketInv, ContextInv, RuleInv,
           Packet, AgedInv, InEntry, InHand
<1> QED
    BY <1>1, <1>2, <1>3, <1>4, <1>5, <1>6 DEF AllInv, RuleInv

\* The packet is counted; below the threshold there is no handle.
LEMMA CountKeeps ==
    ASSUME MetaInv, AllInv, ~late', CountPacket
    PROVE  AllInv'
<1> USE Distinct, V1BoundAssumption
    DEF CountPacket, TouchMeta, PacketDone, OneMore, nicVars, agingVars,
        mainVars
<1>1. PacketInv'
  <2>1. Packet' => Packet /\ wkey' = wkey /\ wmeta' = wmeta
    BY DEF Packet
  <2>2. /\ UNCHANGED <<table, handle, aged, rule>>
        /\ wpc' # "add" /\ wpc' # "store" /\ wpc = "count"
    OBVIOUS
  <2>3. wpc' = "create" =>
          /\ amount'[wmeta] = OffloadAt
          /\ amount[wmeta] + 1 = OffloadAt /\ amount[wmeta] \in Nat
    BY DEF MetaInv, TypeOK
  <2>4. table[wkey] = wmeta /\ wkey \in Keys /\ wmeta \in Metas
    BY DEF AllInv, PacketInv, Counting, MetaInv, TypeOK, WorkerInv
  <2>5. wpc' = "create" => handle[wmeta] = NULL
    BY <2>3, <2>4 DEF AllInv, RuleInv, HandleInv
  <2> QED
    BY <2>1, <2>2, <2>3, <2>4, <2>5
    DEF AllInv, PacketInv, Counting, Packet
<1>2. ContextInv'
    BY DEF MetaInv, TypeOK, DeleterInv, WorkerInv, TableInv, Deleting,
           Counting, InTable, Live, AllInv, PacketInv, ContextInv, RuleInv,
           Packet
<1>3. HandleInv'
    BY DEF MetaInv, TypeOK, DeleterInv, WorkerInv, TableInv, Deleting,
           Counting, InTable, Live, AllInv, PacketInv, ContextInv, RuleInv,
           Packet, HandleInv
<1>4. OneRule'
    BY DEF MetaInv, TypeOK, DeleterInv, WorkerInv, TableInv, Deleting,
           Counting, InTable, Live, AllInv, PacketInv, ContextInv, RuleInv,
           Packet, OneRule
<1>5. FreshInv'
    BY DEF MetaInv, TypeOK, DeleterInv, WorkerInv, TableInv, Deleting,
           Counting, InTable, Live, AllInv, PacketInv, ContextInv, RuleInv,
           Packet, FreshInv, InEntry
<1>6. AgedInv'
    BY DEF MetaInv, TypeOK, DeleterInv, WorkerInv, TableInv, Deleting,
           Counting, InTable, Live, AllInv, PacketInv, ContextInv, RuleInv,
           Packet, AgedInv, InEntry, InHand
<1> QED
    BY <1>1, <1>2, <1>3, <1>4, <1>5, <1>6 DEF AllInv, RuleInv

\* The NIC makes the only rule of the flow.
LEMMA CreateRuleKeeps ==
    ASSUME MetaInv, AllInv, ~late', NEW h \in Handles, CreateRule(h)
    PROVE  AllInv'
<1> USE Distinct, V1BoundAssumption
    DEF CreateRule, tableVars, agingVars, ghostVars, mainVars
<1>1. PacketInv'
    BY DEF MetaInv, TypeOK, DeleterInv, WorkerInv, TableInv, Deleting,
           Counting, InTable, Live, AllInv, PacketInv, ContextInv, RuleInv,
           Packet
<1>2. ContextInv'
    BY DEF MetaInv, TypeOK, DeleterInv, WorkerInv, TableInv, Deleting,
           Counting, InTable, Live, AllInv, PacketInv, ContextInv, RuleInv,
           Packet
<1>3. HandleInv'
    BY DEF MetaInv, TypeOK, DeleterInv, WorkerInv, TableInv, Deleting,
           Counting, InTable, Live, AllInv, PacketInv, ContextInv, RuleInv,
           Packet, HandleInv
<1>4. OneRule'
  <2>1. ASSUME NEW g \in Handles, rule[g] = wkey PROVE FALSE
    <3>1. wkey \in Keys /\ table[wkey] = wmeta /\ handle[wmeta] = NULL
      BY DEF MetaInv, WorkerInv, AllInv, PacketInv, Counting
    <3>2. Live(g) /\ g \notin aged
      BY <2>1, <3>1 DEF AllInv, PacketInv, Packet, Live
    <3> QED
      BY <2>1, <3>1, <3>2 DEF AllInv, RuleInv, FreshInv, InEntry
  <2>2. rule \in [Handles -> Keys \cup {NULL}]
    BY DEF MetaInv, TypeOK
  <2> QED
    BY <2>1, <2>2 DEF AllInv, RuleInv, OneRule, Live
<1>5. FreshInv'
    BY DEF MetaInv, TypeOK, DeleterInv, WorkerInv, TableInv, Deleting,
           Counting, InTable, Live, AllInv, PacketInv, ContextInv, RuleInv,
           Packet, FreshInv, InEntry
<1>6. AgedInv'
    BY DEF MetaInv, TypeOK, DeleterInv, WorkerInv, TableInv, Deleting,
           Counting, InTable, Live, AllInv, PacketInv, ContextInv, RuleInv,
           Packet, AgedInv, InEntry, InHand
<1> QED
    BY <1>1, <1>2, <1>3, <1>4, <1>5, <1>6 DEF AllInv, RuleInv

\* The NIC refuses it.
LEMMA RefusedKeeps ==
    ASSUME MetaInv, AllInv, ~late', CreateRefused
    PROVE  AllInv'
<1> USE Distinct, V1BoundAssumption
    DEF CreateRefused, PacketDone, tableVars, nicVars, agingVars, mainVars
<1>1. PacketInv'
    BY DEF MetaInv, TypeOK, DeleterInv, WorkerInv, TableInv, Deleting,
           Counting, InTable, Live, AllInv, PacketInv, ContextInv, RuleInv,
           Packet
<1>2. ContextInv'
    BY DEF MetaInv, TypeOK, DeleterInv, WorkerInv, TableInv, Deleting,
           Counting, InTable, Live, AllInv, PacketInv, ContextInv, RuleInv,
           Packet
<1>3. HandleInv'
    BY DEF MetaInv, TypeOK, DeleterInv, WorkerInv, TableInv, Deleting,
           Counting, InTable, Live, AllInv, PacketInv, ContextInv, RuleInv,
           Packet, HandleInv
<1>4. OneRule'
    BY DEF MetaInv, TypeOK, DeleterInv, WorkerInv, TableInv, Deleting,
           Counting, InTable, Live, AllInv, PacketInv, ContextInv, RuleInv,
           Packet, OneRule
<1>5. FreshInv'
    BY DEF MetaInv, TypeOK, DeleterInv, WorkerInv, TableInv, Deleting,
           Counting, InTable, Live, AllInv, PacketInv, ContextInv, RuleInv,
           Packet, FreshInv, InEntry
<1>6. AgedInv'
    BY DEF MetaInv, TypeOK, DeleterInv, WorkerInv, TableInv, Deleting,
           Counting, InTable, Live, AllInv, PacketInv, ContextInv, RuleInv,
           Packet, AgedInv, InEntry, InHand
<1> QED
    BY <1>1, <1>2, <1>3, <1>4, <1>5, <1>6 DEF AllInv, RuleInv

\* Its handle is stored, in the entry of the flow.
LEMMA StoreKeeps ==
    ASSUME MetaInv, AllInv, ~late', StoreHandle
    PROVE  AllInv'
<1> USE Distinct, V1BoundAssumption
    DEF StoreHandle, TouchMeta, PacketDone, nicVars, agingVars, mainVars
<1>1. PacketInv'
    BY DEF MetaInv, TypeOK, DeleterInv, WorkerInv, TableInv, Deleting,
           Counting, InTable, Live, AllInv, PacketInv, ContextInv, RuleInv,
           Packet
<1>2. ContextInv'
    BY DEF MetaInv, TypeOK, DeleterInv, WorkerInv, TableInv, Deleting,
           Counting, InTable, Live, AllInv, PacketInv, ContextInv, RuleInv,
           Packet
<1>3. HandleInv'
    BY DEF MetaInv, TypeOK, DeleterInv, WorkerInv, TableInv, Deleting,
           Counting, InTable, Live, AllInv, PacketInv, ContextInv, RuleInv,
           Packet, HandleInv
<1>4. OneRule'
    BY DEF MetaInv, TypeOK, DeleterInv, WorkerInv, TableInv, Deleting,
           Counting, InTable, Live, AllInv, PacketInv, ContextInv, RuleInv,
           Packet, OneRule
<1>5. FreshInv'
    BY DEF MetaInv, TypeOK, DeleterInv, WorkerInv, TableInv, Deleting,
           Counting, InTable, Live, AllInv, PacketInv, ContextInv, RuleInv,
           Packet, FreshInv, InEntry
<1>6. AgedInv'
    BY DEF MetaInv, TypeOK, DeleterInv, WorkerInv, TableInv, Deleting,
           Counting, InTable, Live, AllInv, PacketInv, ContextInv, RuleInv,
           Packet, AgedInv, InEntry, InHand
<1> QED
    BY <1>1, <1>2, <1>3, <1>4, <1>5, <1>6 DEF AllInv, RuleInv

----------------------------------------------------------------------------
(* The NIC and the interrupt thread.                                       *)

\* A rule ages, none of the packet in hand.
LEMMA AgeKeeps ==
    ASSUME MetaInv, AllInv, ~late', NEW h \in Handles, Age(h)
    PROVE  AllInv'
<1> USE Distinct, V1BoundAssumption
    DEF Age, InFlight, tableVars, workerVars, mainVars
<1>1. PacketInv'
    BY DEF MetaInv, TypeOK, DeleterInv, WorkerInv, TableInv, Deleting,
           Counting, InTable, Live, AllInv, PacketInv, ContextInv, RuleInv,
           Packet
<1>2. ContextInv'
    BY DEF MetaInv, TypeOK, DeleterInv, WorkerInv, TableInv, Deleting,
           Counting, InTable, Live, AllInv, PacketInv, ContextInv, RuleInv,
           Packet
<1>3. HandleInv'
    BY DEF MetaInv, TypeOK, DeleterInv, WorkerInv, TableInv, Deleting,
           Counting, InTable, Live, AllInv, PacketInv, ContextInv, RuleInv,
           Packet, HandleInv
<1>4. OneRule'
    BY DEF MetaInv, TypeOK, DeleterInv, WorkerInv, TableInv, Deleting,
           Counting, InTable, Live, AllInv, PacketInv, ContextInv, RuleInv,
           Packet, OneRule
<1>5. FreshInv'
    BY DEF MetaInv, TypeOK, DeleterInv, WorkerInv, TableInv, Deleting,
           Counting, InTable, Live, AllInv, PacketInv, ContextInv, RuleInv,
           Packet, FreshInv, InEntry
<1>6. AgedInv'
  <2>1. InEntry(h)
    <3>1. Live(h) /\ h \notin aged
      OBVIOUS
    <3>2. ~(wpc = "store" /\ wkey = rule[h])
      OBVIOUS
    <3> QED
      BY <3>1, <3>2 DEF AllInv, RuleInv, FreshInv
  <2>2. /\ aged' = aged \cup {h}
        /\ UNCHANGED <<table, handle, rule, dpc, dkey, dmeta>>
    OBVIOUS
  <2>3. agingError => agingError'
    OBVIOUS
  <2>4. \A g \in Handles : (InEntry(g) => InEntry(g)')
                          /\ (InHand(g) => InHand(g)')
    BY <2>2 DEF InEntry, InHand
  <2> QED
    BY <2>1, <2>2, <2>3, <2>4
    DEF AllInv, RuleInv, AgedInv, MetaInv, TypeOK
<1> QED
    BY <1>1, <1>2, <1>3, <1>4, <1>5, <1>6 DEF AllInv, RuleInv

\* The interrupt thread is told which rules have aged.
LEMMA FetchKeeps ==
    ASSUME MetaInv, AllInv, ~late', CountAged \/ FetchAged \/ FetchFailed
    PROVE  AllInv'
<1> USE Distinct, V1BoundAssumption
    DEF CountAged, FetchAged, FetchFailed, tableVars, workerVars, nicVars,
        ghostVars, mainVars
<1>1. PacketInv'
    BY DEF MetaInv, TypeOK, DeleterInv, WorkerInv, TableInv, Deleting,
           Counting, InTable, Live, AllInv, PacketInv, ContextInv, RuleInv,
           Packet
<1>2. ContextInv'
    BY DEF MetaInv, TypeOK, DeleterInv, WorkerInv, TableInv, Deleting,
           Counting, InTable, Live, AllInv, PacketInv, ContextInv, RuleInv,
           Packet
<1>3. HandleInv'
    BY DEF MetaInv, TypeOK, DeleterInv, WorkerInv, TableInv, Deleting,
           Counting, InTable, Live, AllInv, PacketInv, ContextInv, RuleInv,
           Packet, HandleInv
<1>4. OneRule'
    BY DEF MetaInv, TypeOK, DeleterInv, WorkerInv, TableInv, Deleting,
           Counting, InTable, Live, AllInv, PacketInv, ContextInv, RuleInv,
           Packet, OneRule
<1>5. FreshInv'
    BY DEF MetaInv, TypeOK, DeleterInv, WorkerInv, TableInv, Deleting,
           Counting, InTable, Live, AllInv, PacketInv, ContextInv, RuleInv,
           Packet, FreshInv, InEntry
<1>6. AgedInv'
    BY DEF MetaInv, TypeOK, DeleterInv, WorkerInv, TableInv, Deleting,
           Counting, InTable, Live, AllInv, PacketInv, ContextInv, RuleInv,
           Packet, AgedInv, InEntry, InHand
<1> QED
    BY <1>1, <1>2, <1>3, <1>4, <1>5, <1>6 DEF AllInv, RuleInv

\* It looks a context up.
LEMMA ContextKeeps ==
    ASSUME MetaInv, AllInv, ~late', NEW p \in todo, LookupContext(p)
    PROVE  AllInv'
<1> USE Distinct, V1BoundAssumption
    DEF LookupContext, MoreAged, tableVars, workerVars, nicVars, ghostVars,
        mainVars
<1>1. PacketInv'
    BY DEF MetaInv, TypeOK, DeleterInv, WorkerInv, TableInv, Deleting,
           Counting, InTable, Live, AllInv, PacketInv, ContextInv, RuleInv,
           Packet
<1>2. ContextInv'
  <2>1. /\ p[1] \in aged /\ rule[p[1]] = p[2] /\ p \in Handles \X Keys
        /\ \A q \in todo : q[1] \in aged /\ rule[q[1]] = q[2]
                              /\ q \in Handles \X Keys
    BY DEF AllInv, ContextInv, MetaInv, DeleterInv
  <2>2. ASSUME NEW q \in todo, q[2] = p[2]
        PROVE  q = p
    <3>1. Live(q[1]) /\ rule[q[1]] = rule[p[1]]
      BY <2>1, <2>2 DEF Live
    <3>2. q[1] = p[1]
      BY <2>1, <3>1 DEF AllInv, RuleInv, OneRule
    <3> QED
      BY <2>1, <2>2, <3>2
  <2>3. /\ todo' = todo \ {p} /\ UNCHANGED <<aged, rule>>
        /\ dpc' \notin {"position", "destroy"}
        /\ dpc' = "delete" => dkey' = p[2]
    OBVIOUS
  <2> QED
    BY <2>1, <2>2, <2>3 DEF ContextInv
<1>3. HandleInv'
    BY DEF MetaInv, TypeOK, DeleterInv, WorkerInv, TableInv, Deleting,
           Counting, InTable, Live, AllInv, PacketInv, ContextInv, RuleInv,
           Packet, HandleInv
<1>4. OneRule'
    BY DEF MetaInv, TypeOK, DeleterInv, WorkerInv, TableInv, Deleting,
           Counting, InTable, Live, AllInv, PacketInv, ContextInv, RuleInv,
           Packet, OneRule
<1>5. FreshInv'
    BY DEF MetaInv, TypeOK, DeleterInv, WorkerInv, TableInv, Deleting,
           Counting, InTable, Live, AllInv, PacketInv, ContextInv, RuleInv,
           Packet, FreshInv, InEntry
<1>6. AgedInv'
    BY DEF MetaInv, TypeOK, DeleterInv, WorkerInv, TableInv, Deleting,
           Counting, InTable, Live, AllInv, PacketInv, ContextInv, RuleInv,
           Packet, AgedInv, InEntry, InHand
<1> QED
    BY <1>1, <1>2, <1>3, <1>4, <1>5, <1>6 DEF AllInv, RuleInv

\* It takes the entry out of the table, with the handle of the aged rule.
LEMMA DeleteKeeps ==
    ASSUME MetaInv, AllInv, ~late', DeleteKey
    PROVE  AllInv'
<1> USE Distinct, V1BoundAssumption
    DEF DeleteKey, workerVars, nicVars, ghostVars, mainVars
<1>1. PacketInv'
    BY DEF MetaInv, TypeOK, DeleterInv, WorkerInv, TableInv, Deleting,
           Counting, InTable, Live, AllInv, PacketInv, ContextInv, RuleInv,
           Packet
<1>2. ContextInv'
  <2>1. /\ dkey \in Keys /\ dmeta \in Metas /\ table[dkey] = dmeta
        /\ table \in [Keys -> Metas \cup {NULL}]
    BY DEF MetaInv, TypeOK, DeleterInv, Deleting
  <2>2. handle[dmeta] # NULL => rule[handle[dmeta]] = dkey
    BY <2>1 DEF AllInv, RuleInv, HandleInv
  <2>3. /\ \A q \in todo : q[1] \in aged /\ rule[q[1]] = q[2]
        /\ \A q \in todo : q[2] # dkey
        /\ \E h \in aged : rule[h] = dkey
    BY DEF AllInv, ContextInv
  <2>4. /\ UNCHANGED <<todo, aged, rule, handle, dkey, dmeta>>
        /\ table'[dkey] = NULL
    BY <2>1
  <2> QED
    BY <2>2, <2>3, <2>4 DEF ContextInv
<1>3. HandleInv'
    BY DEF MetaInv, TypeOK, DeleterInv, WorkerInv, TableInv, Deleting,
           Counting, InTable, Live, AllInv, PacketInv, ContextInv, RuleInv,
           Packet, HandleInv
<1>4. OneRule'
    BY DEF MetaInv, TypeOK, DeleterInv, WorkerInv, TableInv, Deleting,
           Counting, InTable, Live, AllInv, PacketInv, ContextInv, RuleInv,
           Packet, OneRule
<1>5. FreshInv'
  <2>1. PICK g \in aged : rule[g] = dkey
    BY DEF AllInv, ContextInv
  <2>2. ASSUME NEW h \in Handles \ aged, Live(h)
        PROVE  rule[h] # dkey
    BY <2>1, <2>2 DEF AllInv, RuleInv, OneRule, MetaInv, TypeOK
  <2>3. ASSUME NEW h \in Handles, rule[h] # dkey, InEntry(h), Live(h)
        PROVE  InEntry(h)'
    <3>1. rule[h] \in Keys
      BY <2>3 DEF Live, MetaInv, TypeOK
    <3>2. /\ table'[rule[h]] = table[rule[h]]
          /\ UNCHANGED <<rule, handle>>
      BY <2>3, <3>1 DEF MetaInv, TypeOK
    <3> QED
      BY <2>3, <3>2 DEF InEntry
  <2>4. UNCHANGED <<rule, aged, wpc, created, wkey>>
    OBVIOUS
  <2> QED
    BY <2>2, <2>3, <2>4 DEF AllInv, RuleInv, FreshInv, Live
<1>6. AgedInv'
    BY DEF MetaInv, TypeOK, DeleterInv, WorkerInv, TableInv, Deleting,
           Counting, InTable, Live, AllInv, PacketInv, ContextInv, RuleInv,
           Packet, AgedInv, InEntry, InHand
<1> QED
    BY <1>1, <1>2, <1>3, <1>4, <1>5, <1>6 DEF AllInv, RuleInv

\* It frees the position of the key.
LEMMA PositionKeeps ==
    ASSUME MetaInv, AllInv, ~late', FreePosition
    PROVE  AllInv'
<1> USE Distinct, V1BoundAssumption
    DEF FreePosition, TouchMeta, tableVars, workerVars, nicVars, mainVars
<1>1. PacketInv'
    BY DEF MetaInv, TypeOK, DeleterInv, WorkerInv, TableInv, Deleting,
           Counting, InTable, Live, AllInv, PacketInv, ContextInv, RuleInv,
           Packet
<1>2. ContextInv'
    BY DEF MetaInv, TypeOK, DeleterInv, WorkerInv, TableInv, Deleting,
           Counting, InTable, Live, AllInv, PacketInv, ContextInv, RuleInv,
           Packet
<1>3. HandleInv'
    BY DEF MetaInv, TypeOK, DeleterInv, WorkerInv, TableInv, Deleting,
           Counting, InTable, Live, AllInv, PacketInv, ContextInv, RuleInv,
           Packet, HandleInv
<1>4. OneRule'
    BY DEF MetaInv, TypeOK, DeleterInv, WorkerInv, TableInv, Deleting,
           Counting, InTable, Live, AllInv, PacketInv, ContextInv, RuleInv,
           Packet, OneRule
<1>5. FreshInv'
    BY DEF MetaInv, TypeOK, DeleterInv, WorkerInv, TableInv, Deleting,
           Counting, InTable, Live, AllInv, PacketInv, ContextInv, RuleInv,
           Packet, FreshInv, InEntry
<1>6. AgedInv'
    BY DEF MetaInv, TypeOK, DeleterInv, WorkerInv, TableInv, Deleting,
           Counting, InTable, Live, AllInv, PacketInv, ContextInv, RuleInv,
           Packet, AgedInv, InEntry, InHand
<1> QED
    BY <1>1, <1>2, <1>3, <1>4, <1>5, <1>6 DEF AllInv, RuleInv

\* It destroys the rule, which is the aged one.
LEMMA DestroyRuleKeeps ==
    ASSUME MetaInv, AllInv, ~late', DestroyRule
    PROVE  AllInv'
<1> USE Distinct, V1BoundAssumption
    DEF DestroyRule, tableVars, workerVars, ghostVars, mainVars
<1>1. PacketInv'
    BY DEF MetaInv, TypeOK, DeleterInv, WorkerInv, TableInv, Deleting,
           Counting, InTable, Live, AllInv, PacketInv, ContextInv, RuleInv,
           Packet
<1>2. ContextInv'
    BY DEF MetaInv, TypeOK, DeleterInv, WorkerInv, TableInv, Deleting,
           Counting, InTable, Live, AllInv, PacketInv, ContextInv, RuleInv,
           Packet
<1>3. HandleInv'
    BY DEF MetaInv, TypeOK, DeleterInv, WorkerInv, TableInv, Deleting,
           Counting, InTable, Live, AllInv, PacketInv, ContextInv, RuleInv,
           Packet, HandleInv
<1>4. OneRule'
    BY DEF MetaInv, TypeOK, DeleterInv, WorkerInv, TableInv, Deleting,
           Counting, InTable, Live, AllInv, PacketInv, ContextInv, RuleInv,
           Packet, OneRule
<1>5. FreshInv'
    BY DEF MetaInv, TypeOK, DeleterInv, WorkerInv, TableInv, Deleting,
           Counting, InTable, Live, AllInv, PacketInv, ContextInv, RuleInv,
           Packet, FreshInv, InEntry
<1>6. AgedInv'
    BY DEF MetaInv, TypeOK, DeleterInv, WorkerInv, TableInv, Deleting,
           Counting, InTable, Live, AllInv, PacketInv, ContextInv, RuleInv,
           Packet, AgedInv, InEntry, InHand
<1> QED
    BY <1>1, <1>2, <1>3, <1>4, <1>5, <1>6 DEF AllInv, RuleInv

\* It cannot destroy it.
LEMMA DestroyFailedKeeps ==
    ASSUME MetaInv, AllInv, ~late', DestroyFailed
    PROVE  AllInv'
<1> USE Distinct, V1BoundAssumption
    DEF DestroyFailed, tableVars, workerVars, nicVars, mainVars
<1>1. PacketInv'
    BY DEF MetaInv, TypeOK, DeleterInv, WorkerInv, TableInv, Deleting,
           Counting, InTable, Live, AllInv, PacketInv, ContextInv, RuleInv,
           Packet
<1>2. ContextInv'
    BY DEF MetaInv, TypeOK, DeleterInv, WorkerInv, TableInv, Deleting,
           Counting, InTable, Live, AllInv, PacketInv, ContextInv, RuleInv,
           Packet
<1>3. HandleInv'
    BY DEF MetaInv, TypeOK, DeleterInv, WorkerInv, TableInv, Deleting,
           Counting, InTable, Live, AllInv, PacketInv, ContextInv, RuleInv,
           Packet, HandleInv
<1>4. OneRule'
    BY DEF MetaInv, TypeOK, DeleterInv, WorkerInv, TableInv, Deleting,
           Counting, InTable, Live, AllInv, PacketInv, ContextInv, RuleInv,
           Packet, OneRule
<1>5. FreshInv'
    BY DEF MetaInv, TypeOK, DeleterInv, WorkerInv, TableInv, Deleting,
           Counting, InTable, Live, AllInv, PacketInv, ContextInv, RuleInv,
           Packet, FreshInv, InEntry
<1>6. AgedInv'
    BY DEF MetaInv, TypeOK, DeleterInv, WorkerInv, TableInv, Deleting,
           Counting, InTable, Live, AllInv, PacketInv, ContextInv, RuleInv,
           Packet, AgedInv, InEntry, InHand
<1> QED
    BY <1>1, <1>2, <1>3, <1>4, <1>5, <1>6 DEF AllInv, RuleInv

\* It frees the flow_meta, which is in the table no more.
LEMMA FreeKeeps ==
    ASSUME MetaInv, AllInv, ~late', FreeMeta
    PROVE  AllInv'
<1> USE Distinct, V1BoundAssumption
    DEF FreeMeta, MoreAged, workerVars, nicVars, mainVars
<1>1. PacketInv'
    BY DEF MetaInv, TypeOK, DeleterInv, WorkerInv, TableInv, Deleting,
           Counting, InTable, Live, AllInv, PacketInv, ContextInv, RuleInv,
           Packet
<1>2. ContextInv'
    BY DEF MetaInv, TypeOK, DeleterInv, WorkerInv, TableInv, Deleting,
           Counting, InTable, Live, AllInv, PacketInv, ContextInv, RuleInv,
           Packet
<1>3. HandleInv'
    BY DEF MetaInv, TypeOK, DeleterInv, WorkerInv, TableInv, Deleting,
           Counting, InTable, Live, AllInv, PacketInv, ContextInv, RuleInv,
           Packet, HandleInv
<1>4. OneRule'
    BY DEF MetaInv, TypeOK, DeleterInv, WorkerInv, TableInv, Deleting,
           Counting, InTable, Live, AllInv, PacketInv, ContextInv, RuleInv,
           Packet, OneRule
<1>5. FreshInv'
    BY DEF MetaInv, TypeOK, DeleterInv, WorkerInv, TableInv, Deleting,
           Counting, InTable, Live, AllInv, PacketInv, ContextInv, RuleInv,
           Packet, FreshInv, InEntry
<1>6. AgedInv'
    BY DEF MetaInv, TypeOK, DeleterInv, WorkerInv, TableInv, Deleting,
           Counting, InTable, Live, AllInv, PacketInv, ContextInv, RuleInv,
           Packet, AgedInv, InEntry, InHand
<1> QED
    BY <1>1, <1>2, <1>3, <1>4, <1>5, <1>6 DEF AllInv, RuleInv

----------------------------------------------------------------------------
(* Every step of the whole.                                                *)

\* The initial states satisfy the invariants.
LEMMA InitQuiet ==
    Init => /\ MainInv /\ BatchInv /\ QuietInv /\ TodoInv
            /\ FreedUseOnlyLate /\ BusyFlowOffloaded
<1> SUFFICES ASSUME Init
             PROVE  /\ MainInv /\ BatchInv /\ QuietInv /\ TodoInv
                    /\ FreedUseOnlyLate /\ BusyFlowOffloaded
    OBVIOUS
<1>1. MainInv
    BY DEF Init, TableInit, MainInv, Open, Live
<1>2. BatchInv
    BY FS_EmptySet DEF Init, TableInit, BatchInv
<1>3. AllInv
    BY DEF Init, TableInit, AllInv, PacketInv, ContextInv, RuleInv, HandleInv,
           OneRule, FreshInv, AgedInv, Counting, Packet, Live
<1>4. TodoInv /\ FreedUseOnlyLate /\ BusyFlowOffloaded
    BY DEF Init, TableInit, TodoInv, FreedUseOnlyLate, BusyFlowOffloaded
<1> QED
    BY <1>1, <1>2, <1>3, <1>4 DEF QuietInv

\* The worker takes a step only while main waits for it.
LEMMA WorkerRuns ==
    ASSUME MainInv, Worker, ~Ended
    PROVE  wpc \notin {"off", "done"} /\ mpc = "wait" /\ tableAlive /\ Open
<1>1. wpc \notin {"off", "done"}
    BY DEF Worker, PacketStep, Receive, SkipPacket, LeaveLoop, LookupHit,
           LookupMiss, AddEntry, AddFailed, CountPacket, CreateRefused,
           CreateRule, StoreHandle
<1> QED
    BY <1>1 DEF MainInv, Open, Ended

\* Nothing of what has gone wrong is forgotten, and the port stays closed.
LEMMA CalmBefore ==
    ASSUME MainInv, [Next]_vars
    PROVE  (late => late') /\ (Open' => Open)
<1> USE DEF flowVars, tableVars, workerVars, nicVars, agingVars, ghostVars,
            mainVars
<1>1. CASE Main \/ SignalHandler
  <2>1. UNCHANGED late
    BY <1>1
    DEF Main, SignalHandler, Try, StartEnvironment, CheckPorts, CheckLcores,
        CreateMempool, InitPort, SetupHairpinQueues, StartPort, LinkUp,
        LinkRetry, LinkTimeout, CreateJumpFlow, CreateRssFlow, CreateHashMap,
        RegisterAgedEvent, LaunchWorker, WaitLcores, CountKeys, FreeHashMap,
        CloseEverything, ExitProcess
  <2>2. ~Open => ~Open'
    BY <1>1
    DEF Main, SignalHandler, Try, StartEnvironment, CheckPorts, CheckLcores,
        CreateMempool, InitPort, SetupHairpinQueues, StartPort, LinkUp,
        LinkRetry, LinkTimeout, CreateJumpFlow, CreateRssFlow, CreateHashMap,
        RegisterAgedEvent, LaunchWorker, WaitLcores, CountKeys, FreeHashMap,
        CloseEverything, ExitProcess, Open
  <2> QED
    BY <2>1, <2>2
<1>2. CASE Beside(Worker)
  <2>1. mpc' = mpc
    BY <1>2 DEF Beside
  <2>2. late => late'
    <3>1. ASSUME NEW k \in Keys,
                 LookupHit(k) \/ \E m \in Metas : LookupMiss(k, m)
          PROVE  late => late'
      BY <3>1 DEF LookupHit, LookupMiss, Late
    <3>2. CASE Receive \/ SkipPacket \/ LeaveLoop \/ PacketStep
      <4>1. UNCHANGED late
        BY <3>2
        DEF PacketStep, Receive, SkipPacket, LeaveLoop, AddEntry, AddFailed,
            CountPacket, CreateRefused, CreateRule, StoreHandle
      <4> QED
        BY <4>1
    <3> QED
      BY <1>2, <3>1, <3>2 DEF Beside, Worker
  <2> QED
    BY <2>1, <2>2 DEF Open
<1>3. CASE Beside(DeleteTimeoutFlows)
  <2>1. mpc' = mpc /\ late' = late
    BY <1>3
    DEF Beside, DeleteTimeoutFlows, CountAged, FetchAged, FetchFailed,
        LookupContext, DeleteKey, FreePosition, DestroyRule, DestroyFailed,
        FreeMeta
  <2> QED
    BY <2>1 DEF Open
<1>4. ASSUME NEW h \in Handles, Beside(Age(h))
      PROVE  (late => late') /\ (Open' => Open)
    BY <1>4 DEF Beside, Age, Open
<1>5. CASE OutOfMemory
  <2>1. late' = late
    BY <1>5, OutOfMemoryFrame
  <2>2. Open
    BY <1>5 DEF OutOfMemory, PacketOutOfMemory, EventOutOfMemory, MainInv,
                Open
  <2> QED
    BY <2>1, <2>2
<1>6. CASE UNCHANGED vars
    BY <1>6 DEF vars, Open
<1> QED
    BY <1>1, <1>2, <1>3, <1>4, <1>5, <1>6 DEF Next

\* Main and its worker start and end in step.
LEMMA MainInvStep ==
    ASSUME MetaInv, Launched, MainInv, [Next]_vars
    PROVE  MainInv'
<1> USE DEF flowVars, tableVars, workerVars, nicVars, agingVars, ghostVars,
            mainVars
<1>1. CASE Main \/ SignalHandler
  <2>1. CASE LaunchWorker
    BY <2>1 DEF LaunchWorker, MainInv, Open, Live
  <2>2. CASE CloseEverything
    BY <2>2 DEF CloseEverything, MainInv, Open, Live
  <2>3. ASSUME ~LaunchWorker, ~CloseEverything PROVE MainInv'
    <3>1. UNCHANGED <<wpc, table, rule, dpc>>
      BY <1>1, <2>3, MainFrame DEF MetaInv
    <3>2. CASE CreateHashMap \/ FreeHashMap
      BY <3>1, <3>2
      DEF CreateHashMap, FreeHashMap, MainInv, Launched, Open, Live
    <3>3. CASE CountKeys \/ WaitLcores
      BY <3>1, <3>3 DEF CountKeys, WaitLcores, MainInv, Open, Live
    <3>4. CASE ExitProcess \/ SignalHandler \/ RegisterAgedEvent
      BY <3>1, <3>4
      DEF ExitProcess, SignalHandler, RegisterAgedEvent, Ended, MainInv,
          Launched, Open, Live
    <3>5. CASE \/ StartEnvironment \/ CheckPorts \/ CheckLcores
               \/ CreateMempool \/ InitPort \/ SetupHairpinQueues
               \/ StartPort \/ CreateJumpFlow \/ CreateRssFlow
               \/ LinkUp \/ LinkRetry \/ LinkTimeout
      <4>1. /\ UNCHANGED tableAlive
            /\ mpc \notin {"wait", "count", "free", "cleanup", "exited",
                            "out_of_memory"}
            /\ mpc' \in {"ports", "lcores", "mempool", "port", "queues",
                         "start", "link", "jump", "rss", "hash", "exit",
                         "crashed"}
        BY <3>5
        DEF Try, StartEnvironment, CheckPorts, CheckLcores, CreateMempool,
            InitPort, SetupHairpinQueues, StartPort, CreateJumpFlow,
            CreateRssFlow, LinkUp, LinkRetry, LinkTimeout
      <4> QED
        BY <3>1, <4>1 DEF MainInv, Open, Live
    <3> QED
      BY <1>1, <2>3, <3>2, <3>3, <3>4, <3>5 DEF Main
  <2> QED
    BY <2>1, <2>2, <2>3
<1>2. CASE Beside(Worker)
  <2>1. /\ wpc \notin {"off", "done"} /\ mpc = "wait" /\ tableAlive
        /\ mpc' = mpc
    BY <1>2, WorkerRuns DEF Beside
  <2>2. tableAlive' = tableAlive
    BY <1>2
    DEF Beside, Worker, PacketStep, Receive, SkipPacket, LeaveLoop,
        LookupHit, LookupMiss, AddEntry, AddFailed, CountPacket,
        CreateRefused, CreateRule, StoreHandle
  <2> QED
    BY <2>1, <2>2 DEF MainInv, Open
<1>3. CASE Beside(DeleteTimeoutFlows)
  <2>1. UNCHANGED <<wpc, mpc, tableAlive>>
    BY <1>3
    DEF Beside, DeleteTimeoutFlows, CountAged, FetchAged, FetchFailed,
        LookupContext, DeleteKey, FreePosition, DestroyRule, DestroyFailed,
        FreeMeta
  <2>2. \A k \in Keys : table[k] = NULL => table'[k] = NULL
    <3>1. CASE DeleteKey
      BY <3>1 DEF DeleteKey, MetaInv, TypeOK
    <3>2. ASSUME ~DeleteKey PROVE UNCHANGED table
      BY <1>3, <3>2
      DEF Beside, DeleteTimeoutFlows, CountAged, FetchAged, FetchFailed,
          LookupContext, FreePosition, DestroyRule, DestroyFailed, FreeMeta
    <3> QED
      BY <3>1, <3>2
  <2>3. \A h \in Handles : ~Live(h) => ~Live(h)'
    <3>1. CASE DestroyRule
      BY <3>1 DEF DestroyRule, MetaInv, TypeOK, Live
    <3>2. ASSUME ~DestroyRule PROVE UNCHANGED rule
      BY <1>3, <3>2
      DEF Beside, DeleteTimeoutFlows, CountAged, FetchAged, FetchFailed,
          LookupContext, DeleteKey, FreePosition, DestroyFailed, FreeMeta
    <3> QED
      BY <3>1, <3>2 DEF Live
  <2>4. dpc' = "position" =>
          dpc = "position" \/ \E k \in Keys : table[k] # NULL
    <3>1. CASE DeleteKey
      BY <3>1, Distinct
      DEF DeleteKey, MetaInv, TypeOK, DeleterInv, Deleting
    <3>2. ASSUME ~DeleteKey, dpc # "position" PROVE dpc' # "position"
      BY <1>3, <3>2
      DEF Beside, DeleteTimeoutFlows, CountAged, FetchAged, FetchFailed,
          LookupContext, MoreAged, FreePosition, DestroyRule, DestroyFailed,
          FreeMeta
    <3> QED
      BY <3>1, <3>2
  <2> QED
    BY <2>1, <2>2, <2>3, <2>4 DEF MainInv, Open
<1>4. ASSUME NEW h \in Handles, Beside(Age(h)) PROVE MainInv'
    BY <1>4 DEF Beside, Age, MainInv, Open, Live
<1>5. CASE OutOfMemory
    BY <1>5, OutOfMemoryFrame DEF MainInv, Open, Ended
<1>6. CASE UNCHANGED vars
    BY <1>6 DEF vars, MainInv, Open, Live
<1> QED
    BY <1>1, <1>2, <1>3, <1>4, <1>5, <1>6 DEF Next

\* There is a context in the batch whenever one is looked up.
LEMMA BatchStep ==
    ASSUME MetaInv, BatchInv, [Next]_vars
    PROVE  BatchInv'
<1> USE DEF flowVars, tableVars, workerVars, nicVars, agingVars, ghostVars,
            mainVars, BatchInv
<1>1. CASE Main \/ SignalHandler
  <2>1. CASE LaunchWorker
    BY <2>1 DEF LaunchWorker
  <2>2. CASE CloseEverything
    BY <2>2, FS_EmptySet DEF CloseEverything
  <2>3. ASSUME ~LaunchWorker, ~CloseEverything PROVE BatchInv'
    BY <1>1, <2>3, MainFrame DEF MetaInv
  <2> QED
    BY <2>1, <2>2, <2>3
<1>2. CASE Beside(Worker)
  <2>1. UNCHANGED <<aged, dpc, dcount, todo>>
    BY <1>2
    DEF Beside, Worker, PacketStep, Receive, SkipPacket, LeaveLoop,
        LookupHit, LookupMiss, AddEntry, AddFailed, CountPacket,
        CreateRefused, CreateRule, StoreHandle
  <2> QED
    BY <2>1
<1>3. CASE CountAged
    BY <1>3, FS_EmptySet DEF CountAged
<1>4. CASE FetchAged
  <2>1. PICK S \in SUBSET aged :
            Cardinality(S) = dcount /\ todo' = {<<h, rule[h]>> : h \in S}
    BY <1>4 DEF FetchAged
  <2>2. S # {}
    BY <1>4, <2>1, FS_EmptySet DEF FetchAged
  <2>3. todo' # {}
    BY <2>1, <2>2
  <2> QED
    BY <1>4, <2>3 DEF FetchAged
<1>5. CASE FetchFailed \/ DeleteKey \/ FreePosition \/ DestroyFailed
    BY <1>5 DEF FetchFailed, DeleteKey, FreePosition, DestroyFailed
<1>6. ASSUME NEW p \in todo, LookupContext(p) PROVE BatchInv'
    BY <1>6 DEF LookupContext, MoreAged
<1>7. CASE DestroyRule
    BY <1>7, FS_RemoveElement DEF DestroyRule
<1>8. CASE FreeMeta
    BY <1>8 DEF FreeMeta, MoreAged
<1>9. ASSUME NEW h \in Handles, Beside(Age(h)) PROVE BatchInv'
    BY <1>9, FS_AddElement DEF Beside, Age
<1>10. CASE UNCHANGED vars \/ OutOfMemory
    BY <1>10, OutOfMemoryFrame DEF vars
<1> QED
    BY <1>1, <1>2, <1>3, <1>4, <1>5, <1>6, <1>7, <1>8, <1>9, <1>10
    DEF Next, Beside, DeleteTimeoutFlows

\* As long as no packet comes late and the port is open, every step keeps
\* flows, entries and rules together.
LEMMA QuietStep ==
    ASSUME MetaInv, Launched, MainInv, QuietInv, [Next]_vars
    PROVE  QuietInv'
<1> SUFFICES ASSUME Calm' PROVE AllInv'
    BY DEF QuietInv
<1>1. AllInv /\ ~late'
    BY CalmBefore DEF QuietInv, Calm
<1>2. CASE Main \/ SignalHandler
  <2>1. CASE CloseEverything
    BY <2>1 DEF CloseEverything, Calm, Open
  <2>2. CASE LaunchWorker
    <3>1. /\ wpc = "off" /\ wpc' = "idle"
          /\ UNCHANGED <<table, amount, handle, rule, aged, todo, dpc, dkey,
                         dmeta, agingError>>
      BY <2>2
      DEF LaunchWorker, Launched, tableVars, nicVars, agingVars, ghostVars
    <3> QED
      BY <1>1, <3>1
      DEF AllInv, PacketInv, ContextInv, RuleInv, HandleInv, OneRule,
          FreshInv, AgedInv, InEntry, InHand, Counting, Packet, Live
  <2>3. ASSUME ~LaunchWorker, ~CloseEverything PROVE AllInv'
    <3>1. UNCHANGED flowVars
      BY <1>2, <2>3, MainFrame DEF MetaInv
    <3> QED
      BY <1>1, <3>1
      DEF flowVars, tableVars, workerVars, nicVars, agingVars, ghostVars,
          AllInv, PacketInv, ContextInv, RuleInv, HandleInv, OneRule,
          FreshInv, AgedInv, InEntry, InHand, Counting, Packet, Live
  <2> QED
    BY <2>1, <2>2, <2>3
<1>3. CASE Beside(Worker)
    BY <1>1, <1>3, ReceiveKeeps, LookupMissKeeps, LookupHitKeeps,
       AddEntryKeeps, AddFailedKeeps, CountKeeps, CreateRuleKeeps,
       RefusedKeeps, StoreKeeps
    DEF Beside, Worker, PacketStep
<1>4. CASE Beside(DeleteTimeoutFlows)
    BY <1>1, <1>4, FetchKeeps, ContextKeeps, DeleteKeeps, PositionKeeps,
       DestroyRuleKeeps, DestroyFailedKeeps, FreeKeeps
    DEF Beside, DeleteTimeoutFlows
<1>5. ASSUME NEW h \in Handles, Beside(Age(h)) PROVE AllInv'
    BY <1>1, <1>5, AgeKeeps DEF Beside
<1>6. CASE UNCHANGED vars \/ OutOfMemory
    BY <1>1, <1>6, OutOfMemoryFrame
    DEF vars, flowVars, tableVars, workerVars, nicVars, agingVars, ghostVars,
        AllInv, PacketInv, ContextInv, RuleInv, HandleInv, OneRule,
        FreshInv, AgedInv, InEntry, InHand, Counting, Packet, Live
<1> QED
    BY <1>2, <1>3, <1>4, <1>5, <1>6 DEF Next

\* A freed flow_meta is touched only after a late packet: the interrupt
\* thread touches none, and the worker's is in the table.
LEMMA FreedStep ==
    ASSUME MetaInv, MainInv, QuietInv, FreedUseOnlyLate, [Next]_vars
    PROVE  FreedUseOnlyLate'
<1> USE DEF flowVars, tableVars, workerVars, nicVars, agingVars, ghostVars,
            mainVars
<1> SUFFICES ASSUME ~late' PROVE ~freedUse'
    BY DEF FreedUseOnlyLate
<1>1. ~late /\ ~freedUse
    BY CalmBefore DEF FreedUseOnlyLate
<1>2. CASE Beside(CountPacket) \/ Beside(StoreHandle)
  <2>1. Counting /\ Open
    <3>1. Worker
      BY <1>2 DEF Beside, Worker, PacketStep
    <3> QED
      BY <1>2, <3>1, WorkerRuns DEF Beside, CountPacket, StoreHandle, Counting
  <2>2. table[wkey] = wmeta /\ wkey \in Keys /\ wmeta \in Metas
    BY <1>1, <2>1
    DEF QuietInv, Calm, AllInv, PacketInv, MetaInv, TypeOK, WorkerInv,
        Counting
  <2>3. wmeta \in allocated
    BY <2>2, Distinct DEF MetaInv, TableInv
  <2> QED
    BY <1>1, <1>2, <2>3 DEF Beside, CountPacket, StoreHandle, TouchMeta
<1>3. CASE Beside(FreePosition)
    BY <1>1, <1>3
    DEF Beside, FreePosition, TouchMeta, MetaInv, DeleterInv, Deleting
<1>4. CASE Main \/ SignalHandler
    BY <1>1, <1>4, MainFrame
    DEF MetaInv, LaunchWorker, CloseEverything
<1>5. ASSUME ~Beside(CountPacket), ~Beside(StoreHandle),
             ~Beside(FreePosition), ~(Main \/ SignalHandler)
      PROVE  UNCHANGED freedUse
  <2>1. CASE Beside(Worker)
    BY <1>5, <2>1
    DEF Beside, Worker, PacketStep, Receive, SkipPacket, LeaveLoop,
        LookupHit, LookupMiss, AddEntry, AddFailed, CreateRefused, CreateRule
  <2>2. CASE Beside(DeleteTimeoutFlows)
    BY <1>5, <2>2
    DEF Beside, DeleteTimeoutFlows, CountAged, FetchAged, FetchFailed,
        LookupContext, DeleteKey, DestroyRule, DestroyFailed, FreeMeta
  <2>3. ASSUME NEW h \in Handles, Beside(Age(h)) PROVE UNCHANGED freedUse
    BY <2>3 DEF Beside, Age
  <2>4. CASE UNCHANGED vars \/ OutOfMemory
    BY <2>4, OutOfMemoryFrame DEF vars
  <2> QED
    BY <1>5, <2>1, <2>2, <2>3, <2>4 DEF Next
<1> QED
    BY <1>1, <1>2, <1>3, <1>4, <1>5

\* A flow that has reached the threshold has a rule, or was refused one.
LEMMA BusyStep ==
    ASSUME MetaInv, Launched, MainInv, QuietInv, BusyFlowOffloaded,
           [Next]_vars
    PROVE  BusyFlowOffloaded'
<1> SUFFICES ASSUME ~late',
                    NEW k \in Keys, table'[k] # NULL,
                    amount'[table'[k]] >= OffloadAt
             PROVE  \/ handle'[table'[k]] # NULL \/ table'[k] \in refused'
                    \/ wpc' \in {"create", "store"} /\ wmeta' = table'[k]
    BY DEF BusyFlowOffloaded
<1> DEFINE Served == \/ handle[table[k]] # NULL \/ table[k] \in refused
                     \/ wpc \in {"create", "store"} /\ wmeta = table[k]
<1> USE Distinct, V1BoundAssumption
    DEF flowVars, tableVars, workerVars, nicVars, agingVars, ghostVars,
        mainVars
<1>1. ~late /\ (table[k] # NULL /\ amount[table[k]] >= OffloadAt => Served)
    BY CalmBefore DEF BusyFlowOffloaded
<1>2. CASE Beside(Worker)
  <2>1. AllInv
    BY <1>1, <1>2, WorkerRuns DEF Beside, QuietInv, Calm
  <2>2. CASE Receive \/ SkipPacket \/ LeaveLoop
    BY <1>1, <2>2 DEF Receive, SkipPacket, LeaveLoop
  <2>3. ASSUME NEW j \in Keys, LookupHit(j) PROVE Served'
    BY <1>1, <2>3 DEF LookupHit
  <2>4. ASSUME NEW j \in Keys, NEW m \in Metas, LookupMiss(j, m)
        PROVE  Served'
    <3>1. table' = table /\ table[k] \in Metas /\ table[k] # m
      BY <2>4 DEF LookupMiss, MetaInv, TypeOK, TableInv
    <3>2. amount'[table[k]] = amount[table[k]]
      BY <2>4, <3>1 DEF LookupMiss, MetaInv, TypeOK
    <3>3. handle'[table[k]] = handle[table[k]]
      BY <2>4, <3>1 DEF LookupMiss, MetaInv, TypeOK
    <3> QED
      BY <1>1, <2>4, <3>1, <3>2, <3>3 DEF LookupMiss
  <2>5. CASE AddEntry
    <3>1. wkey \in Keys /\ amount[wmeta] = 1
      BY <2>1, <2>5
      DEF AddEntry, MetaInv, WorkerInv, AllInv, PacketInv
    <3>2. k # wkey /\ table'[k] = table[k]
      BY <2>5, <3>1 DEF AddEntry, MetaInv, TypeOK
    <3> QED
      BY <1>1, <2>5, <3>2 DEF AddEntry
  <2>6. CASE AddFailed
    BY <1>1, <2>6 DEF AddFailed
  <2>7. CASE CountPacket
    <3>1. table' = table /\ handle' = handle /\ refused' = refused
          /\ wpc = "count" /\ wmeta \in Metas /\ table[k] \in Metas
      BY <2>7 DEF CountPacket, MetaInv, TypeOK
    <3>2. CASE table[k] # wmeta
      <4>1. amount'[table[k]] = amount[table[k]]
        BY <2>7, <3>1, <3>2 DEF CountPacket, MetaInv, TypeOK
      <4> QED
        BY <1>1, <3>1, <4>1
    <3>3. CASE table[k] = wmeta
      <4>1. amount[wmeta] \in 0..(OffloadAt + 1)
            /\ amount'[wmeta] = OneMore(amount[wmeta])
        BY <2>7, <3>1 DEF CountPacket, MetaInv, TypeOK
      <4>2. CASE amount'[wmeta] = OffloadAt
        BY <2>7, <3>1, <3>3, <4>2 DEF CountPacket
      <4>3. CASE amount'[wmeta] # OffloadAt
        <5>1. amount[wmeta] >= OffloadAt
          BY <3>1, <3>3, <4>1, <4>3 DEF OneMore
        <5> QED
          BY <1>1, <3>1, <3>3, <5>1
      <4> QED
        BY <4>2, <4>3
    <3> QED
      BY <3>2, <3>3
  <2>8. ASSUME NEW h \in Handles, CreateRule(h) PROVE Served'
    BY <1>1, <2>8 DEF CreateRule
  <2>9. CASE CreateRefused
    BY <1>1, <2>9 DEF CreateRefused
  <2>10. CASE StoreHandle
    <3>1. table' = table /\ amount' = amount /\ refused' = refused
          /\ wpc = "store" /\ wmeta \in Metas /\ created \in Handles
      BY <2>10 DEF StoreHandle, MetaInv, TypeOK
    <3>2. handle'[table[k]] = IF table[k] = wmeta THEN created
                                                  ELSE handle[table[k]]
      BY <2>10, <3>1 DEF StoreHandle, MetaInv, TypeOK
    <3> QED
      BY <1>1, <3>1, <3>2
  <2> QED
    BY <1>2, <2>2, <2>3, <2>4, <2>5, <2>6, <2>7, <2>8, <2>9, <2>10
    DEF Beside, Worker, PacketStep
<1>3. CASE Beside(DeleteKey)
  <2>1. k # dkey /\ table'[k] = table[k]
    BY <1>3 DEF Beside, DeleteKey, MetaInv, TypeOK, DeleterInv, Deleting
  <2> QED
    BY <1>1, <1>3, <2>1 DEF Beside, DeleteKey
<1>4. CASE Beside(FreeMeta)
  <2>1. table' = table /\ table[k] \in Metas /\ table[k] # dmeta
    BY <1>4
    DEF Beside, FreeMeta, MetaInv, TypeOK, DeleterInv, InTable
  <2>2. amount'[table[k]] = amount[table[k]]
    BY <1>4, <2>1 DEF Beside, FreeMeta, MetaInv, TypeOK
  <2>3. handle'[table[k]] = handle[table[k]]
    BY <1>4, <2>1 DEF Beside, FreeMeta, MetaInv, TypeOK
  <2> QED
    BY <1>1, <1>4, <2>1, <2>2, <2>3 DEF Beside, FreeMeta
<1>5. CASE LaunchWorker
  <2>1. wpc = "off"
    BY <1>5 DEF LaunchWorker, Launched
  <2> QED
    BY <1>1, <1>5, <2>1 DEF LaunchWorker
<1>6. ASSUME ~Beside(Worker), ~Beside(DeleteKey), ~Beside(FreeMeta),
             ~LaunchWorker
      PROVE  UNCHANGED <<table, amount, handle, refused, wpc, wmeta>>
  <2>1. CASE CloseEverything
    BY <2>1 DEF CloseEverything
  <2>2. CASE Main \/ SignalHandler
    BY <1>6, <2>1, <2>2, MainFrame DEF MetaInv
  <2>3. CASE Beside(DeleteTimeoutFlows)
    BY <1>6, <2>3
    DEF Beside, DeleteTimeoutFlows, CountAged, FetchAged, FetchFailed,
        LookupContext, FreePosition, DestroyRule, DestroyFailed
  <2>4. ASSUME NEW h \in Handles, Beside(Age(h))
        PROVE  UNCHANGED <<table, amount, handle, refused, wpc, wmeta>>
    BY <2>4 DEF Beside, Age
  <2>5. CASE UNCHANGED vars \/ OutOfMemory
    BY <2>5, OutOfMemoryFrame DEF vars
  <2> QED
    BY <1>6, <2>2, <2>3, <2>4, <2>5 DEF Next
<1> QED
    BY <1>1, <1>2, <1>3, <1>4, <1>5, <1>6

\* The last context is looked up before the table is freed: one that is left
\* is that of an aged rule, whose entry is in the table.
LEMMA TodoStep ==
    ASSUME MetaInv, Launched, MainInv, BatchInv, QuietInv, TodoInv,
           [Next]_vars
    PROVE  TodoInv'
<1> SUFFICES ASSUME ~tableAlive', Undisturbed', todo' # {} PROVE FALSE
    BY DEF TodoInv
<1> USE DEF flowVars, tableVars, workerVars, nicVars, agingVars, ghostVars,
            mainVars
<1>1. Undisturbed
  <2>1. agingError => agingError'
    <3>1. CASE Main \/ SignalHandler
      BY <3>1, MainFrame DEF MetaInv, LaunchWorker, CloseEverything
    <3>2. CASE Beside(Worker)
      BY <3>2
      DEF Beside, Worker, PacketStep, Receive, SkipPacket, LeaveLoop,
          LookupHit, LookupMiss, AddEntry, AddFailed, CountPacket,
          CreateRefused, CreateRule, StoreHandle
    <3>3. CASE Beside(DeleteTimeoutFlows)
      BY <3>3
      DEF Beside, DeleteTimeoutFlows, CountAged, FetchAged, FetchFailed,
          LookupContext, DeleteKey, FreePosition, DestroyRule, DestroyFailed,
          FreeMeta
    <3>4. ASSUME NEW h \in Handles, Beside(Age(h))
          PROVE  agingError => agingError'
      BY <3>4 DEF Beside, Age
    <3>5. CASE UNCHANGED vars \/ OutOfMemory
      BY <3>5, OutOfMemoryFrame DEF vars
    <3> QED
      BY <3>1, <3>2, <3>3, <3>4, <3>5 DEF Next
  <2> QED
    BY <2>1, CalmBefore DEF Undisturbed
<1>2. ASSUME Open, NEW h \in aged, ~tableAlive \/ mpc = "free" PROVE InHand(h)
  <2>1. AllInv /\ \A k \in Keys : table[k] = NULL
    BY <1>1, <1>2 DEF QuietInv, Calm, Undisturbed, MainInv
  <2>2. rule[h] \in Keys
    BY DEF MetaInv, TypeOK, Live
  <2> QED
    BY <1>1, <2>1, <2>2 DEF AllInv, RuleInv, AgedInv, InEntry, Undisturbed
<1>3. CASE FetchAged
  <2>1. PICK S \in SUBSET aged :
            Cardinality(S) = dcount /\ todo' = {<<h, rule[h]>> : h \in S}
    BY <1>3 DEF FetchAged
  <2>2. PICK h \in aged : TRUE
    BY <2>1
  <2>3. Open
    BY <2>2 DEF MainInv, MetaInv, TypeOK
  <2> QED
    BY <1>2, <1>3, <2>2, <2>3 DEF FetchAged, InHand
<1>4. CASE FreeHashMap
  <2>1. mpc = "free" /\ Open /\ todo' = todo
    BY <1>4 DEF FreeHashMap, Open
  <2>2. PICK p \in todo : TRUE
    BY <2>1
  <2>3. ContextInv
    BY <1>1, <2>1 DEF QuietInv, Calm, Undisturbed, AllInv
  <2>4. p[1] \in aged /\ rule[p[1]] = p[2]
    BY <2>2, <2>3 DEF ContextInv
  <2>5. InHand(p[1])
    BY <1>2, <2>1, <2>4
  <2> QED
    BY <2>2, <2>3, <2>4, <2>5 DEF ContextInv, InHand
<1>5. ASSUME ~FetchAged, ~FreeHashMap
      PROVE  todo' \subseteq todo /\ (tableAlive => tableAlive')
  <2>1. CASE LaunchWorker \/ CloseEverything
    BY <2>1 DEF LaunchWorker, CloseEverything
  <2>2. CASE Main \/ SignalHandler
    <3>1. CASE LinkUp \/ LinkRetry \/ LinkTimeout
      BY <3>1 DEF LinkUp, LinkRetry, LinkTimeout
    <3>2. CASE CreateHashMap \/ RegisterAgedEvent \/ SignalHandler
      BY <3>2 DEF CreateHashMap, RegisterAgedEvent, SignalHandler
    <3> QED
      BY <1>5, <2>1, <2>2, <3>1, <3>2
      DEF Main, Try, StartEnvironment, CheckPorts, CheckLcores,
          CreateMempool, InitPort, SetupHairpinQueues, StartPort,
          CreateJumpFlow, CreateRssFlow, WaitLcores, CountKeys, ExitProcess
  <2>3. CASE Beside(Worker)
    BY <2>3
    DEF Beside, Worker, PacketStep, Receive, SkipPacket, LeaveLoop,
        LookupHit, LookupMiss, AddEntry, AddFailed, CountPacket,
        CreateRefused, CreateRule, StoreHandle
  <2>4. CASE Beside(DeleteTimeoutFlows)
    BY <1>5, <2>4
    DEF Beside, DeleteTimeoutFlows, CountAged, FetchFailed, LookupContext,
        DeleteKey, FreePosition, DestroyRule, DestroyFailed, FreeMeta
  <2>5. ASSUME NEW h \in Handles, Beside(Age(h))
        PROVE  todo' \subseteq todo /\ (tableAlive => tableAlive')
    BY <2>5 DEF Beside, Age
  <2>6. CASE UNCHANGED vars \/ OutOfMemory
    BY <2>6, OutOfMemoryFrame DEF vars
  <2> QED
    BY <2>2, <2>3, <2>4, <2>5, <2>6 DEF Next
<1> QED
    BY <1>1, <1>3, <1>4, <1>5 DEF TodoInv

V1Inv == /\ MetaInv /\ Launched /\ MainInv /\ BatchInv /\ QuietInv
         /\ TodoInv /\ FreedUseOnlyLate /\ BusyFlowOffloaded

\* All of it holds in every reachable state.
LEMMA QuietInvariant == Spec => []V1Inv
<1>1. Init => V1Inv
  <2>1. Init => Launched
    BY DEF Init, TableInit, Launched
  <2> QED
    BY <2>1, InitMeta, InitQuiet DEF V1Inv
<1>2. V1Inv /\ [Next]_vars => V1Inv'
    BY MetaStep, LaunchedStep, MainInvStep, BatchStep, QuietStep, FreedStep,
       TodoStep, BusyStep DEF V1Inv
<1> QED
    BY <1>1, <1>2, PTL DEF Spec

----------------------------------------------------------------------------
(* What follows.                                                           *)

\* rte_free without a reference count: a freed flow_meta is read or written
\* only after the worker had a packet in hand whose rule had aged.
THEOREM FreedUseNeedsLate == Spec => []FreedUseOnlyLate
<1>1. V1Inv => FreedUseOnlyLate
    BY DEF V1Inv
<1> QED
    BY <1>1, QuietInvariant, PTL

\* Every rule in the NIC can be destroyed by somebody who has its handle,
\* until a packet comes late or a call of the aging path fails.
THEOREM RulesKnown == Spec => []RuleKnown
<1>1. V1Inv => RuleKnown
  <2> SUFFICES ASSUME V1Inv, Undisturbed, NEW h \in Handles, Live(h)
               PROVE  \/ created = h /\ wkey = rule[h]
                      \/ dmeta # NULL /\ handle[dmeta] = h /\ dkey = rule[h]
                      \/ table[rule[h]] # NULL /\ handle[table[rule[h]]] = h
      BY DEF RuleKnown
  <2>1. AllInv
      BY DEF V1Inv, MainInv, QuietInv, Calm, Undisturbed
  <2>2. CASE h \in aged
    <3>1. InEntry(h) \/ InHand(h)
      BY <2>1, <2>2 DEF AllInv, RuleInv, AgedInv, Undisturbed
    <3>2. InHand(h) => dmeta # NULL
      BY Distinct DEF InHand, V1Inv, MetaInv, TypeOK
    <3> QED
      BY <3>1, <3>2 DEF InEntry, InHand
  <2>3. CASE h \notin aged
      BY <2>1, <2>3 DEF AllInv, RuleInv, FreshInv, InEntry
  <2> QED
      BY <2>2, <2>3
<1> QED
    BY <1>1, QuietInvariant, PTL

\* The test for equality with 5 misses no flow: one with five packets has a
\* rule, is getting one, or was refused it, until a packet comes late.
THEOREM BusyFlowsOffloaded == Spec => []BusyFlowOffloaded
<1>1. V1Inv => BusyFlowOffloaded
    BY DEF V1Inv
<1> QED
    BY <1>1, QuietInvariant, PTL

\* The table outlives the worker's use of it, and the lookups and removals of
\* the interrupt thread, which nobody stops.
THEOREM TableThere == Spec => []TableFound
<1>1. V1Inv => TableFound
  <2> SUFFICES ASSUME V1Inv PROVE TableFound
      OBVIOUS
  <2>1. wpc \notin {"off", "done"} => tableAlive
      BY DEF V1Inv, MainInv
  <2>2. dpc = "delete" => tableAlive
      BY Distinct
      DEF V1Inv, MainInv, MetaInv, TypeOK, DeleterInv, Deleting
  <2>3. dpc = "position" => tableAlive
      BY DEF V1Inv, MainInv
  <2>4. dpc = "lookup" /\ Undisturbed => tableAlive
      BY DEF V1Inv, BatchInv, TodoInv
  <2> QED
      BY <2>1, <2>2, <2>3, <2>4 DEF TableFound
<1> QED
    BY <1>1, QuietInvariant, PTL

\* The interrupt thread destroys rules that have aged and no others, until a
\* packet comes late or a call of the aging path fails.
THEOREM AgedRulesOnly == Spec => OnlyAgedDestroyed
<1> DEFINE A == \A h \in Handles :
                  Live(h) /\ rule'[h] = NULL /\ Undisturbed
                    => h \in aged \/ mpc = "exit"
<1>1. V1Inv /\ [Next]_vars => A
  <2> SUFFICES ASSUME V1Inv, [Next]_vars, Undisturbed, mpc # "exit",
                      NEW h \in Handles, Live(h), rule'[h] = NULL
               PROVE  h \in aged
      OBVIOUS
  <2> USE DEF flowVars, tableVars, workerVars, nicVars, agingVars, ghostVars,
              mainVars
  <2>1. AllInv
      BY DEF V1Inv, MainInv, QuietInv, Calm, Undisturbed
  <2>2. rule \in [Handles -> Keys \cup {NULL}] /\ rule' # rule
      BY DEF V1Inv, MetaInv, TypeOK, Live
  <2>3. CASE DestroyRule
    <3>1. dpc = "destroy" /\ h = handle[dmeta]
      BY <2>2, <2>3 DEF DestroyRule, Live
    <3>2. PICK g \in aged : rule[g] = dkey
      BY <2>1, <3>1 DEF AllInv, ContextInv
    <3>3. rule[h] = dkey /\ g \in Handles
      BY <2>1, <3>1, <3>2, Distinct
      DEF AllInv, ContextInv, V1Inv, MetaInv, TypeOK
    <3> QED
      BY <2>1, <3>2, <3>3 DEF AllInv, RuleInv, OneRule
  <2>4. ASSUME NEW g \in Handles, CreateRule(g) PROVE FALSE
    <3>1. wkey \in Keys
      BY <2>4 DEF CreateRule, V1Inv, MetaInv, WorkerInv
    <3> QED
      BY <2>2, <2>4, <3>1, Distinct DEF CreateRule, Live
  <2>5. ~(Main \/ SignalHandler)
      BY <2>2, MainFrame
      DEF V1Inv, MetaInv, LaunchWorker, CloseEverything
  <2>6. Beside(Worker) => \E g \in Handles : CreateRule(g)
      BY <2>2
      DEF Beside, Worker, PacketStep, Receive, SkipPacket, LeaveLoop,
          LookupHit, LookupMiss, AddEntry, AddFailed, CountPacket,
          CreateRefused, StoreHandle
  <2>7. Beside(DeleteTimeoutFlows) => DestroyRule
      BY <2>2
      DEF Beside, DeleteTimeoutFlows, CountAged, FetchAged, FetchFailed,
          LookupContext, DeleteKey, FreePosition, DestroyFailed, FreeMeta
  <2>8. /\ ~UNCHANGED vars /\ ~OutOfMemory
        /\ ~\E g \in Handles : Beside(Age(g))
      BY <2>2, OutOfMemoryFrame DEF vars, Beside, Age
  <2> QED
      BY <2>3, <2>4, <2>5, <2>6, <2>7, <2>8 DEF Next
<1>2. [][A]_vars => OnlyAgedDestroyed
    BY PTL DEF OnlyAgedDestroyed, A
<1> QED
    BY <1>1, <1>2, QuietInvariant, PTL DEF Spec
=============================================================================
