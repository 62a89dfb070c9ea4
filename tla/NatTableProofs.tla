--------------------------- MODULE NatTableProofs ---------------------------
(***************************************************************************)
(* Theorems about NatTable, for any clients, servers, workers, distribution*)
(* of tuples to workers, table and pool.                                   *)
(*                                                                         *)
(* What holds whatever happens to the ports (FlowInv) rests on a tuple     *)
(* being received by one worker only; what holds while ports are fresh     *)
(* (FreshInv) on the ports in the table being below the head of the pool.  *)
(***************************************************************************)
EXTENDS NatTable, TLAPS

\* A worker on the new-flow path handles a tuple of its own; before the first
\* insertion a client's tuple is not in the table, after it the tuple leaves
\* from the port the worker has in hand.
PathInv ==
    \A w \in Workers :
        /\ wpc[w] # "idle" => Queue[wtuple[w]] = w
        /\ wpc[w] \in {"dequeue", "take", "add"} /\ wtuple[w] \in Outbound =>
             wtuple[w] \notin DOMAIN table
        /\ wpc[w] = "addReverse" /\ wtuple[w] \in Outbound =>
             /\ wtuple[w] \in DOMAIN table
             /\ table[wtuple[w]] = <<wport[w], wtuple[w][2]>>

FlowInv == TypeOK /\ PathInv /\ ReplyBelongsToFlow

\* Without a race one worker at most is on the path, and takes the head.
AloneInv ==
    ~raced =>
        /\ \A v, w \in Workers : wpc[v] # "idle" /\ wpc[w] # "idle" => v = w
        /\ \A w \in Workers : wpc[w] = "take" => wport[w] = head

\* While ports are fresh, the ports in the table have left the pool, and the
\* one in hand is not among them.
FreshInv ==
    PortsFresh =>
        /\ \A w \in Workers :
             wpc[w] = "add" => wport[w] = head - 1 /\ wport[w] # 0
        /\ \A t \in Outbound \cap DOMAIN table :
             /\ PortOf(t) # 0 /\ PortOf(t) < head
             /\ \A w \in Workers : wpc[w] = "add" => PortOf(t) # wport[w]

\* A server's tuple that is being added was not in the table, so adding it
\* replaces no answer.
AnswerInv ==
    PortsFresh =>
        \A w \in Workers :
            wpc[w] \in {"dequeue", "take", "add"} =>
                wtuple[w] \notin DOMAIN table

NatInv ==
    FlowInv /\ AloneInv /\ FreshInv /\ AnswerInv /\ DistinctPorts /\ RoundTrip

----------------------------------------------------------------------------
(* Tuples and entries.                                                     *)

\* The kinds of tuples differ.
LEMMA Kinds ==
    /\ \A t \in Outbound : t[1] \in Clients /\ t[2] \in Servers
                           /\ t = <<t[1], t[2]>>
    /\ \A t \in Inbound : t[1] \in Servers /\ t[2] \in Ports
                          /\ t = <<t[1], t[2]>>
    /\ \A t \in Ports \X Ports : t \notin Outbound /\ t \notin Inbound
    /\ \A t \in Inbound : t \notin Outbound
    /\ NULL \notin Tuples
BY EndpointAssumption DEF Outbound, Inbound

\* The key of the second insertion is never a client's tuple.
LEMMA ReverseKind ==
    ASSUME NEW w \in Workers, wtuple[w] \in Tuples, wport[w] \in Ports
    PROVE  /\ wtuple[w] \in Outbound => ReverseOf(w) \in Inbound
           /\ wtuple[w] \notin Outbound => ReverseOf(w) \in Ports \X Ports
           /\ ReverseOf(w) \notin Outbound
           /\ ReverseOf(w)[1] = wtuple[w][2] /\ ReverseOf(w)[2] = wport[w]
<1>1. CASE wtuple[w] \in Outbound
    BY <1>1, Kinds DEF ReverseOf, Inbound
<1>2. CASE wtuple[w] \in Inbound /\ wtuple[w] \notin Outbound
    BY <1>2, Kinds DEF ReverseOf
<1> QED
    BY <1>1, <1>2 DEF Tuples

\* An insertion changes the entry of its key and no other.
LEMMA AddedEntries ==
    ASSUME NEW t, NEW x, table' = Added(t, x)
    PROVE  /\ DOMAIN table' = DOMAIN table \cup {t}
           /\ table'[t] = x
           /\ \A u \in DOMAIN table : u # t => table'[u] = table[u]
BY DEF Added

\* The first insertion.
LEMMA KeyAdded ==
    ASSUME NEW w \in Workers, AddKey(w)
    PROVE  /\ DOMAIN table' = DOMAIN table \cup {wtuple[w]}
           /\ table'[wtuple[w]] = <<wport[w], wtuple[w][2]>>
           /\ \A u \in DOMAIN table : u # wtuple[w] => table'[u] = table[u]
BY AddedEntries DEF AddKey

\* The second insertion.
LEMMA ReverseAdded ==
    ASSUME NEW w \in Workers, AddReverse(w)
    PROVE  /\ DOMAIN table' = DOMAIN table \cup {ReverseOf(w)}
           /\ table'[ReverseOf(w)] = <<wtuple[w][2], wtuple[w][1]>>
           /\ \A u \in DOMAIN table : u # ReverseOf(w) => table'[u] = table[u]
BY AddedEntries DEF AddReverse

\* A value of the pool is a port once it is cast.
LEMMA CastIsPort ==
    /\ \A n \in Nat : n % PortModulus \in Ports
    /\ \A n \in Nat : n < PortModulus => n % PortModulus = n
    /\ 0 \in Ports
BY SizeAssumption DEF Ports

----------------------------------------------------------------------------
(* Whatever happens to the ports.                                          *)

\* The initial states satisfy the invariant.
LEMMA InitNat == Init => NatInv
<1> SUFFICES ASSUME Init PROVE NatInv
    OBVIOUS
<1>1. DOMAIN table = {} /\ \A w \in Workers : wpc[w] = "idle"
    BY DEF Init
<1>2. TypeOK
  <2>1. head \in 1..(PoolSize + 1)
    BY SizeAssumption DEF Init
  <2>2. /\ wpc \in [Workers -> {"idle", "dequeue", "take", "add",
                                "addReverse"}]
        /\ wtuple \in [Workers -> Tuples \cup {NULL}]
        /\ wport \in [Workers -> Nat]
        /\ dry \in BOOLEAN /\ raced \in BOOLEAN /\ half \subseteq Tuples
    BY DEF Init
  <2> QED
    BY <1>1, <2>1, <2>2 DEF TypeOK
<1>3. PathInv /\ ReplyBelongsToFlow /\ AloneInv /\ FreshInv /\ AnswerInv
    BY <1>1 DEF PathInv, ReplyBelongsToFlow, AloneInv, FreshInv, AnswerInv
<1>4. DistinctPorts /\ RoundTrip
    BY <1>1 DEF DistinctPorts, RoundTrip, Whole
<1> QED
    BY <1>2, <1>3, <1>4 DEF NatInv, FlowInv

\* Every step keeps the types.
LEMMA TypeStep ==
    ASSUME TypeOK, PathInv, [Next]_vars
    PROVE  TypeOK'
<1>1. ASSUME NEW w \in Workers, NEW t \in Tuples, Miss(w, t) PROVE TypeOK'
    BY <1>1 DEF Miss, TypeOK
<1>2. ASSUME NEW w \in Workers, ReadHead(w) PROVE TypeOK'
  <2>1. CASE head <= PoolSize
    <3>1. head \in 1..PoolSize /\ head \in Nat
      BY <2>1, SizeAssumption DEF TypeOK
    <3> QED
      BY <1>2, <2>1, <3>1 DEF ReadHead, TypeOK
  <2>2. CASE ~(head <= PoolSize)
    BY <1>2, <2>2, CastIsPort DEF ReadHead, TypeOK
  <2> QED
    BY <2>1, <2>2
<1>3. ASSUME NEW w \in Workers, TakePort(w) PROVE TypeOK'
  <2>1. wport[w] \in 1..PoolSize /\ wport[w] % PortModulus \in Ports
    BY <1>3, CastIsPort, SizeAssumption DEF TakePort, TypeOK
  <2>2. Ports \subseteq Nat
    BY SizeAssumption DEF Ports
  <2> QED
    BY <1>3, <2>1, <2>2, SizeAssumption DEF TakePort, TypeOK
<1>4. ASSUME NEW w \in Workers, AddKey(w) PROVE TypeOK'
  <2>1. wtuple[w] \in Tuples /\ wport[w] \in Ports
    BY <1>4 DEF AddKey, TypeOK
  <2>2. /\ DOMAIN table' = DOMAIN table \cup {wtuple[w]}
        /\ table'[wtuple[w]] = <<wport[w], wtuple[w][2]>>
        /\ \A u \in DOMAIN table : u # wtuple[w] => table'[u] = table[u]
    BY <1>4, KeyAdded
  <2>3. \A t \in Outbound \cap DOMAIN table' :
            table'[t] \in Ports \X Servers /\ table'[t][2] = t[2]
    BY <2>1, <2>2, Kinds DEF TypeOK
  <2>4. DOMAIN table' \subseteq Tuples \cup (Ports \X Ports)
    BY <2>1, <2>2 DEF TypeOK
  <2> QED
    BY <1>4, <2>1, <2>3, <2>4 DEF AddKey, TypeOK
<1>5. ASSUME NEW w \in Workers, AddKeyFailed(w) PROVE TypeOK'
    BY <1>5, SizeAssumption DEF AddKeyFailed, Finish, TypeOK
<1>6. ASSUME NEW w \in Workers, AddReverse(w) PROVE TypeOK'
  <2>1. wtuple[w] \in Tuples /\ wport[w] \in Ports
    BY <1>6 DEF AddReverse, TypeOK
  <2>2. /\ DOMAIN table' = DOMAIN table \cup {ReverseOf(w)}
        /\ \A u \in DOMAIN table : u # ReverseOf(w) => table'[u] = table[u]
    BY <1>6, ReverseAdded
  <2>3. /\ ReverseOf(w) \notin Outbound
        /\ ReverseOf(w) \in Tuples \cup (Ports \X Ports)
    BY <2>1, ReverseKind DEF Tuples
  <2>4. DOMAIN table' \subseteq Tuples \cup (Ports \X Ports)
    BY <2>2, <2>3 DEF TypeOK
  <2>5. \A t \in Outbound \cap DOMAIN table' :
            table'[t] \in Ports \X Servers /\ table'[t][2] = t[2]
    BY <2>2, <2>3 DEF TypeOK
  <2> QED
    BY <1>6, <2>4, <2>5, SizeAssumption DEF AddReverse, Finish, TypeOK
<1>7. ASSUME NEW w \in Workers, AddReverseFailed(w) PROVE TypeOK'
    BY <1>7, SizeAssumption DEF AddReverseFailed, Finish, TypeOK
<1>8. CASE UNCHANGED vars
    BY <1>8 DEF vars, TypeOK
<1> QED
    BY <1>1, <1>2, <1>3, <1>4, <1>5, <1>6, <1>7, <1>8 DEF Next

\* A step that touches the table adds one entry; a client's tuple that is in
\* it keeps its own.
LEMMA StableStep ==
    ASSUME TypeOK, PathInv, [Next]_vars
    PROVE  \A t \in Outbound \cap DOMAIN table :
               t \in DOMAIN table' /\ table'[t] = table[t]
<1>1. ASSUME NEW w \in Workers, AddKey(w)
      PROVE  \A t \in Outbound \cap DOMAIN table :
                 t \in DOMAIN table' /\ table'[t] = table[t]
  <2>1. /\ DOMAIN table' = DOMAIN table \cup {wtuple[w]}
        /\ \A u \in DOMAIN table : u # wtuple[w] => table'[u] = table[u]
    BY <1>1, KeyAdded
  <2>2. \A t \in Outbound \cap DOMAIN table : t # wtuple[w]
    BY <1>1 DEF AddKey, PathInv
  <2> QED
    BY <2>1, <2>2
<1>2. ASSUME NEW w \in Workers, AddReverse(w)
      PROVE  \A t \in Outbound \cap DOMAIN table :
                 t \in DOMAIN table' /\ table'[t] = table[t]
  <2>1. ReverseOf(w) \notin Outbound
    BY <1>2, ReverseKind DEF AddReverse, TypeOK
  <2> QED
    BY <1>2, <2>1, ReverseAdded
<1>3. CASE UNCHANGED table
    BY <1>3
<1> QED
    BY <1>1, <1>2, <1>3
    DEF Next, Miss, ReadHead, TakePort, AddKeyFailed, AddReverseFailed, vars

\* Every step keeps what a worker on the path may rely on.
LEMMA PathStep ==
    ASSUME TypeOK, PathInv, [Next]_vars
    PROVE  PathInv'
<1> USE DEF TypeOK, PathInv
<1>1. ASSUME NEW w \in Workers, NEW t \in Tuples, Miss(w, t)
      PROVE  PathInv'
    BY <1>1 DEF Miss
<1>2. ASSUME NEW w \in Workers, ReadHead(w) PROVE PathInv'
    BY <1>2 DEF ReadHead
<1>3. ASSUME NEW w \in Workers, TakePort(w) PROVE PathInv'
    BY <1>3 DEF TakePort
<1>4. ASSUME NEW w \in Workers, AddKey(w) PROVE PathInv'
  <2>1. /\ DOMAIN table' = DOMAIN table \cup {wtuple[w]}
        /\ table'[wtuple[w]] = <<wport[w], wtuple[w][2]>>
        /\ \A u \in DOMAIN table : u # wtuple[w] => table'[u] = table[u]
    BY <1>4, KeyAdded
  <2>2. \A v \in Workers : v # w /\ wpc[v] # "idle" => wtuple[v] # wtuple[w]
    BY <1>4 DEF AddKey
  <2> QED
    BY <1>4, <2>1, <2>2 DEF AddKey
<1>5. ASSUME NEW w \in Workers, AddKeyFailed(w) PROVE PathInv'
    BY <1>5 DEF AddKeyFailed, Finish
<1>6. ASSUME NEW w \in Workers, AddReverse(w) PROVE PathInv'
  <2>1. /\ DOMAIN table' = DOMAIN table \cup {ReverseOf(w)}
        /\ \A u \in DOMAIN table : u # ReverseOf(w) => table'[u] = table[u]
    BY <1>6, ReverseAdded
  <2>2. ReverseOf(w) \notin Outbound
    BY <1>6, ReverseKind DEF AddReverse
  <2> QED
    BY <1>6, <2>1, <2>2 DEF AddReverse, Finish
<1>7. ASSUME NEW w \in Workers, AddReverseFailed(w) PROVE PathInv'
    BY <1>7 DEF AddReverseFailed, Finish
<1>8. CASE UNCHANGED vars
    BY <1>8 DEF vars
<1> QED
    BY <1>1, <1>2, <1>3, <1>4, <1>5, <1>6, <1>7, <1>8 DEF Next

\* Every step keeps the answers where they belong.
LEMMA ReplyStep ==
    ASSUME TypeOK, PathInv, ReplyBelongsToFlow, [Next]_vars
    PROVE  ReplyBelongsToFlow'
<1>1. SUFFICES ASSUME NEW d \in Servers, NEW p \in Ports, NEW s \in Clients,
                      <<d, p>> \in DOMAIN table', table'[<<d, p>>] = <<d, s>>
               PROVE  /\ <<s, d>> \in DOMAIN table'
                      /\ table'[<<s, d>>] = <<p, d>>
    BY DEF ReplyBelongsToFlow
<1>2. <<s, d>> \in Outbound /\ <<d, p>> \in Inbound
    BY DEF Outbound, Inbound
<1>3. CASE <<d, p>> \in DOMAIN table /\ table[<<d, p>>] = <<d, s>>
    BY <1>2, <1>3, StableStep DEF ReplyBelongsToFlow
<1>4. ASSUME NEW w \in Workers, AddKey(w)
      PROVE  <<d, p>> \in DOMAIN table /\ table[<<d, p>>] = <<d, s>>
  <2>1. /\ DOMAIN table' = DOMAIN table \cup {wtuple[w]}
        /\ table'[wtuple[w]] = <<wport[w], wtuple[w][2]>>
        /\ \A u \in DOMAIN table : u # wtuple[w] => table'[u] = table[u]
    BY <1>4, KeyAdded
  <2>2. wport[w] \in Ports
    BY <1>4 DEF AddKey, TypeOK
  <2>3. <<d, p>> # wtuple[w]
    BY <1>1, <2>1, <2>2, EndpointAssumption
  <2> QED
    BY <1>1, <2>1, <2>3
<1>5. ASSUME NEW w \in Workers, AddReverse(w),
             ~(<<d, p>> \in DOMAIN table /\ table[<<d, p>>] = <<d, s>>)
      PROVE  <<s, d>> \in DOMAIN table /\ table[<<s, d>>] = <<p, d>>
  <2>1. /\ DOMAIN table' = DOMAIN table \cup {ReverseOf(w)}
        /\ table'[ReverseOf(w)] = <<wtuple[w][2], wtuple[w][1]>>
        /\ \A u \in DOMAIN table : u # ReverseOf(w) => table'[u] = table[u]
    BY <1>5, ReverseAdded
  <2>2. <<d, p>> = ReverseOf(w)
    BY <1>1, <1>5, <2>1
  <2>3. wtuple[w][2] = d /\ wtuple[w][1] = s /\ wport[w] = p
    BY <1>1, <2>1, <2>2 DEF ReverseOf
  <2>4. wtuple[w] \in Tuples /\ wport[w] \in Ports
    BY <1>5 DEF AddReverse, TypeOK
  <2>5. wtuple[w] \in Outbound
    BY <1>2, <2>2, <2>4, ReverseKind, Kinds
  <2>6. wtuple[w] = <<s, d>>
    BY <2>3, <2>5, Kinds
  <2> QED
    BY <1>5, <2>3, <2>5, <2>6 DEF AddReverse, PathInv
<1>6. CASE UNCHANGED table
    BY <1>1, <1>3, <1>6
<1> QED
    BY <1>2, <1>3, <1>4, <1>5, <1>6, StableStep
    DEF Next, Miss, ReadHead, TakePort, AddKeyFailed, AddReverseFailed, vars

----------------------------------------------------------------------------
(* While ports are fresh.                                                  *)

\* Every step that is no race keeps the path to one worker.
LEMMA AloneStep ==
    ASSUME TypeOK, AloneInv, [Next]_vars
    PROVE  AloneInv'
<1> USE DEF TypeOK, AloneInv
<1>1. ASSUME NEW w \in Workers, NEW t \in Tuples, Miss(w, t)
      PROVE  AloneInv'
    BY <1>1 DEF Miss
<1>2. ASSUME NEW w \in Workers, ReadHead(w) PROVE AloneInv'
    BY <1>2 DEF ReadHead
<1>3. ASSUME NEW w \in Workers, TakePort(w) PROVE AloneInv'
    BY <1>3 DEF TakePort
<1>4. ASSUME NEW w \in Workers, AddKey(w) PROVE AloneInv'
    BY <1>4 DEF AddKey
<1>5. ASSUME NEW w \in Workers, AddKeyFailed(w) PROVE AloneInv'
    BY <1>5 DEF AddKeyFailed, Finish
<1>6. ASSUME NEW w \in Workers, AddReverse(w) PROVE AloneInv'
    BY <1>6 DEF AddReverse, Finish
<1>7. ASSUME NEW w \in Workers, AddReverseFailed(w) PROVE AloneInv'
    BY <1>7 DEF AddReverseFailed, Finish
<1>8. CASE UNCHANGED vars
    BY <1>8 DEF vars
<1> QED
    BY <1>1, <1>2, <1>3, <1>4, <1>5, <1>6, <1>7, <1>8 DEF Next

\* Ports that are fresh after a step were fresh before it.
LEMMA FreshBefore ==
    ASSUME TypeOK, AloneInv, [Next]_vars, PortsFresh'
    PROVE  PortsFresh
<1>1. ASSUME NEW w \in Workers, TakePort(w) PROVE PortsFresh
  <2>1. ~raced /\ ~dry /\ wport[w] = head /\ head' = head + 1
    BY <1>1 DEF TakePort, PortsFresh, AloneInv
  <2> QED
    BY <2>1, SizeAssumption DEF PortsFresh, TypeOK
<1>2. ASSUME NEW w \in Workers, NEW t \in Tuples, Miss(w, t)
      PROVE  PortsFresh
    BY <1>2 DEF Miss, PortsFresh
<1>3. ASSUME NEW w \in Workers, ReadHead(w) PROVE PortsFresh
    BY <1>3 DEF ReadHead, PortsFresh
<1>4. CASE UNCHANGED <<head, dry, raced>>
    BY <1>4 DEF PortsFresh
<1> QED
    BY <1>1, <1>2, <1>3, <1>4
    DEF Next, AddKey, AddKeyFailed, AddReverse, AddReverseFailed, vars

\* Every step keeps the port in hand out of the table.
LEMMA FreshStep ==
    ASSUME TypeOK, PathInv, AloneInv, FreshInv, [Next]_vars
    PROVE  FreshInv'
<1> SUFFICES ASSUME PortsFresh' PROVE FreshInv'
    BY DEF FreshInv
<1>0. PortsFresh /\ ~raced
    BY FreshBefore DEF PortsFresh
<1> USE <1>0 DEF TypeOK, AloneInv, FreshInv, PortOf
<1>1. ASSUME NEW w \in Workers, NEW t \in Tuples, Miss(w, t)
      PROVE  FreshInv'
    BY <1>1 DEF Miss
<1>2. ASSUME NEW w \in Workers, ReadHead(w) PROVE FreshInv'
    BY <1>2 DEF ReadHead, PortsFresh
<1>3. ASSUME NEW w \in Workers, TakePort(w) PROVE FreshInv'
  <2>1. wport[w] = head /\ head' = head + 1 /\ head \in Nat \ {0}
    BY <1>3, SizeAssumption DEF TakePort
  <2>2. head < PortModulus
    BY <2>1, SizeAssumption DEF PortsFresh
  <2>3. wport'[w] = head
    BY <1>3, <2>1, <2>2, CastIsPort DEF TakePort
  <2>4. \A v \in Workers : wpc'[v] = "add" => v = w
    BY <1>3 DEF TakePort
  <2>5. \A t \in Outbound \cap DOMAIN table :
            /\ table[t][1] # 0 /\ table[t][1] < head
            /\ table[t][1] \in Nat
    BY SizeAssumption DEF Ports
  <2> QED
    BY <1>3, <2>1, <2>3, <2>4, <2>5 DEF TakePort
<1>4. ASSUME NEW w \in Workers, AddKey(w) PROVE FreshInv'
  <2>1. /\ DOMAIN table' = DOMAIN table \cup {wtuple[w]}
        /\ table'[wtuple[w]] = <<wport[w], wtuple[w][2]>>
        /\ \A u \in DOMAIN table : u # wtuple[w] => table'[u] = table[u]
    BY <1>4, KeyAdded
  <2>2. \A v \in Workers : wpc'[v] # "add"
    BY <1>4 DEF AddKey
  <2>3. wport[w] # 0 /\ wport[w] < head
    BY <1>4, SizeAssumption DEF AddKey
  <2> QED
    BY <1>4, <2>1, <2>2, <2>3 DEF AddKey
<1>5. ASSUME NEW w \in Workers, AddKeyFailed(w) PROVE FreshInv'
    BY <1>5 DEF AddKeyFailed, Finish
<1>6. ASSUME NEW w \in Workers, AddReverse(w) PROVE FreshInv'
  <2>1. /\ DOMAIN table' = DOMAIN table \cup {ReverseOf(w)}
        /\ \A u \in DOMAIN table : u # ReverseOf(w) => table'[u] = table[u]
    BY <1>6, ReverseAdded
  <2>2. ReverseOf(w) \notin Outbound
    BY <1>6, ReverseKind DEF AddReverse
  <2> QED
    BY <1>6, <2>1, <2>2 DEF AddReverse, Finish
<1>7. ASSUME NEW w \in Workers, AddReverseFailed(w) PROVE FreshInv'
    BY <1>7 DEF AddReverseFailed, Finish
<1>8. CASE UNCHANGED vars
    BY <1>8 DEF vars
<1> QED
    BY <1>1, <1>2, <1>3, <1>4, <1>5, <1>6, <1>7, <1>8 DEF Next

\* Every step keeps the tuple that is being added out of the table.
LEMMA AnswerStep ==
    ASSUME TypeOK, AloneInv, AnswerInv, [Next]_vars
    PROVE  AnswerInv'
<1> SUFFICES ASSUME PortsFresh' PROVE AnswerInv'
    BY DEF AnswerInv
<1>0. PortsFresh /\ ~raced
    BY FreshBefore DEF PortsFresh
<1> USE <1>0 DEF TypeOK, AloneInv, AnswerInv
<1>1. ASSUME NEW w \in Workers, NEW t \in Tuples, Miss(w, t)
      PROVE  AnswerInv'
    BY <1>1 DEF Miss
<1>2. ASSUME NEW w \in Workers, ReadHead(w) PROVE AnswerInv'
    BY <1>2 DEF ReadHead
<1>3. ASSUME NEW w \in Workers, TakePort(w) PROVE AnswerInv'
    BY <1>3 DEF TakePort
<1>4. ASSUME NEW w \in Workers, AddKey(w) PROVE AnswerInv'
    BY <1>4 DEF AddKey
<1>5. ASSUME NEW w \in Workers, AddKeyFailed(w) PROVE AnswerInv'
    BY <1>5 DEF AddKeyFailed, Finish
<1>6. ASSUME NEW w \in Workers, AddReverse(w) PROVE AnswerInv'
    BY <1>6 DEF AddReverse, Finish
<1>7. ASSUME NEW w \in Workers, AddReverseFailed(w) PROVE AnswerInv'
    BY <1>7 DEF AddReverseFailed, Finish
<1>8. CASE UNCHANGED vars
    BY <1>8 DEF vars
<1> QED
    BY <1>1, <1>2, <1>3, <1>4, <1>5, <1>6, <1>7, <1>8 DEF Next

\* Every step keeps the ports of the table apart.
LEMMA DistinctStep ==
    ASSUME TypeOK, PathInv, AloneInv, FreshInv, DistinctPorts, [Next]_vars
    PROVE  DistinctPorts'
<1> SUFFICES ASSUME PortsFresh' PROVE DistinctPorts'
    BY DEF DistinctPorts
<1>0. PortsFresh
    BY FreshBefore
<1>1. ASSUME NEW w \in Workers, AddKey(w) PROVE DistinctPorts'
  <2>1. \A t \in Outbound \cap DOMAIN table :
            t # wtuple[w] => table'[t] = table[t]
    BY <1>1, KeyAdded
  <2>2. /\ DOMAIN table' = DOMAIN table \cup {wtuple[w]}
        /\ table'[wtuple[w]] = <<wport[w], wtuple[w][2]>>
    BY <1>1, KeyAdded
  <2>3. \A t \in Outbound \cap DOMAIN table : table[t][1] # wport[w]
    BY <1>0, <1>1 DEF AddKey, FreshInv, PortOf
  <2>4. wport[w] # 0
    BY <1>0, <1>1 DEF AddKey, FreshInv
  <2> QED
    BY <1>0, <2>1, <2>2, <2>3, <2>4 DEF DistinctPorts, PortOf
<1>2. ASSUME NEW w \in Workers, AddReverse(w) PROVE DistinctPorts'
  <2>1. ReverseOf(w) \notin Outbound
    BY <1>2, ReverseKind DEF AddReverse, TypeOK
  <2>2. /\ DOMAIN table' = DOMAIN table \cup {ReverseOf(w)}
        /\ \A u \in DOMAIN table : u # ReverseOf(w) => table'[u] = table[u]
    BY <1>2, ReverseAdded
  <2> QED
    BY <1>0, <2>1, <2>2 DEF DistinctPorts, PortOf
<1>3. CASE UNCHANGED table
    BY <1>0, <1>3 DEF DistinctPorts, PortOf
<1> QED
    BY <1>1, <1>2, <1>3
    DEF Next, Miss, ReadHead, TakePort, AddKeyFailed, AddReverseFailed, vars

\* A flow has its answer in the table.
Answered(t) ==
    /\ <<t[2], PortOf(t)>> \in DOMAIN table
    /\ table[<<t[2], PortOf(t)>>] = <<t[2], t[1]>>

\* Every step keeps the answers of the flows that have both entries.
LEMMA RoundTripStep ==
    ASSUME TypeOK, PathInv, AloneInv, FreshInv, AnswerInv, DistinctPorts,
           RoundTrip, [Next]_vars
    PROVE  RoundTrip'
<1>1. SUFFICES ASSUME PortsFresh', NEW t \in Whole' PROVE Answered(t)'
    BY DEF RoundTrip, Answered
<1>2. PortsFresh
    BY <1>1, FreshBefore
<1>3. t \in Outbound /\ t \in DOMAIN table' /\ t \notin half'
    BY <1>1 DEF Whole
<1>4. ASSUME t \in Whole PROVE Answered(t)
    BY <1>2, <1>4 DEF RoundTrip, Answered
<1>5. t \in DOMAIN table => PortOf(t)' = PortOf(t)
    BY <1>3, StableStep DEF PortOf
<1>6. ASSUME UNCHANGED table, t \in Whole PROVE Answered(t)'
    BY <1>4, <1>6 DEF Answered, PortOf
<1>7. ASSUME NEW w \in Workers, AddKey(w) PROVE Answered(t)'
  <2>1. t # wtuple[w]
    BY <1>1, <1>7 DEF AddKey, Whole, TypeOK
  <2>2. t \in DOMAIN table
    BY <1>3, <1>7, <2>1, KeyAdded
  <2>3. t \in Whole
    BY <1>1, <1>3, <1>7, <2>1, <2>2 DEF AddKey, Whole, TypeOK
  <2>4. <<t[2], PortOf(t)>> # wtuple[w]
    BY <1>2, <1>4, <1>7, <2>3 DEF AddKey, AnswerInv, Answered
  <2> QED
    BY <1>4, <1>5, <1>7, <2>2, <2>3, <2>4, KeyAdded DEF Answered
<1>8. ASSUME NEW w \in Workers, AddReverse(w) PROVE Answered(t)'
  <2>1. /\ wtuple[w] \in Tuples /\ wport[w] \in Ports
        /\ ReverseOf(w) \notin Outbound
    BY <1>8, ReverseKind DEF AddReverse, TypeOK
  <2>2. t \in DOMAIN table
    <3>1. DOMAIN table' = DOMAIN table \cup {ReverseOf(w)}
      BY <1>8, ReverseAdded
    <3> QED
      BY <1>3, <2>1, <3>1
  <2>3. CASE t = wtuple[w]
    <3>1. PortOf(t) = wport[w]
      BY <1>3, <1>8, <2>3 DEF AddReverse, PathInv, PortOf
    <3>2. ReverseOf(w) = <<t[2], PortOf(t)>>
      BY <2>3, <3>1 DEF ReverseOf
    <3> QED
      BY <1>5, <1>8, <2>2, <2>3, <3>2, ReverseAdded DEF Answered
  <2>4. CASE t # wtuple[w]
    <3>1. t \in Whole
      BY <1>1, <1>3, <1>8, <2>2, <2>4 DEF AddReverse, Finish, Whole, TypeOK
    <3>2. <<t[2], PortOf(t)>> # ReverseOf(w)
      <4>1. CASE wtuple[w] \in Outbound
        <5>1. /\ wtuple[w] \in DOMAIN table
              /\ PortOf(wtuple[w]) = wport[w]
          BY <1>8, <4>1 DEF AddReverse, PathInv, PortOf
        <5> QED
          BY <1>2, <1>3, <2>2, <2>4, <4>1, <5>1
          DEF DistinctPorts, ReverseOf
      <4>2. CASE wtuple[w] \notin Outbound
        <5>1. <<t[2], PortOf(t)>> \in Inbound
          BY <1>3, <2>2, Kinds DEF TypeOK, PortOf, Inbound
        <5> QED
          BY <2>1, <4>2, <5>1, ReverseKind, Kinds
      <4> QED
        BY <4>1, <4>2
    <3> QED
      BY <1>4, <1>5, <1>8, <2>2, <3>1, <3>2, ReverseAdded DEF Answered
  <2> QED
    BY <2>3, <2>4
<1>9. ASSUME NEW w \in Workers, AddReverseFailed(w) PROVE Answered(t)'
  <2>1. t # wtuple[w]
    BY <1>3, <1>9 DEF AddReverseFailed
  <2>2. t \in Whole
    BY <1>1, <1>3, <1>9, <2>1
    DEF AddReverseFailed, Finish, Whole, TypeOK
  <2> QED
    BY <1>6, <1>9, <2>2 DEF AddReverseFailed
<1>10. ASSUME NEW w \in Workers, NEW u \in Tuples, Miss(w, u)
       PROVE  Answered(t)'
  <2>1. t \in Whole
    BY <1>1, <1>3, <1>10 DEF Miss, Whole, TypeOK
  <2> QED
    BY <1>6, <1>10, <2>1 DEF Miss
<1>11. ASSUME NEW w \in Workers,
              ReadHead(w) \/ TakePort(w) \/ AddKeyFailed(w)
       PROVE  Answered(t)'
  <2>1. UNCHANGED <<table, half>>
    BY <1>11 DEF ReadHead, TakePort, AddKeyFailed
  <2>2. t \in Whole
    BY <1>1, <1>3, <1>11, <2>1
    DEF ReadHead, TakePort, AddKeyFailed, Finish, Whole, TypeOK
  <2> QED
    BY <1>6, <2>1, <2>2
<1>12. CASE UNCHANGED vars
  <2>1. t \in Whole
    BY <1>1, <1>12 DEF vars, Whole
  <2> QED
    BY <1>6, <1>12, <2>1 DEF vars
<1> QED
    BY <1>7, <1>8, <1>9, <1>10, <1>11, <1>12 DEF Next

----------------------------------------------------------------------------
(* What follows.                                                           *)

\* The invariant holds in every reachable state.
LEMMA NatInvariant == Spec => []NatInv
<1>1. NatInv /\ [Next]_vars => NatInv'
    BY TypeStep, PathStep, ReplyStep, AloneStep, FreshStep, AnswerStep,
       DistinctStep, RoundTripStep
    DEF NatInv, FlowInv
<1> QED
    BY InitNat, <1>1, PTL DEF Spec

\* Type correctness of the table, the pool and the workers.
THEOREM NatTyping == Spec => []TypeOK
BY NatInvariant, PTL DEF NatInv, FlowInv

\* Whatever the workers do to each other's ports, a server's packet is handed
\* to a client only if that client's packets leave from that port to it.
THEOREM RepliesDelivered == Spec => []ReplyBelongsToFlow
BY NatInvariant, PTL DEF NatInv, FlowInv

\* While no two workers race, the pool lasts and its values fit into 16 bits,
\* no two flows share a port, and no flow has port 0.
THEOREM FreshPortsDistinct == Spec => []DistinctPorts
BY NatInvariant, PTL DEF NatInv

\* Under the same conditions the answer to each flow leads back to its client.
THEOREM FreshPortsTranslate == Spec => []RoundTrip
BY NatInvariant, PTL DEF NatInv

\* The packets of a client's flow all leave from the same port.
THEOREM TranslationStable == Spec => StableTranslation
<1>1. NatInv /\ [Next]_vars =>
        [\A t \in Outbound \cap DOMAIN table :
            t \in DOMAIN table' /\ table'[t] = table[t]]_vars
    BY StableStep DEF NatInv, FlowInv
<1> QED
    BY NatInvariant, <1>1, PTL DEF Spec, StableTranslation
=============================================================================
