------------------------------ MODULE NatTable ------------------------------
(***************************************************************************)
(* The new-flow path of packet_processing (src/src/smto_worker.c): source  *)
(* address translation with ports from port_pool.                          *)
(*                                                                         *)
(* A tuple <<a, b>> goes from endpoint a to endpoint b.  An endpoint is a  *)
(* client, a server, or a port of the public address SRC_IP.  The table    *)
(* maps the tuple of a received packet to the tuple the packet leaves      *)
(* with (modify_tuple).  A packet whose tuple is in the table changes      *)
(* nothing here, so only the misses are actions.                           *)
(*                                                                         *)
(* port_pool holds 1 .. PoolSize in this order and is never refilled, so   *)
(* its state is the position of its head.  Entries are never removed from  *)
(* the table either.                                                       *)
(***************************************************************************)
EXTENDS Naturals, FiniteSets

CONSTANTS
    Clients,       \* private endpoints
    Servers,       \* endpoints clients talk to
    Workers,       \* packet processing lcores
    Queue,         \* the worker that receives a tuple (RSS, port)
    TableSize,     \* MAX_HASH_ENTRIES
    PoolSize,      \* MAX_HASH_ENTRIES - 1, the values put into port_pool
    PortModulus,   \* 2^16: the values of a uint16_t
    NULL

Ports == 0..(PortModulus - 1)

\* What clients send, and what servers send to the public address.
Outbound == Clients \X Servers
Inbound  == Servers \X Ports
Tuples   == Outbound \cup Inbound

ASSUME SizeAssumption ==
    /\ TableSize \in Nat
    /\ PoolSize \in Nat
    /\ PortModulus \in Nat \ {0}

ASSUME EndpointAssumption ==
    /\ Clients \cap Servers = {}
    /\ Clients \cap Ports = {}
    /\ Servers \cap Ports = {}
    /\ NULL \notin Tuples

ASSUME WorkerAssumption == Queue \in [Tuples -> Workers]

VARIABLES
    table,    \* flow_hash_map: received tuple -> tuple it leaves with
    head,     \* port_pool: the next value
    wpc,      \* each worker: program counter
    wtuple,   \* ... the tuple of the new flow
    wport,    \* ... the pool value it read, then the port (0: none in hand)
    dry,      \* history: a worker found port_pool empty
    raced,    \* history: two workers were on this path at the same time
    half      \* history: flows whose reverse entry could not be added

vars == <<table, head, wpc, wtuple, wport, dry, raced, half>>

Init ==
    /\ table = [t \in {} |-> NULL]
    /\ head = 1
    /\ wpc = [w \in Workers |-> "idle"]
    /\ wtuple = [w \in Workers |-> NULL]
    /\ wport = [w \in Workers |-> 0]
    /\ dry = FALSE
    /\ raced = FALSE
    /\ half = {}

----------------------------------------------------------------------------
\* Mutant: the lookup is left out.
Miss_NoLookup(w, t) ==
    /\ wpc[w] = "idle" /\ Queue[t] = w
    /\ wpc' = [wpc EXCEPT ![w] = "dequeue"]
    /\ wtuple' = [wtuple EXCEPT ![w] = t]
    /\ raced' = (raced \/ \E v \in Workers \ {w} : wpc[v] # "idle")
    /\ UNCHANGED <<table, head, wport, dry, half>>

\* rte_hash_lookup_data returns -ENOENT, whichever side the packet is from.
Miss(w, t) ==
    /\ wpc[w] = "idle" /\ Queue[t] = w
    /\ t \notin DOMAIN table
    /\ wpc' = [wpc EXCEPT ![w] = "dequeue"]
    /\ wtuple' = [wtuple EXCEPT ![w] = t]
    /\ raced' = (raced \/ \E v \in Workers \ {w} : wpc[v] # "idle")
    /\ UNCHANGED <<table, head, wport, dry, half>>

\* rte_ring_dequeue on a single-consumer ring: read the head...  The result
\* is ignored: of an empty pool the port is 0.
ReadHead(w) ==
    /\ wpc[w] = "dequeue"
    /\ IF head <= PoolSize
         THEN /\ wport' = [wport EXCEPT ![w] = head]
              /\ wpc' = [wpc EXCEPT ![w] = "take"]
              /\ UNCHANGED dry
         ELSE /\ wport' = [wport EXCEPT ![w] = 0]
              /\ wpc' = [wpc EXCEPT ![w] = "add"]
              /\ dry' = TRUE
    /\ UNCHANGED <<table, head, wtuple, raced, half>>

\* Mutant: the value is not cast to uint16_t.
TakePort_NotCast(w) ==
    /\ wpc[w] = "take"
    /\ head' = wport[w] + 1
    /\ wpc' = [wpc EXCEPT ![w] = "add"]
    /\ UNCHANGED <<table, wtuple, wport, dry, raced, half>>

\* Mutant: the value stays at the head of the ring (a peek).
TakePort_Peek(w) ==
    /\ wpc[w] = "take"
    /\ wport' = [wport EXCEPT ![w] = @ % PortModulus]
    /\ wpc' = [wpc EXCEPT ![w] = "add"]
    /\ UNCHANGED <<table, head, wtuple, dry, raced, half>>

\* ... and move it on, with no guard against another consumer.  The value is
\* cast to uint16_t.
TakePort(w) ==
    /\ wpc[w] = "take"
    /\ head' = wport[w] + 1
    /\ wport' = [wport EXCEPT ![w] = @ % PortModulus]
    /\ wpc' = [wpc EXCEPT ![w] = "add"]
    /\ UNCHANGED <<table, wtuple, dry, raced, half>>

\* rte_hash_add_key_data: a key that is in the table gets the new data, a new
\* one needs room.  Even with room an insertion may fail.
Room(t) == t \in DOMAIN table \/ Cardinality(DOMAIN table) < TableSize

Added(t, x) == [u \in DOMAIN table \cup {t} |-> IF u = t THEN x ELSE table[u]]

ReverseOf(w) == <<wtuple[w][2], wport[w]>>

\* The worker is done with the packet.
Finish(w) ==
    /\ wpc' = [wpc EXCEPT ![w] = "idle"]
    /\ wtuple' = [wtuple EXCEPT ![w] = NULL]
    /\ wport' = [wport EXCEPT ![w] = 0]

AddKey(w) ==
    /\ wpc[w] = "add" /\ Room(wtuple[w])
    /\ table' = Added(wtuple[w], <<wport[w], wtuple[w][2]>>)
    /\ wpc' = [wpc EXCEPT ![w] = "addReverse"]
    /\ UNCHANGED <<head, wtuple, wport, dry, raced, half>>

\* Mutant: the result of the first insertion is ignored.
AddKeyFailed_GoesOn(w) ==
    /\ wpc[w] = "add"
    /\ wpc' = [wpc EXCEPT ![w] = "addReverse"]
    /\ UNCHANGED <<table, head, wtuple, wport, dry, raced, half>>

\* The port stays lost, and the packet leaves as it came.
AddKeyFailed(w) ==
    /\ wpc[w] = "add"
    /\ Finish(w)
    /\ UNCHANGED <<table, head, dry, raced, half>>

\* Mutant: an entry that is there already is kept.
AddReverse_KeepsOld(w) ==
    /\ wpc[w] = "addReverse" /\ Room(ReverseOf(w))
    /\ table' = IF ReverseOf(w) \in DOMAIN table
                   THEN table
                   ELSE Added(ReverseOf(w), <<wtuple[w][2], wtuple[w][1]>>)
    /\ Finish(w)
    /\ UNCHANGED <<head, dry, raced, half>>

AddReverse(w) ==
    /\ wpc[w] = "addReverse" /\ Room(ReverseOf(w))
    /\ table' = Added(ReverseOf(w), <<wtuple[w][2], wtuple[w][1]>>)
    /\ Finish(w)
    /\ UNCHANGED <<head, dry, raced, half>>

\* The flow stays in the table without its reverse.
AddReverseFailed(w) ==
    /\ wpc[w] = "addReverse"
    /\ half' = half \cup {wtuple[w]}
    /\ Finish(w)
    /\ UNCHANGED <<table, head, dry, raced>>

Next ==
    \E w \in Workers :
        \/ \E t \in Tuples : Miss(w, t)
        \/ ReadHead(w) \/ TakePort(w)
        \/ AddKey(w) \/ AddKeyFailed(w)
        \/ AddReverse(w) \/ AddReverseFailed(w)

Spec == Init /\ [][Next]_vars

----------------------------------------------------------------------------
\* Every variable has its type; a worker past the lookup has a tuple.
TypeOK ==
    /\ DOMAIN table \subseteq Tuples \cup (Ports \X Ports)
    /\ \A t \in Outbound \cap DOMAIN table :
         table[t] \in Ports \X Servers /\ table[t][2] = t[2]
    /\ head \in 1..(PoolSize + 1)
    /\ wpc \in [Workers -> {"idle", "dequeue", "take", "add", "addReverse"}]
    /\ wtuple \in [Workers -> Tuples \cup {NULL}]
    /\ \A w \in Workers : wpc[w] # "idle" => wtuple[w] \in Tuples
    /\ wport \in [Workers -> Nat]
    /\ \A w \in Workers :
         /\ wpc[w] = "take" => wport[w] \in 1..PoolSize
         /\ wpc[w] \in {"add", "addReverse"} => wport[w] \in Ports
    /\ dry \in BOOLEAN /\ raced \in BOOLEAN
    /\ half \subseteq Tuples

\* Flows with both entries: no failed insertion, none under way.
Whole == {t \in Outbound \cap DOMAIN table :
            /\ t \notin half
            /\ \A w \in Workers : ~(wpc[w] = "addReverse" /\ wtuple[w] = t)}

PortOf(t) == table[t][1]

\* No two workers on the new-flow path at once (they would share a port, or
\* one would overwrite the entry the other has just missed), a pool that has
\* not run dry, and no value taken from it yet that does not fit into 16 bits.
PortsFresh ==
    /\ ~raced
    /\ ~dry
    /\ head <= PortModulus

\* While ports are fresh, the answer to a translated packet finds the entry
\* that leads back to the client, even if a server had sent to that port
\* before it was given out.
RoundTrip ==
    PortsFresh =>
        \A t \in Whole :
            /\ <<t[2], PortOf(t)>> \in DOMAIN table
            /\ table[<<t[2], PortOf(t)>>] = <<t[2], t[1]>>

\* While ports are fresh, two flows never share one, and none gets port 0.
DistinctPorts ==
    PortsFresh =>
        \A t, u \in Outbound \cap DOMAIN table :
            /\ PortOf(t) # 0
            /\ PortOf(t) = PortOf(u) => t = u

\* Ports fresh or not, a server's packet is only handed to a client whose own
\* packets leave from that port to that server.
ReplyBelongsToFlow ==
    \A d \in Servers, p \in Ports, s \in Clients :
        <<d, p>> \in DOMAIN table /\ table[<<d, p>>] = <<d, s>> =>
            <<s, d>> \in DOMAIN table /\ table[<<s, d>>] = <<p, d>>

\* The translation of a client's flow never changes once it is in the table:
\* the packets of a connection all leave from the same port.
StableTranslation ==
    [][\A t \in Outbound \cap DOMAIN table :
         t \in DOMAIN table' /\ table'[t] = table[t]]_vars
=============================================================================
