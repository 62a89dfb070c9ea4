# Smart Offload in TLA+

A TLA+ model of [Smart Offload](../src/README.md), a DPDK program that forwards
packets in software, learns flows, and moves a busy flow into rules of the NIC
until the flow goes quiet.  The modules are translated from the C sources under
`src/src` and `src/include`; TLC checks them on small instances, and TLAPS
proves the main safety results for every value of the constants.

## 1. The system

### Threads and shared state

| thread | code | what it does |
|---|---|---|
| main lcore | `test/smto_test.c`, `smto.c` | `init_smto`, waits for a signal, `destroy_smto` |
| packet workers, one per RX queue | `smto_worker.c` | `process_loop`: burst in, `packet_processing`, burst out |
| flow engine, one lcore | `smto_flow_engine.c` | `create_flow_loop`: takes entries out of a ring and creates rules |
| EAL interrupt thread | `smto_event.c` | `aged_event_callback` sets an alarm, `delete_timeout_flows` destroys aged rules |
| NIC and driver (external) | | holds rules, counts, ages them |

All of them share the control block `smto_cb` and, without a lock, the table
entries (`struct smto_flow_key`): `packet_amount`, `flow_size`, `is_offload`,
`flow` (the handle of the entry's rule) and `symmetrical_flow_key` (the entry of
the other direction).  An entry travels by pointer: worker -> `flow_rules_ring`
-> engine -> aging context of the rule -> interrupt thread.  `port_pool` is a
second ring, filled once with the ports new flows take.

### Components, what makes them hard, what makes them correct

| component | state and operations | hard behaviour | correct if |
|---|---|---|---|
| Packet worker: counting, offload request | `packet_amount`, `is_offload`; count, test, enqueue, mark | four steps that race with engine and deleter; a full ring | no rule before the threshold; an OFFLOADING entry has something to come |
| Packet worker: address translation | `flow_hash_map`, `port_pool`; lookup, dequeue, two insertions | pool runs dry, 16-bit cast, one insertion fails, two workers | replies lead back to the right client; a connection keeps its port |
| Packet worker: burst loop | mbufs | partly sent bursts | every mbuf is sent or freed once |
| Flow engine | `flow`, `is_offload`, the burst; create, store, mark, for both directions | the rule is live before the entry knows; refused rules | the entry's status and handle agree with the NIC |
| Aging | alarm, batch of contexts; query, destroy, reset | handles that were reused; a batch smaller than the aged rules | aged rules go, no other rule goes |
| Start and stop | resources, `is_running`, lcores | any step fails; threads still running | nothing is used after its release, nothing is kept |
| Port setup | queues, hairpin, link | ignored results, retries | success means the port works |
| Rule contents, key extraction, printing, error strings | none shared | | data only |
| Time statistics (`smto_utils.c`) | array, barrier; parallel heap sort, merge | barrier, uneven blocks, a rest | the array is in order and has lost nothing; called by `test/mem.c` only |
| First version, worker and aging (`src/src/v1`) | table, `flow_meta`, rules; lookup, count, create, delete, free | lookups racing with frees | no freed entry is used, no rule and no entry is lost |
| First version, start and exit | the process, link polls, the table | exit beside a running interrupt thread | the table outlives its users; a signal ends the process |

The first version (v1) is kept in the tree and not built any more.

`PROJECT.json` lists them with the sources, and under "hazards" the lines where
each of these difficulties bites.

## 2. The modules

| module | models | role |
|---|---|---|
| `OffloadPromise` | what `src/README.md` promises: a rule for a busy flow, gone when it is quiet | abstract specification |
| `FlowOffload` | worker (counting and request), flow engine, NIC rules, aging, in both port modes | component |
| `NatTable` | the new-flow branch of `packet_processing`: ports and translation | component |
| `WorkerPass` | one pass of `process_loop`: the mbufs, and `packet_amount` read and written without a lock | component |
| `Lifecycle` | `main`, `init_smto`, `destroy_smto`, launched lcores, aged event registration, both port modes | component |
| `TimeStat` | `time_stat`: sorting threads, barrier, merging | component |
| `V1FlowTable` | v1: `process_loop`, `packet_processing`, `delete_timeout_flows` | component |
| `V1Main` | v1: `main` and `smto_exit` around `V1FlowTable` | composition |
| `FlowOffloadProofs`, `FlowOffloadRefinement`, `NatTableProofs`, `WorkerPassProofs`, `LifecycleProofs`, `V1Proofs`, `V1RuleProofs`, `TimeStatProofs` | | theorems |
| `MCFlowOffload`, `MCNatTable`, `MCWorkerPass`, `MCLifecycle`, `MCTimeStat`, `MCV1Main` | | instances for TLC |

A definition whose comment starts with "Mutant" is a deliberately wrong variant
of the operation below it; it is not part of any specification, and serves to
show that a property can fail.

### FlowOffload and OffloadPromise

An entry is named by its key; `Peer` is `symmetrical_flow_key`.  Each thread is a
program counter (`wpc`, `epc`, `dpc`) and what it has in hand.  A step is the code
between two accesses that another thread can observe:

| action | code |
|---|---|
| `NewFlow` | the miss branch: both entries enter the table, or the second insertion fails |
| `CountPacket` | `packet_amount++` and the test of threshold and status |
| `Enqueue`, `MarkOffloading` | `rte_ring_enqueue`, then `is_offload = OFFLOADING` |
| `DequeueBurst` | `rte_ring_dequeue_burst` |
| `CreateRule`, `CreateRefused` | the two outcomes of `rte_flow_create`; after a refusal the rest of the request is skipped |
| `StoreHandle`, `MarkOffloaded` | `flow = ...`, `is_offload = OFFLOAD_SUCCESS`, first for the entry, then for its peer |
| `Age` | the NIC's timeout, the event, and `rte_eal_alarm_set` |
| `GetAgedFlows`, `GetAgedError` | `rte_flow_get_aged_flows` |
| `QueryCounter`, `DestroyRule`, `DestroyFailed`, `ResetStatus` | one pass of the loop of `delete_timeout_flows` |

`mode` is chosen in `Init` out of `Modes` and stays.  In dual port mode the rule of
the peer is on `ports[1]` (`port`).  The aged event is registered for the first port,
and `rte_flow_get_aged_flows`, the query and the destruction go there too: an aged
rule is `Reportable` only on port 0, and a call through a handle does what the caller
means only if the handle fits that port (`HandleFits`).

`flow` is never set back to NULL in the code, nor in the model.  The driver may
give the address of a destroyed rule to a new one: a handle is an element of
`Handles`, and `CreateRule` may return any that is not live.

Four history variables record what the properties except: `refused` (the NIC
refused a rule), `duplicated` (a rule was created for a key that had one),
`staleUse` (a handle of something else than the entry's rule was used) and
`agingError` (a call of the aging path failed).

`OffloadPromise` knows neither threads nor ring, status or handles.  A direction gets
busy, asks for the rules of its flow, gets a rule if it has none, gets quiet, and
only a quiet direction's rule goes away, alone.  `FlowOffload` states the mapping
in `Promise`, and `PromiseKept` is the abstract specification of the mapped
variables.  The one thing the promise does not cover is what comes after a second
rule for one direction (`broken`), which only a standing request can bring about.

Decisions:

- `packet_amount` is counted up to the threshold, since the code only compares it
  with that.  The code's counter is a `uint32_t`: after 2^32 packets it begins anew,
  which would put the next request off and is not modelled here.  Adding to it is
  indivisible; `WorkerPass` splits it and lets it wrap.
- A rule does not age (`InFlight`) while the engine has still to write its entry,
  or a worker is between its test of the entry and its write: the timeout is
  `FLOW_TIMEOUT_SECOND` = 10 s, and these are a few instructions.
- Packets of a flow may reach a worker while the flow has a rule: they were in
  the RX queue before.
- A failed `rte_flow_create` and the write of NOT_OFFLOAD are one step: nothing
  observable is between them.
- A destroy through a dangling handle may succeed or fail, as the driver likes.
- The driver raises RTE_ETH_EVENT_FLOW_AGED for the first rule that ages after a
  call of `rte_flow_get_aged_flows` (`armed`); this is how DPDK documents it.  After a
  call that failed (`GetAgedError`) it may do so or not.

### NatTable

A tuple is a pair of endpoints; the table maps a received tuple to the tuple the
packet leaves with.  A miss from the server's side takes the same branch, as in
the code.  `rte_ring_dequeue` of the single-consumer `port_pool` is two steps
(`ReadHead`, `TakePort`), so two workers can take the same value; the value is cut
to `PortModulus`.  `rte_hash_add_key_data` replaces the data of a key that is
there and may fail otherwise (`Room`, `AddKeyFailed`, `AddReverseFailed`).
Insertions interleave but do not overlap: what two overlapping insertions leave
in a table created for one writer is outside the library's contract, and is
listed as a hazard.

### WorkerPass

`RxBurst`, then `OtherPacket` or `ReadCount`/`WriteCount` per packet, `TxBurst`,
`FreeUnsent`.  `owned` is the set of mbufs received and neither sent nor freed.
`nb_tx` starts with any value, since the code does not initialise it, and keeps
the value of an earlier pass in a pass that receives nothing.  On the other side
are a rule with its counter (`CreateRule`, `HitRule`) and the path of
`delete_timeout_flows` for it: `QueryCounter`, `ReadAmount`, `WriteAmount`,
`DestroyRule`, with the failures.  `packet_amount` is a `uint32_t`
(`CounterModulus`).  What makes counting inexact is recorded: `overlap`, an update
between the two halves of another; `disturbed`, a failed call, or packets that hit
the rule after its counter was queried.

### Lifecycle

The main lcore's program counter walks through `init_smto`; `Try` is a call that
acquires or jumps to a label.  The labels `err5` .. `err` and the steps of
`destroy_smto` are the same actions where they make the same calls: "stop",
"cancel", "unregister", "wait" and "err2" (`destroy_hash_map`) occur on both ways,
and `failing` tells them apart.  With an entry in the table `destroy_hash_map`
passes NULL as the position of `rte_hash_iterate`.  A library built with
`RTE_LIBRTE_HASH_DEBUG` tests it and returns -EINVAL with the key NULL, so the loop,
which waits for -ENOENT, goes on for ever (`IterateHashMap`, `DeleteNullKey`);
otherwise the pointer is followed and the process dies (`IterateHashMapCrash`).

Not split further: port and hairpin setup is one step that succeeds or fails.
The pool is filled with exactly the values it has room for, so filling it does
not fail.  If the `calloc` of `worker_params` returns NULL, which is not tested, the
process dies at the first write (`ParamsOutOfMemory`).  `main` calls
`rte_eal_cleanup` once more after `destroy_smto` has; the second call is left out.

### TimeStat

`TURN` threads heap-sort a block each, one step per call of `adjust`; the caller
creates them, waits at the barrier for all of them and merges runs of doubling
length.  `Adjust` and `Merged` are recursive functions, one unfolding per turn of
the loops of `adjust` and `merge`; `fill` counts with the indices i and j of the
code and k = i + j - start2.  `pthread_create` may fail, and is not tested: then the
caller waits for ever.

### V1FlowTable and V1Main

In v1 one worker counts and creates the rule itself at exactly the fifth packet,
and the interrupt thread looks the context of each aged rule up, takes the entry
out of the table, destroys the rule and frees the `flow_meta`.  A `flow_meta` and a
rule are addresses (`Metas`, `Handles`) that are given out again; freeing clears the
memory, as `rte_free` does.  `late` records that the worker had a packet of a flow
whose rule had aged: the packet came after the aging, or was in hand when the rule
aged.  Either takes a packet that the NIC does not match (a fragment), since a matched
one puts the aging off.  Only between its creation and the write of its handle does a
rule not age (`InFlight`): these are a few instructions, the timeout is seconds.

The worker adds entries and the interrupt thread deletes them in a table whose flag
(`RW_CONCURRENCY_LF`, v1/main.c:144) allows one writer.  As in `NatTable` the calls
interleave and do not overlap, and the rest is listed as a hazard.  A key that is
deleted keeps its slot until its position is given back, and `rte_hash_count` counts
slots: `CountKeys` counts it too.  A failed `rte_zmalloc`, for a packet or for the
parameters of the alarm, is followed as a pointer and ends the process
(`OutOfMemory`).

`V1Main` adds the start-up calls, each of which may
fail and go to `smto_exit`, the polls of `assert_link_status` (`rep`), the signal
handler, and the exit, during which the interrupt thread keeps running.

## 3. What is checked

Passing runs:

| run | instance | shows |
|---|---|---|
| `one_flow` | 1 flow, both modes, 2 workers, 2 handles, threshold 2, ring 2, burst 1, batch 2 | type invariant; no rule before the threshold; handles, statuses and live rules agree until a rule is duplicated; OFFLOADING is no dead end; only aged rules are destroyed; every step is allowed by `OffloadPromise` |
| `liveness` | 1 flow, 1 worker, single port, burst 2 | a request gets its rule, an aged rule is destroyed |
| `nat_two_workers` | 2 clients, 1 server, 2 workers, 4 pool values for 3 ports, 6 entries | round trip and distinct ports while ports are fresh; under races and wrapped ports too, a server's packet goes only to a client that talks to that server from that port, and translations are stable |
| `worker_pass` | bursts of 2, 3 mbufs, a counter of 4 values, 6 packets | every mbuf sent or freed once; counts exact without overlap, never too high |
| `start_stop` | 0 to 3 ports, 2 queues, 0 to 6 lcores | no use after release, complete unwinding, every queue served, shutdown ends |
| `v1` | 2 flows, 2 metas, 2 handles, rule at the 2nd packet, bursts of 1, 2 polls | freed memory is used only after a packet in hand had its rule aged; no rule and no `flow_meta` is lost; the table is there for whoever removes from it; aged rules go; a signal ends the process |
| `time_stat` | arrays up to 8 of 3 values, 2 threads | heaps, runs and the result are in order; nothing is lost; threads keep to their blocks; it ends |

Runs that show where a document or comment and the code part:

| run | the text | the code |
|---|---|---|
| `small_batch` | README.md:11, rules go after 10 seconds | only the first 8 aged rules are asked for; no further event tells of the rest |
| `unaged_rule` | smto_event.c:52, deletes flows "which are aged" | if both directions ask, second rules hide the first ones, and the wrong rule is destroyed |
| `refused_rule` | README.md:9, a rule after n packets | OFFLOADING overwrites the engine's NOT_OFFLOAD; the flow never asks again |
| `double_port` | README.md:11 | a rule on the second port ages unheard |
| `shutdown_hangs` | smto_setup.h:64, frees the flows | with an entry in the table nothing is freed: the loop never ends, or the process dies |

More disagreements were met that have no run, since what breaks is one step of the
model that says so: "a new port" (smto_worker.c:84) repeats after the cast to 16 bits
in line 89 (`TakePort`); with two ports and three lcores the check of smto.c:57 passes
and no flow engine is launched (`CheckLcores`, `Role`); one failed call of the aging
path (smto_event.c:67) may be the last call of it (`GetAgedError`), against README.md:11;
the end of v1's main (v1/main.c:177, "free the memory of flow metadata and the flow
hash map") dies at a NULL position when there is an entry (`CountKeys`).  An alarm set
between the cancellation and the unregistration of smto_event.c:143 still fires;
`HandlerFindsEntries` says why that does no harm.

The passing properties leave out the cases in which the code cannot keep them:
`DistinctPorts` and `RoundTrip` the ports that raced, wrapped or were missing,
`AgedRuleDestroyedUnlessError` a failed call, `SinglePortServed` the second port,
`FreedUseOnlyLate` the packet in hand while its rule has aged, `CountNeverOverstated`
a failed destruction, `ParamsFoundUnlessFailing` a failed launch, and `Terminates` a
failed `pthread_create`; `ShutdownEnds` of v1 counts a crash as an end.  The notes
under "hazards" name these cases at their lines.

### Bounds, and why they are enough

- Two keys are one flow with both directions, which is what a request touches.  A
  second flow could meet the first only in a rule address that is given out again,
  which happens within one flow too.
- A ring of 2 with a burst of 1 lets the peer's request wait behind the own one or
  find the ring full; `liveness` adds a burst of 2 that holds both.  A batch of 2
  takes both rules; a batch of 1 (`small_batch`) leaves one behind.
- A threshold of 2 has a state below, at and above the test; the first packet
  never requests, as in the code.
- `PoolSize` > `PortModulus` lets ports wrap, and 6 entries fill up.
- Bursts of 2 can be sent in no, one or both parts; a third mbuf lets a slot hold a
  stale pointer; 6 packets wrap a counter of 4 values.
- `MaxPorts` = 3 includes none and too many, `MaxLcores` = 6 includes too few and
  unused ones; `GeneralQueues` = 2 is more general than the 1 the code is built
  with.
- In `v1` each address is given out twice, one to each flow; a burst of 1 has a test
  of `force_quit` between any two packets.
- Arrays of up to 8 have empty blocks, blocks of one, odd lengths with a rest behind the
  last block, and three merging rounds.  `TimeStatAssumption` restricts `Turn` to the
  values that leave at most one element behind the blocks: the code has 2; with 3 and
  more, two elements that nobody sorts could make a run.
- `AgingIntact` is the bound of the `liveness` run: behaviours are followed up to
  the first duplicate or failed aging call.  Both are for ever, so
  `AgedRuleDestroyedUnlessError`, whose goal they are part of, loses nothing by it.
  `RequestAnswered` is checked on behaviours without them.
- Symmetry among handles or mbufs is used in runs whose properties are safety only.

`NatTable`, `Lifecycle`, `V1Main` and `TimeStat` may stop (all tuples known; the
process has ended; the report is printed), so their configurations switch the
deadlock check off; `FlowOffload` and `WorkerPass` never stop and are checked for
deadlock.

### Fairness

Each worker, the engine and the interrupt thread runs on a core or thread of its
own and polls or is woken: weak fairness on what each can do.  Nothing is assumed
of packets, of aging, of signals or of the NIC accepting rules.  In `Lifecycle`
an lcore that is told to stop does test the flag.  In `V1Main` main, the worker's
handling of what it has received, and the interrupt thread are each fair as long as
the process lives.  In `TimeStat` the caller and each thread are scheduled by the
operating system.

## 4. What is proved

All theorems hold for every value of the constants, from the named assumptions of the
modules alone: any number of flows, workers, handles, clients, lcores, buffers, times,
and any sizes.

| module | theorem | property |
|---|---|---|
| `FlowOffloadProofs` | `Typing` | `TypeOK` |
| | `ThresholdRespected` | `OffloadOnlyAfterThreshold` |
| | `HandlesTrustworthy` | `NoStaleHandle` |
| | `RulesRecorded` | `NoLostRule` |
| | `OffloadedIsBacked` | `OffloadedHasRule` |
| | `DestroysOnlyAged` | `OnlyAgedDestroyedUnlessDuplicated` |
| | `OffloadingNeverStuck` | `NoStuckOffloading` |
| `FlowOffloadRefinement` | `PromiseImplemented` | `PromiseKept` |
| `NatTableProofs` | `NatTyping` | `TypeOK` |
| | `RepliesDelivered` | `ReplyBelongsToFlow` |
| | `FreshPortsDistinct` | `DistinctPorts` |
| | `FreshPortsTranslate` | `RoundTrip` |
| | `TranslationStable` | `StableTranslation` |
| `WorkerPassProofs` | `EveryMbufOnce` | `MbufsAccounted` |
| | `NeverOverstated` | `CountNeverOverstated` |
| | `ExactUnlessOverlap` | `CountExact` |
| `LifecycleProofs` | `Typing` | `TypeOK` |
| | `SharedOutlivesLcores` | `LcoresFindShared` |
| | `TableOutlivesHandler` | `HandlerFindsEntries` |
| | `UnwindingComplete` | `FailedInitReleases` |
| | `ParamsOutliveLaunch` | `ParamsFoundUnlessFailing` |
| | `QueuesServed` | `SinglePortServed` |
| `V1Proofs` | `V1Typing` | `TypeOK` |
| | `NoMetaLost` | `MetaReachable` |
| `V1RuleProofs` | `FreedUseNeedsLate` | `FreedUseOnlyLate` |
| | `RulesKnown` | `RuleKnown` |
| | `BusyFlowsOffloaded` | `BusyFlowOffloaded` |
| | `TableThere` | `TableFound` |
| | `AgedRulesOnly` | `OnlyAgedDestroyed` |
| `TimeStatProofs` | `TimesTyped` | `TypeOK` |
| | `HeapsThenSorted` | `HeapThenSorted` |
| | `RunsStaySorted` | `RunsSorted` |
| | `OrderReported` | `ReportOrdered` |
| | `BlocksOwned` | `OwnBlockOnly` |

Hardly any of the properties is inductive as it stands.

- `FlowOffload`: `ThresholdInv` follows the request on its way: a rule is past the
  threshold because the engine's burst was, because the ring was, because the worker's
  entry was.  `HandleInv` says that, until a duplicate, entry and rule lead to each
  other, except for the rule the engine is at; that no key has two rules; and that
  the contexts the deleter still holds are of rules that are aged, live and on the
  first port.  The deleter's handle is right because a rule that is aged is not the
  engine's (`InFlight`), so nobody changes the entry under it.  `StatusInv` says that
  an entry marked OFFLOADING, or about to be marked, is still undecided (`Requested`),
  has a rule, or is being reset.
- `FlowOffloadRefinement`: the initial state maps to the initial one, and each action to
  an abstract action or a stutter, from the invariants above.  The abstract
  `requested` is computed from ring and burst, so most lemmas are about what an
  enqueue, a dequeued burst and the next request leave in them.
- `NatTable`: what holds under any race (`PathInv`) rests on a tuple being received by
  one worker only, so nobody else adds a client's tuple between its miss and its
  insertion.  What needs fresh ports (`FreshInv`) rests on every port in the table
  being below the head of the pool and different from the one in hand; `AnswerInv`
  keeps a server's unexpected packet from replacing an answer.
- `WorkerPass`: `OwnedInv` equates what the worker owns with the slots it has still to
  send or free, which hold distinct mbufs; in an empty pass this is the empty set
  whatever `nb_tx` is.  `CountInv` bounds each value either thread has read, plus the
  hits that are still to be reported, by the packets there were.  `ExactInv` says
  that, with no update between the two halves of another, every value that was read
  is still the one in memory, so that `packet_amount` and the hits that are not yet
  reported are the packets there were, modulo the width.  The lemmas about remainders
  it needs (`Division`, `RemainderUnique`, `SumOfParts`) are proved for any modulus.
- `Lifecycle`: for each program counter what is held at least (`Acquired`) and at most
  (`Released`), which counters the error path has (`Failing`), which lcores are
  launched with which parameter (`Launched`), and that a flow keeps main from freeing
  the table (`FlowsKeepTable`).
- `V1Main`: the table holds each `flow_meta` in use once; a new one is the worker's
  alone until it is added; one the worker has found is in the table, with the
  interrupt thread, or freed.
- `V1Main`, the rules: as long as no packet has come late and no call of the aging
  path has failed, a rule leads from the NIC to its entry and back.  The packet in
  hand belongs to a flow without an aged rule; the contexts still to be looked up are
  of aged, live rules; the `flow_meta` of a rule holds its handle, or the worker is
  about to write it; no flow has two rules; a rule that has aged is not one the
  worker is at; and no context is to be looked up in a freed table (`TodoInv`).
  `MainInv` and `BatchInv` need no such condition: main waits while the worker runs,
  the table is there from the hash step to the free step, and when it is freed it is
  empty and no position is still to be given back; the interrupt thread fetches
  contexts only if there were some.
- `TimeStat`: `SortedInv` is the loop invariant of every loop of the algorithm: in
  its first loop a thread's block is a heap from the next parent on (`BuildInv`), in
  its second a heap of the smaller elements and then the greater ones in order
  (`SortInv`), at the barrier the block is in order (`DoneInv`); the caller's rounds
  are `MergeInv`; the array is a permutation of what was passed all the time
  (`CountInv`).  Under it are two lemmas about the pure algorithms: `AdjustHeaps`,
  adjust makes a heap of a heap with one element out of place, and `MergeJoins`,
  merge puts two runs in order.  Both are proved by induction, in a form that the
  provers can use: `SetInduction` speaks of the set of the numbers for which
  something holds instead of a predicate, and follows from the fact that every set of
  numbers has a least element.  By the same induction the recursive functions are
  shown to exist (`SinkDefined`, `FillDefined`), so that they may be unfolded.

Each step proof has one case or lemma per action.

Only model-checked is liveness, which is out of reach of TLAPS: `RequestAnswered` and
`AgedRuleDestroyedUnlessError` of `FlowOffload`, `ShutdownCompletesUnlessFlows` of
`Lifecycle`, `AgedDestroyed` and `ShutdownEnds` of v1, `Terminates` of `TimeStat`.  Every
invariant and every action property of a passing run is a theorem.

## 5. Not modelled, and the plan

Left out for good: pattern, mask and action contents of the rules and the SSE key
extraction (data without shared state), formatting, logging, error strings, the
experiments `test/flow.c`, `test/mem.c` and `v1/test.c`, vendored headers and build
files.  `flow_size` is updated and never read.

Left out, with a reason that a reader of the code should know:

- Running out of huge pages inside `packet_processing` ends the program with a fault
  (smto_worker.c:76); the result of `init_port` is ignored (smto.c:90), and a half
  configured port is the driver's matter.
- After a failed `init_smto` the started ports and the memory pool stay until the
  process ends (smto.c:293); `FailedInitReleases` excepts exactly these.
- In dual port mode `worker_params` has room for `GENERAL_QUEUES_QUANTITY` entries only
  (smto.c:256): what lies behind the array is not modelled.
- v1: the branch for two ports comes after a call that ends the process (main.c:114)
  and is unreachable; a key object is allocated per packet and never freed
  (packet_processing.c:67), which the model uses to name contexts; the counter would
  come by 5 again after 2^32 packets; `tcp_pattern` and `udp_pattern` are used outside
  their block (flow_management.c:172); after a late packet or a failed call of the
  aging path the interrupt thread can look a context up in the freed table
  (`TableFound` says what holds).
- `time_stat`: a size of 0 divides by zero; `test/mem.c` calls it twice while the
  threads of the first call are never joined and the barrier is initialised again;
  the array of the merge is not freed; the "90%" of the report is the element at 4/5.

What could follow: the hairpin and port setup in steps of their own; the parts of the
liveness properties that are safety, such as how long a request can wait in the ring,
as theorems; v1 after a late packet, where `FreedUseOnlyLate` says nothing.

## 6. Running

    tlc -workers 2 -config MCFlowOffload_one_flow.cfg MCFlowOffload
    tlapm FlowOffloadProofs.tla
