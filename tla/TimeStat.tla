------------------------------ MODULE TimeStat ------------------------------
(***************************************************************************)
(* time_stat of src/src/smto_utils.c: TURN threads heap-sort one block     *)
(* each of an array of measured times, meet the caller at a barrier, and   *)
(* the caller merges the blocks into longer and longer runs.  Each step of *)
(* a thread is one call of adjust on its own block; that a thread touches  *)
(* no other block, on which this grain rests, is OwnBlockOnly.  The mutex  *)
(* is locked and released with nothing in between and is left out.         *)
(***************************************************************************)
EXTENDS Integers, FiniteSets

CONSTANTS
    Turn,     \* TURN, the number of threads
    MaxSize,  \* bound: the longest array
    Values    \* the times that can be measured

\* The elements behind the last block are sorted by nobody: one is a run of
\* its own, two would not be.
ASSUME TimeStatAssumption ==
    /\ Turn \in {1, 2} /\ MaxSize \in Nat \ {0} /\ Values \subseteq Nat

Threads == 0..(Turn - 1)

VARIABLES
    given,  \* time_array as it was passed
    nums,   \* the array that is being sorted
    tpc,    \* each thread: program counter
    cur,    \* ... i of its first loop, j of its second
    mpc,    \* the caller: program counter
    next,   \* ... the thread it creates next
    gap, i  \* ... the loop variables of the merging

vars == <<given, nums, tpc, cur, mpc, next, gap, i>>

length == Cardinality(DOMAIN nums)
block_length == length \div Turn

Init ==
    /\ \E size \in 1..MaxSize : given \in [0..(size - 1) -> Values]
    /\ nums = given
    /\ tpc = [t \in Threads |-> "absent"] /\ cur = [t \in Threads |-> 0]
    /\ mpc = "create" /\ next = 0 /\ gap = 0 /\ i = 0

\* adjust: the element at "from" sinks in the heap of n elements of the
\* block.  What is read lies below what has been written.
Adjust(a, base, from, n) ==
    LET temp == a[base + from]
        Child(p) == LET c == 2 * p + 1
                    IN  IF c # n - 1 /\ a[base + c] < a[base + c + 1]
                          THEN c + 1 ELSE c
        sink[p \in 0..(n - 1)] ==
            IF 2 * p + 1 > n - 1 \/ temp >= a[base + Child(p)]
              THEN [a EXCEPT ![base + p] = temp]
              ELSE [sink[Child(p)] EXCEPT ![base + p] = a[base + Child(p)]]
    IN  sink[from]

Base(t) == t * block_length

\* pthread_create, whose result nobody tests.
CreateThread ==
    /\ mpc = "create" /\ next < Turn
    /\ \/ /\ tpc' = [tpc EXCEPT ![next] = "build"]
          /\ cur' = [cur EXCEPT ![next] =
                       IF block_length = 0 THEN -1
                       ELSE IF block_length = 1 THEN 0
                       ELSE (block_length - 2) \div 2]
       \/ tpc' = [tpc EXCEPT ![next] = "missing"] /\ UNCHANGED cur
    /\ next' = next + 1
    /\ UNCHANGED <<given, nums, mpc, gap, i>>

\* Mutant: the last parent is left out.
BuildHeap_OneShort(t) ==
    /\ tpc[t] = "build"
    /\ IF cur[t] > 0
         THEN /\ nums' = Adjust(nums, Base(t), cur[t] - 1, block_length)
              /\ cur' = [cur EXCEPT ![t] = @ - 1] /\ UNCHANGED tpc
         ELSE /\ tpc' = [tpc EXCEPT ![t] = "sort"]
              /\ cur' = [cur EXCEPT ![t] = block_length - 1]
              /\ UNCHANGED nums
    /\ UNCHANGED <<given, mpc, next, gap, i>>

\* heap_sort, first loop: the parents from the last to the root.
BuildHeap(t) ==
    /\ tpc[t] = "build"
    /\ IF cur[t] >= 0
         THEN /\ nums' = Adjust(nums, Base(t), cur[t], block_length)
              /\ cur' = [cur EXCEPT ![t] = @ - 1] /\ UNCHANGED tpc
         ELSE /\ tpc' = [tpc EXCEPT ![t] = "sort"]
              /\ cur' = [cur EXCEPT ![t] = block_length - 1]
              /\ UNCHANGED nums
    /\ UNCHANGED <<given, mpc, next, gap, i>>

\* Mutant: the greatest element goes to nums[j], of the first block.
SortBlock_NoBase(t) ==
    /\ tpc[t] = "sort"
    /\ IF cur[t] > 0
         THEN LET j == cur[t]
                  swapped == [nums EXCEPT ![Base(t)] = nums[j],
                                          ![j] = nums[Base(t)]]
              IN  /\ nums' = Adjust(swapped, Base(t), 0, j)
                  /\ cur' = [cur EXCEPT ![t] = @ - 1] /\ UNCHANGED tpc
         ELSE /\ tpc' = [tpc EXCEPT ![t] = "barrier"]
              /\ UNCHANGED <<nums, cur>>
    /\ UNCHANGED <<given, mpc, next, gap, i>>

\* heap_sort, second loop: the root is the greatest and goes to the end of
\* the heap; then the barrier.
SortBlock(t) ==
    /\ tpc[t] = "sort"
    /\ IF cur[t] > 0
         THEN LET j == Base(t) + cur[t]
                  swapped == [nums EXCEPT ![Base(t)] = nums[j],
                                          ![j] = nums[Base(t)]]
              IN  /\ nums' = Adjust(swapped, Base(t), 0, cur[t])
                  /\ cur' = [cur EXCEPT ![t] = @ - 1] /\ UNCHANGED tpc
         ELSE /\ tpc' = [tpc EXCEPT ![t] = "barrier"]
              /\ UNCHANGED <<nums, cur>>
    /\ UNCHANGED <<given, mpc, next, gap, i>>

\* Mutant: the barrier is made for TURN threads, the caller being one.
PassBarrier_TurnOnly ==
    /\ mpc = "create" /\ next = Turn
    /\ Cardinality({t \in Threads : tpc[t] = "barrier"}) >= Turn - 1
    /\ mpc' = "merge" /\ gap' = length \div Turn /\ i' = 0
    /\ UNCHANGED <<given, nums, tpc, cur, next>>

\* pthread_barrier_wait of the caller, for TURN + 1.
PassBarrier ==
    /\ mpc = "create" /\ next = Turn
    /\ \A t \in Threads : tpc[t] = "barrier"
    /\ mpc' = "merge" /\ gap' = length \div Turn /\ i' = 0
    /\ UNCHANGED <<given, nums, tpc, cur, next>>

\* merge: the runs start1 .. start2 - 1 and start2 .. end become one.  It is
\* written to a buffer first, so what is read is what was there before.
Merged(a, start1, start2, end) ==
    LET fill[p \in (start1..start2) \X (start2..(end + 1))] ==
            LET x == p[1]
                y == p[2]
                k == x + y - start2
            IN  IF x = start2 /\ y = end + 1
                  THEN a
                  ELSE IF y > end \/ (x < start2 /\ a[x] <= a[y])
                    THEN [fill[<<x + 1, y>>] EXCEPT ![k] = a[x]]
                    ELSE [fill[<<x, y + 1>>] EXCEPT ![k] = a[y]]
    IN  fill[<<start1, start2>>]

\* Mutant: the first loop condition is gap <= length.
MoreRuns_OneMore == gap <= length /\ gap # 0

\* Mutant: the array of one element, whose blocks are empty, is forgotten.
MoreRuns_NoZeroTest == gap < length

MoreRuns == gap < length /\ gap # 0

MergePair ==
    /\ mpc = "merge" /\ MoreRuns /\ i + 2 * gap - 1 < length
    /\ nums' = Merged(nums, i, i + gap, i + 2 * gap - 1)
    /\ i' = i + 2 * gap
    /\ UNCHANGED <<given, tpc, cur, mpc, next, gap>>

\* Mutant: the run that is left over is not merged.
MergeRest_Missing ==
    /\ mpc = "merge" /\ MoreRuns /\ i + 2 * gap - 1 >= length
    /\ gap' = 2 * gap /\ i' = 0
    /\ UNCHANGED <<given, nums, tpc, cur, mpc, next>>

\* The pairs are done; a shorter run may be left.
MergeRest ==
    /\ mpc = "merge" /\ MoreRuns /\ i + 2 * gap - 1 >= length
    /\ nums' = IF i + gap < length
                 THEN Merged(nums, i, i + gap, length - 1)
                 ELSE nums
    /\ gap' = 2 * gap /\ i' = 0
    /\ UNCHANGED <<given, tpc, cur, mpc, next>>

Report ==
    /\ mpc = "merge" /\ ~MoreRuns
    /\ mpc' = "report"
    /\ UNCHANGED <<given, nums, tpc, cur, next, gap, i>>

Caller    == CreateThread \/ PassBarrier \/ MergePair \/ MergeRest \/ Report
Thread(t) == BuildHeap(t) \/ SortBlock(t)

Next == Caller \/ \E t \in Threads : Thread(t)

\* Threads and caller are scheduled by the operating system.
Spec     == Init /\ [][Next]_vars
FairSpec == Spec /\ WF_vars(Caller) /\ \A t \in Threads : WF_vars(Thread(t))

----------------------------------------------------------------------------
(* What must hold.                                                         *)

\* Every variable has its type; the merging ends before twice the length.
TypeOK ==
    /\ nums \in [DOMAIN given -> Values]
    /\ tpc \in [Threads -> {"absent", "missing", "build", "sort", "barrier"}]
    /\ cur \in [Threads -> -1..MaxSize]
    /\ mpc \in {"create", "merge", "report"} /\ next \in 0..Turn
    /\ gap \in 0..(2 * length - 1) /\ i \in 0..length

Ordered(a, from, to) == \A m, n \in from..to : m <= n => a[m] <= a[n]

\* Between two calls of adjust in its second loop a thread's block is a heap
\* of the smaller elements, then the greater ones in order.
HeapThenSorted ==
    \A t \in Threads : tpc[t] = "sort" /\ block_length > 0 =>
       LET b == Base(t)
           j == cur[t]
       IN  /\ \A c \in 1..j : nums[b + ((c - 1) \div 2)] >= nums[b + c]
           /\ Ordered(nums, b + j + 1, b + block_length - 1)
           /\ j < block_length - 1 =>
                \A m \in 0..j : nums[b + m] <= nums[b + j + 1]

\* Merging starts from sorted blocks and keeps it so: every run of "gap"
\* elements the caller has still to merge is in order, also the last one.
RunsSorted ==
    mpc = "merge" /\ gap > 0 =>
       \A n \in 0..(length - 1) :
          n >= i /\ (n - i) % gap = 0 =>
             Ordered(nums, n, IF n + gap < length THEN n + gap - 1
                                                  ELSE length - 1)

Bag(a) == [v \in Values |-> Cardinality({n \in DOMAIN a : a[n] = v})]

\* What is reported are the order statistics of the array that was passed:
\* the array is in order and has lost and gained nothing ("print average, 50%,
\* 90%, 99% and max value", src/include/internal/smto_utils.h:37).
ReportOrdered ==
    mpc = "report" => Ordered(nums, 0, length - 1) /\ Bag(nums) = Bag(given)

\* No thread writes into the block of another one, nor behind the blocks.
OwnBlockOnly ==
    [][\A t \in Threads : tpc[t] \in {"build", "sort"} /\ cur'[t] # cur[t] =>
         \A n \in DOMAIN nums :
            nums'[n] # nums[n] => n \in Base(t)..(Base(t) + block_length - 1)]_vars

\* time_stat returns, unless a thread could not be created: then the caller
\* waits at the barrier for ever.
Terminates == <>(mpc = "report" \/ \E t \in Threads : tpc[t] = "missing")
=============================================================================
