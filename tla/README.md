# Kokkos: TLA+ models of the code that threads share

Kokkos is a C++ library of parallel patterns, memory spaces and data structures
that run on several back ends. Most of it is template code that dispatches a
user's functor. What is hard to get right, and what these modules model, is the
code that threads of the host share, nearly all of it lock-free: the tasking
layer, the thread pool and kernels of the Threads back end, the teams and kernels
of the OpenMP back end, the work graph, the memory pool and the unordered map.

## The parts and what is hard about them

| Component | State | Operations | What is hard |
| --- | --- | --- | --- |
| `LockBasedLIFO` (`impl/Kokkos_LIFO.hpp`) | `m_head` (a node, or an end, lock or consumed tag), `m_next` of each node | `push`, `pop`, `steal` | a list that is locked by a tag in its head; compare-exchange on a head read earlier; nodes reused at once |
| `SingleConsumeOperationLIFO` (same file) | the same | `try_push`, `consume` | a push that races the one consume; nodes reused while they are visited |
| `ChaseLevDeque` (`impl/Kokkos_ChaseLev.hpp`) | `m_top`, `m_bottom`, circular `m_array` | `push`, `pop` by the owner, `steal` | the last item; wrap-around; stale indices |
| `TaskQueueCommonMixin`, `TaskNode` | `m_ready_count`; per task: reference count, wait queue, predecessor, respawn flag, the array of an aggregate | `schedule_runnable_to_queue`, `schedule_aggregate`, `complete` | tasks handed to other threads in mid-function; last reference dropped anywhere; termination by a counter |
| `SingleTaskQueue`, `SimpleTaskScheduler`, OpenMP executor | ready queues per priority and type | `spawn`, `when_all`, `respawn`, `wait`, the worker loop | arbitrary graphs built while they run |
| `MultipleTaskQueue` | per team: deques, lists of failed insertions | schedule, flush, pop, steal | bounded deques; lists that are not synchronised |
| `BasicFuture` | `m_task` | constructors, assignments, destructor | exact reference counts |
| `ThreadsExec` and its kernels (`Threads/`) | one state word per thread, the current function, work ranges, reduction memory | create, start, fence, sleep, wake, finalize; fan-in, barrier, scan; range, team and graph kernels | no lock and no counter: threads infer each other's progress from one word that four protocols share |
| `WorkGraphPolicy` | ready queue, counts, two hints | `push_work`, `pop_work`, `completed_work` | a reserved slot that is not yet filled; the begin hint |
| `HostBarrier` | arrive, master and wait counters | arrive, wait, release | consecutive rounds overlap |
| `HostThreadTeamData` and the OpenMP kernels | work ranges, team placement, reduction memory | organise, disband, take and steal work, team collectives | the last chunk; threads left over; memory reused by the next collective |
| `MemoryPool`, `ConcurrentBitset` | superblock states, hints, bit words with a count | `allocate`, `deallocate`, acquire, release | racing claims of a superblock, bounded attempts |
| `UnorderedMap`, `Bitset` | hash lists, available indices, phase flags | `insert`, `erase`, `find`, `size`, `clear`, `rehash` | duplicate keys, a full map, claimed indices |

`PROJECT.json` lists every part of the repository with its status, the source
lines of each definition (`map`), and the hazards with the line where each bites.

## Modules

| Module | Models | State and actions |
| --- | --- | --- |
| `LockBasedLIFOCommon` | `_try_push_node`, `SimpleSinglyLinkedListNode` | `m_head`, `m_next` as in the code; per thread a program counter and the locals `node` and `old_head`. One action per shared access: read the head, link the node, compare-exchange, give up |
| `LockBasedLIFO` | `push`, `pop`, `steal` | adds the pop steps (lock, unlock, mark). `stack`, `holder` and `outcome` are history variables |
| `LIFOStack` | the promise: an atomic stack whose `steal` may also fail when it would have to wait | |
| `SingleConsumeLIFO` | `try_push`, `consume`, `is_consumed` | exchange, advance, mark and visit are separate steps; a visited node belongs to any thread at once |
| `WaitQueue` | the promise: pushes succeed until the one consume, which visits what was pushed | |
| `ChaseLevDeque` | `push`, `pop`, `steal` on the fixed size buffer | `m_top`, `m_bottom`, `m_array`; locals of the owner and of each thief. Items are numbered in the order they are pushed |
| `WorkStealingDeque` | the promise: an atomic bounded deque with one owner; `steal` and `pop` may fail when they lose a race | |
| `TaskQueueCommon` | the scheduling and completion of tasks | `schedule_*`, `complete` and the wait queue callback call each other, so each actor has a stack of frames; a frame's position is the next shared access of that function |
| `SimpleTaskScheduler` | `spawn`, `when_all`, `respawn`, `wait`, the executor loop, `pop_ready_task`, `RunnableTask::apply`, destruction | user code is any program: it owns futures (`holds`) and may at any time create tasks after any of them, give a new functor a copy, drop them, respawn, return |
| `MultipleTaskQueue` | the team entries, flushes, steals and the executor loop over them | a task is the block of memory it is in, which a later task may get; steps are cut where a thread has just pushed to a deque. `overtaken` is history: another team has relinked or deallocated a task whose link a flush is still to read |
| `BasicFuture` | each constructor, assignment and destructor | `m_task`, reference counts, the tasks that are running and allocated |
| `ThreadsExec` | the pool of the Threads back end: `initialize` with threads that cannot be created or bound, `driver`, `start`, `fence`, `resize_scratch`, `execute_serial`, `sleep`, `wake`, `finalize`; `fan_in_reduce`, `barrier`, `scan_small` | `m_pool_state` per thread, `s_threads_exec`, `s_current_function`, `reduce_memory`. A thread that waits for its fan looks at one member at a time |
| `ThreadsParallel` | the functions that kernels run on the pool: `exec_schedule` static and dynamic with `get_work_index`, `parallel_scan`, `ThreadsExecTeamMember` with `next_static` and `valid_dynamic`, the work graph kernel | `m_work_range`, steal targets; `ran`, `prefix` and `stale` are history. A work range's compare-exchange is one step, the read before it another |
| `WorkGraphPolicy` | the constructor's kernels, `push_work`, `pop_work`, `completed_work` | the ready and count queues and both hints; one action per atomic access |
| `RangePolicy` | `WorkRange` | pure operators |
| `HostBarrier` | `split_arrive`, `split_master_wait`, `wait`, `split_release` as `pool_rendezvous` and `team_rendezvous` use them | the three counters of each barrier and each thread's own step count |
| `HostThreadTeam` | `organize_pool`, `organize_team`, `set_work_partition`, `get_work_stealing`, the team collectives, and the range, scan and team kernels of the OpenMP back end with `resize_thread_data` | `data` (the `HostThreadTeamData` of each thread), reduction memory as sets of contributions, a program of kernels |
| `ConcurrentBitset` | `acquire_bounded_lg2`, `release` | header, count and bits; actions take the continuation as a parameter |
| `MemoryPool` | constructor, `allocate`, `deallocate` | superblock states, hints; one action per access, with the locals of `allocate` in `self` |
| `Bitset` | `find_any_unset_near` with scan direction and hints | pure operators |
| `UnorderedMap` | `insert`, `erase`, `exists`/`find` by threads; `size`, `begin_erase`, `end_erase`, `clear`, `rehash`, `reset_failed_insert_flag` by the host | the members of the map; `answer` is what a call returned last |
| `LookupTable` | the promise: a table in which each call takes effect at one moment | |
| `MC...` | constants and programs for TLC | |
| `...Proofs` | theorems, see below | |

Operators with a comment "Mutant" are variants with a plausible mistake; each
property of a passing run is violated when one of them takes the place of the
original.

How the modules compose: `LockBasedLIFO` and `SingleConsumeLIFO` extend the
common push. `SimpleTaskScheduler` extends `TaskQueueCommon`, whose ready and
wait queues are atomic sequences, which is what the refinements of `LIFOStack`
and `WaitQueue` justify. `MultipleTaskQueue` uses atomic bounded deques, which is
what the refinement of `WorkStealingDeque` justifies. `ThreadsParallel` runs the
kernels, `WorkGraphPolicy` among them, on the pool of `ThreadsExec`; its property
`ImplementsGraph` says that what the pool does with a work graph is a behaviour
of `WorkGraphPolicy` on its own, so the theorems about that module carry over.
`HostThreadTeam` runs on the rendezvous of `HostBarrier`, `MemoryPool` on
`ConcurrentBitset`, `UnorderedMap` on `Bitset`.

### Abstractions

* **Memory order.** Every step reads or writes one shared word and all steps
  are in one total order. The code puts `memory_fence()` between these accesses
  or gives them explicit memory orders; several comments in it leave the exact
  orders open, and weaker behaviours of the hardware are not modelled.
* **Values.** A node carries nothing but its identity; items of the deque are
  their number. A reduction joins sets, or counts, of contributions, so that a
  lost or repeated contribution shows.
* **Local steps** that touch nothing shared are merged with the shared access
  before or after them. Waiting loops are one step that needs its condition.
* **Allocation** of tasks always succeeds. The code only asserts on failure.
* **Team size of tasks.** The task executor has one thread per team, as
  `team_size` is fixed to 1 in `Kokkos_OpenMP_Task.hpp`.
* **`MultipleTaskQueue`**: every task is ready when it is scheduled and is
  deallocated when it completes. The memory pool gives its block to any later
  task (`Construct`), whose constructor writes a null link; until then the word
  is as it was, since `deallocate` does not write to the block. Blocks that no task
  has used yet are interchangeable, so the first of them is taken. A block is
  not given to anything but a task.
* **A thread that cannot be bound** gets `~0u`, as an `int` the entry -1, and
  competes for the word before `s_threads_exec`. What that word holds depends on
  the build: `Construct` lets the thread join without an entry, or be refused.
* **Uninitialised memory** is a choice of several values (`Uninitialized`) or a
  value of its own (`Garbage`).
* **Spurious failure** of a weak compare-exchange does not occur: the code uses
  the strong one.

## Runs

| Run | Instance | Checks |
| --- | --- | --- |
| `LIFO` | 2 threads, 3 nodes | refines `LIFOStack`; a node to be pushed is not marked as enqueued; the lock is released |
| `WaitQueue_lifo` | 2 threads, 3 nodes | refines `WaitQueue`; pushes before `consume` are accepted and those after its exchange refused |
| `ChaseLev` | 2 thieves, capacity 2, 5 pushes | refines `WorkStealingDeque`; all items are taken |
| `Tasks` | 2 workers, 3 tasks, 1 queue, 1 respawn, 1 wait, aggregates of 2 | no use after free, exact counts, a task in one place, dependences, quiescence, no leak, `wait` returns |
| `Multi` | 2 teams, 2 queues of capacity 1, 4 tasks, 1 respawn | a task in one place, quiescence, `wait` returns |
| `Threads` | 12 programs on pools of 3 to 6, 8 initialisations that fail, a graph of 3 rows | a returned fence means that all items ran exactly once; reductions and scans are exact; threads are back in the driver between calls; thieves see ranges of this kernel; teams stay together; graph rows run once and in order; calls return; the pool implements `GraphSpec` |
| `HostTeam` | 6 programs on pools of 2 to 4 | a leader is alone until it releases; every item once per team member; exact results; collectives give all members the same, right value; members do not lap each other; regions end |
| `MemoryPool` | 4 pools, 2 or 3 threads, 4 to 6 calls | blocks in use are disjoint and large enough; counts agree with blocks; null only if nothing fits; calls return |
| `Map` | 2 threads, 3 keys of which 2 collide, capacity 2 to 4, 3 calls, 2 host operations | linearizable to `LookupTable`; claimed indices are exactly the entries; calls and `rehash` return |
| `Multi_flush`, `Future_assign`, `Threads_team` | as below | disagreements |

**Bounds and why they are enough.** Three nodes are what a stale head needs: a
thread holds one, and the other two can be popped and pushed back in the other
order before it continues. A deque of capacity 2 with 5 pushes wraps around twice
and is full, has one item and is empty in all combinations with two thieves.
Three tasks allow two tasks and an aggregate over them, and a respawn behind
another task. Deques of capacity 1 overflow with the second task, and with four tasks a failed
list has two, or a block is used again while a flush is still to read it. Fans of the pool have up to three levels with six threads,
and nearly all programs go on with a second kernel or call, where a thread that
was left behind by the first shows. A range of 7 with chunks of 2 ends in a
partial chunk; teams of 2 on a pool of 5 leave a thread over. The memory pools
have two superblocks that hold two blocks of one byte or one of two, so that a
superblock is emptied and claimed for the other size, or one with four
blocks in two words of its bitset (`BitsPerInt` is 2). The map is full with two
entries or has four and two blocks of its bitset, which are searched in both
directions; `bounded_find_attempts` is 1, less than these blocks. All caps are named constants or fields
(`MaxPush`, `MaxTasks`, `MaxHost`, `MaxRespawns`, `MaxWaits`, `MaxVla`,
`MaxCalls`, `calls`, the programs).

**Deadlock** is checked in the runs of the lists, the deque and the schedulers;
the schedulers have an end of their own, `Ended`. The programs of `Threads` and
`HostTeam` and the bounded calls of `MemoryPool` and `Map` come to an end; there
`CallsReturn` and `RegionsEnd` say that nothing stops before.

**Fairness.** Weak fairness of each thread's own steps inside a call: threads of
the host back ends are preemptively scheduled. A thread in a waiting loop has a
step only while its condition holds; no strong fairness is assumed. Nothing is
assumed of compare-exchange, so no thread is promised to win a race: where calls are not
wait-free, liveness is either about the system (the lock is released, all items
are taken while the calls go on, `wait` returns) or rests on the bound on
the calls of the other threads (`MemoryPool`, `Map`). In the schedulers functors
return and a parallel region ends once its threads have left it; bounded respawns keep user code from running for
ever. `EverythingIsTaken` also assumes that the owner and the thieves of a deque
keep calling `pop` and `steal`, as the executor loop does. The copying done by `rehash`
goes on.

### Disagreements found

* `Future_assign`: copy assignment between two futures of the same task adds a
  reference that nobody drops (`Kokkos_Future.hpp:146`), so the task is never
  deallocated. The converting overload is right. The tests assert an allocation
  count of zero at the end.
* `Multi_flush`: `flush_failed_insertions` reads the link of a task it has just
  pushed (`Kokkos_MultipleTaskQueue.hpp:246`). Another team may have taken it by
  then, and completed and deallocated it, or respawned it and linked it into its
  own list. The comments call the list non-concurrent. The flush then goes on
  with the old word, with the null link of a later task in the same block (and
  loses the rest of the list), or along the other team's list. The properties of
  `Multi` are stated for behaviours in which this has not happened.
* `Threads_team`: `fence()` is documented to wait for all dispatched functors.
  With teams of three on a pool of six, `team_fan_out`
  (`Kokkos_ThreadsTeam.hpp:134`) releases entry 4 before entry 5; entry 4 goes on
  to the barrier of the pool, finds entry 5 still in `Rendezvous`, which there
  means arrival, and passes. The pool's function ends without entry 5, which
  then misses its part of the next kernel. In the programs of `Threads`
  each team is a subtree of the pool's fans.

Met while modelling, and not the subject of a run:

* A host spawn that does not fit its deque calls
  `handle_failed_ready_queue_insertion` without a team, against its
  `KOKKOS_EXPECTS` (`Kokkos_MultipleTaskQueue.hpp:520`). The model has the case
  (`no_team`) and ends there.
* `MemoryPool::allocate` counts only superblocks it claimed against
  `attempt_limit`; two threads that want different sizes can take the last
  empty superblock from each other for ever. `CallsReturn` of `MemoryPool` is
  about pools that are asked for one size.
* A dynamic team kernel with threads left over stops: they return before the
  barrier the others wait in (`Kokkos_ThreadsTeam.hpp:420`).
* `start()` directly after `wake()` can be lost, since `execute_sleep` reports
  `Inactive` before the driver does (`Kokkos_ThreadsExec.cpp:256`), and `fence()` or
  `finalize()` on a sleeping pool does not return. The programs sleep, wake and
  then finalize; `PoolIsQuiet` leaves the moment after `wake()` out.
* A thread that could not be bound may join without an entry
  (`Kokkos_ThreadsExec.cpp:146-154`). `initialize()` throws, for one entry is
  empty, but it does not wait for this thread before it clears the function, and the
  thread may call a null pointer. `CallsReturn` shows that no other thread does.
* `UnorderedMap::insert` may fail although there is room, when the list's growth
  resets the hint to a full block, and a copy made by `rehash` may fail in the same
  way; only `failed_insert()` tells. `ImplementsTable` promises that `rehash`
  keeps every entry unless one of these failed, and `IndicesAreExact` is about
  maps in which no insertion has failed. `clear()` leaves the cached size, so `size()` after it may be old.

## Proofs

All theorems hold for every value of the constants under the assumptions named.
Each rests on an inductive invariant, shown to hold initially and to be preserved
by every action (one lemma or step per action), and on the implication from it.
The longer modules name the prover of each step that is not Zenon's.
TLC finds each of these invariants to hold on a small instance of its module
(`DequeInv` with its quantifiers over the integers cut to the indices that occur,
`RInv` up to four rounds, `Rank` with ranks up to the number of tasks); they are not among the runs, since the proofs cover them.

* **`TaskPartsProofs`**, the objects that tasks are kept in and referred to by. It
  extends `LockBasedLIFO` and has instances of `SingleConsumeLIFO` and `BasicFuture`.
  * The ready queue (assumes `TagsAssumption`: the tags are distinct from
    each other, from null and from the nodes; `InQueueAssumption`). `LIFOIsSafe`:
    types, `LockIsExclusive`, `HeapIsStack`, `NodesAreOwned`,
    `PushedNodeIsNotEnqueued`. `LIFOImplementsStack`: refinement of `LIFOStack`.
    `IInv` adds what the locals of a thread in mid-call mean: at its
    compare-exchange it has linked its node to the head it remembers, and a node
    outside the list carries a link only while the operation that holds it is at
    work. A compare-exchange that succeeds then puts its node in front of exactly
    the current stack, even when the head was popped and pushed again meanwhile.
  * The wait queue (the same assumptions). `PushesRespectConsume`
    and `HeldNodesAreUnmarked`. The hard part of `QInv` is the shape of the
    list (`Chained`): the linked nodes are those the queue holds
    and `consume` has not detached, each is the successor of at most one of them,
    and the first is the successor of none.
  * Futures (finitely many variables; null is no task).
    `FuturesCountReferences`, for all operations but copy assignment between
    futures of one task, which is the disagreement above.
* **`ChaseLevDequeProofs`** (assumes `SizeAssumption`: the capacity is positive,
  the number of pushes a natural number). `DequeLosesNothing`: an accepted item is in the live part of
  the buffer until it is returned, and is returned at most once.
  `DequeIsLinearizable`: refinement of `WorkStealingDeque` under the mapping
  `Contents`. `DequeInv` says that the indices span at most the capacity, that
  the live slots hold different items, and that what a thread remembers is right
  if its compare-exchange of `m_top` is going to succeed (`Guesses`); `SlotsDiffer` gives that a
  push does not overwrite a live slot.
* **`WorkGraphProofs`** (assumes `GraphAssumption`: a finite graph, finitely
  many threads). `HintNeverPasses` and `CompletedMeansAllTaken`. `GraphInv`: for
  some c the first c entries are the taken ones, the begin hint plus the threads
  about to raise it is c, nobody looks beyond entry c, and each reserved entry is
  free and belongs to one thread. `RowsRunOnceInOrder`, for any graph, also with
  repeated edges or cycles. `RowsInv` adds that a pushed row is in one place
  (`OnePlace`), that `end_hint` counts the rows that have an entry, and that
  `count_queue` of a row is the number of entries of the graph that name it and
  are still to be counted down (`Uncounted`): a row is pushed when this is empty,
  so all rows before it are done, and it can be emptied only once.
* **`TaskInvariantProofs`**, **`TaskQueueProofs`** and **`SimpleTaskSchedulerProofs`**, each
  extending the one before: the invariant, what follows from it and the steps of the
  executor; the steps of the task queue; those of user code and the theorems (assume `CountsAssumption`,
  `BoundsAssumption`: the bounds are natural numbers, there is a ready queue;
  `ActorsAssumption`, `PoolAssumption`: a finite pool of at least one worker, and
  the host, which is not one of them). All six invariants of the run `Tasks`:
  `TasksAreMemorySafe`, `ReferencesAreCounted`, `TasksAreInOnePlace`,
  `PredecessorsComeFirst`, `DoneIsQuiescent` and `NothingIsLeft`, for any number
  of workers, priorities, tasks, respawns and calls of `wait()` and for any user
  code. They need each other, so there is one invariant, `IInv`, of nine parts:
  * `TypeOK`, and `Shape`: what a stack of frames may look like.
  * `Spots`: a task that was created and is not complete is in exactly one ready
    queue, wait queue or frame. It makes every action the only one at work on its task.
  * `Known`: what the fields of a task and the locals of a frame mean. A task that was
    just spawned has no reference of its own to its predecessor; `Kept` says
    that the functor that called `spawn` is still below it on the stack and holds a future.
  * `Refs`: reference counts are exact, for tasks that were never
    created too, and one thread at most completes a task.
  * `AfterInv`: a predecessor a task was told to wait for is complete or the task
    still knows of it. Wait queues are consumed after the flag is set, so nothing is forgotten.
  * `Count`: the ready count is the number of tasks in ready queues, of tasks about
    to be pushed and of workers inside a task.
  * `Rank`: the waiting tasks form no cycle. User code obtains a future only
    from a call that returns or from the functor that created it, and a task may wait only for what
    its user code has a future of, so there is a numbering that decreases along futures,
    predecessors, arrays of aggregates and wait queues.
  * `Exec`: a worker that has left its loop saw a ready count of 0, and it stays 0.

  Quiescence needs `Count` and `Rank` together. A ready count of 0 says that no
  task is ready, being pushed or run; if some task were not complete, one of least
  rank would, by `Spots`, be in the wait queue of another task that is not
  complete and has a smaller rank. With all tasks complete and the host's futures
  gone `Refs` leaves no reference, so `NothingIsLeft`.
  `IInv` carries, as `SetFacts`, what the proofs use of finite sets. These are
  theorems of the library and hold in every state; keeping the library itself out of
  scope until the end of the last module keeps the provers' problems small.
* **`MemoryPoolProofs`** (assumes `BitsAssumption`: a word has a power of two of
  bits; `PoolsAssumption`: finitely many threads, positive sizes and limits).
  `BlocksNeverOverlap`, `UsageIsCounted`, `NullOnlyWhenFull`, and `NoCallAborts`: a
  block that `allocate` handed out can be given back. `IInv` has six parts:
  * `TypeOK`, and `Locals`: the superblock, the state and the bit a thread has in
    mind exist, and the state is of blocks at least as large as those it wants.
  * `Counts`: the count of a superblock is that of its bits, of the threads that
    have counted and not yet set their bit or backed out, and of those that have
    cleared theirs and not yet discounted. Without those that will back out it never
    exceeds the number of blocks, so a thread that goes on finds a bit.
  * `Headers`: a superblock keeps its state while a caller holds a block of it or a thread sets or
    clears a bit. It may change only when the count is 0, and `Counts` and `Bits` then leave no user.
  * `Bits`: each bit that is set belongs to one block or to one thread about to clear it.
  * `Alone`: what the search of an undisturbed thread has seen is still so. `Candidates`
    shows that it visits every superblock.

  That a thread whose bit is taken looks next at a bit of the same superblock
  (`NextBitInRange`) has two cases: a superblock of whole words, and one with fewer blocks than
  a word has bits, where the word must have a zero among the first. The provers know nothing of powers of
  two; the proof takes them as numbers of subsets.
* **`HostBarrierProofs`** (any finite set of at least two threads, any leader per
  round). `RendezvousLeaderIsAlone`, for threads that call one barrier again
  and again, and pools that are organised anew in between. `RInv` places each
  thread in the current round or, once it has arrived, in the next, and ties the three counters
  to the set of threads that have arrived.

Only model-checked: liveness (fairness and `ENABLED` are out of the prover's
reach); the refinement of `WaitQueue`, whose mapping walks a list; the scheduler
with a queue for each team, the Threads kernels, the host teams and the map; that
calls of the memory pool return. Of these the kernels and the teams run finite
programs that are constants of the model, so their properties quantify over folds
and recursive values whose meaning needs induction over data.

## Not modelled

* **Parts of modelled components.** Threads: `all_reduce`, `scan_large`,
  `in_parallel`, printing. OpenMP: nested regions, `partition_master`, the
  closure form of `team_broadcast`, the OpenMP copy of the work graph loop.
  Multidimensional ranges on both. `ConcurrentBitset`: `acquire_bounded`,
  which only the Cuda back end calls, and `set`. `UnorderedMap`: deep copies, const maps,
  histogram. `Bitset`: `find_any_set_near`. Deque: growable and non-owning
  buffers, overflow of the 32-bit indices.
* **Deprecated task queues** (`TaskQueue`, `TaskQueueMultiple`): replaced by the
  modelled ones. The latter reads the ready counts of its teams one after the other
  (`Kokkos_TaskQueueMultiple.hpp:153`) while tasks are stolen between them, so that
  all zeros need not mean quiescence.
* **Shared allocation records**: the list of records exists in debug builds only,
  and the counts follow the protocol of `BasicFuture`.
* **`DualView`, initialisation and finalisation**: short sequential protocols
  within the reach of tests.
* **Views, layouts, policies, atomics, other containers, sorting**: template code,
  address arithmetic and bulk kernels, with no control to explore. This is most
  of the repository's text, so the models cover a small share of its lines.
* **Device back ends and HPX**: they run under execution models that are not in
  the repository.
* **Profiling, hwloc, error reporting, generated instantiations**: external
  libraries, input and output, generated code.
