# A TLA+ development of the garbage collector

This directory specifies the multithreaded conservative mark & sweep collector
of this repository: models of its parts that TLC checks on small instances, and
theorems about them that TLAPS proves for every value of the constants.
`PROJECT.json` lists the runs, the properties, the mutants that show that each
property can fail, and, under `map`, the lines of code that each definition
stands for.

## 1. The system

A program is linked with `libgc.so`. Its threads call `gc_malloc()`,
`gc_calloc()` and `gc_realloc()`; nothing is ever freed by hand. When an
allocation finds no room, the caller wakes the *service thread*, which stops all
other threads with a signal, marks what their stacks, `.data` and `.bss` reach,
sweeps the rest into the free lists and lets the threads go on. The caller then
tries once more.

```
 gc.c  gc_malloc ──rdlock──▶ allocator.c ──▶ small-allocator.c  (segregated fits)
   │ NULL                          └──▶ large-allocator.c  (treap + BST)
   ▼
 mt-safety.c call_service_thread ──signal_barrier──▶ service_thread_routine
                                                       │ wrlock allocation_lock
   SIGUSR1 ◀── stop-the-world.c stop_the_world ◀───────┤
   handler: clear_cache, barrier, wait                 ├─ marking.c mark ─▶ stack.c
   ◀────────── start_the_world (broadcast) ◀───────────┤
                                                       └─ sweep.c sweep
```

### Components

| component | state | operations | what makes it correct |
|---|---|---|---|
| stopping the world (`mt-safety/stop-the-world.c`) | `barrier`, `is_world_started`, its mutex and condition variable | `handler`, `stop_the_world`, `start_the_world` | nobody runs during mark and sweep; every stopped thread goes on afterwards |
| service thread (`mt-safety/mt-safety.c`) | `is_gc_called`, `service_thrd_call_lock`, `signal_delivery_lock`, `signal_barrier` | `call_service_thread`, `service_thread_routine` | a retry follows a collection; the handler never interrupts an allocation; no deadlock |
| thread registry (`mt-safety/threads-storage.c`, `__wrap_pthread_create`) | list of cells, `thread_count`, `thread_creation_lock`, traversal cursor | create and destroy a cell, count, traverse | what is signalled, counted and scanned is exactly the set of running threads |
| allocation lock and dispatch (`allocator/allocator.c`) | `allocation_lock` | `allocate_new_object`, `lock_allocation` | allocations and collections exclude each other |
| small allocator (`allocator/small-allocator.c`) | empty list, list per size, cache per thread, header of each block (size, slider, bitmap) | `allocate_small_object`, `fill_all_bitmaps_with_zeros`, `clear_cache` | blocks have one owner; no slot is handed out twice or lost |
| bitmaps (`allocator/bitmap.c`) | bitmap of each block | get, set, is empty | a lost update does no harm |
| large allocator (`allocator/large-allocator.c`, `treap.c`, `binary-search-tree.c`) | pool of TreeNodes, treap of free blocks, search tree of occupied ones | `allocate_large_object`, `cleanup_bst` | the trees partition the heap; lookups are exact; nodes are conserved |
| object lookup (`allocator/object.c`) | – | `get_object`, `get_object_size`, `mark_object`, `is_marked` | an inner pointer resolves to its object, anything else to none |
| marker (`marker/marking.c`, `stack.c`) | mark stack, position in the root segments | `mark`, `segment_traverse`, `closure`, `scan` | the marked objects are the reachable ones; it ends |
| sweeper (`sweeper/sweep.c`) | – | `sweep_small_heap`, `sweep_large_heap` | unmarked memory becomes free, marked memory does not |
| public API (`gc.c`, `memops/gc_mem.c`) | – | `gc_malloc`, `gc_calloc`, `gc_realloc` | at most one retry; copies stay inside both objects |
| logging (`logging/log.c`), debug helpers (`allocator/utils.c`) | counters, a file | – | nothing depends on them |

### What is hard about it

Signals that interrupt a thread anywhere; five kinds of locks and barriers taken
in different orders by callers and service thread; threads that are created and
end while they are counted and signalled; bitmaps that are both mark bits and the
record of what is free, and that are cleared without a lock by any allocation
that fails; caches of blocks that outlive lists; tree nodes that move between two
trees with their links, and a search in those trees that takes no lock.
`PROJECT.json` lists these hazards, each at its line, with the properties that
watch it or the reason why none does.

## 2. The modules

```
 Collection ◀─implements─ StopTheWorld                Addresses

      Reachability ◀── Marking, ThreadsStorage, Collector

      SmallAllocator ◀─extends─ Collector

      LargeHeap ◀─implements─ LargeAllocator
          ▲
          └─extends─ Realloc
```

`Collector` is `SmallAllocator` with a program, `Realloc` a thread that uses
`LargeHeap`: their steps conjoin those of what they extend. Everything that speaks
of reachable objects or cells uses `Reachability` (the least set that holds the roots and is closed under the
edges). The modules with theorems are named `...Proofs`, those that give constants
their values for TLC `MC...`.

### `StopTheWorld` and `Collection`

A fixed set of registered threads and the service thread. `pc[t]` is the place
of a thread in `gc_malloc()` and `call_service_thread()`; `handler[t]` is its
place in the signal handler, which runs on top of it: a thread takes a step of
`gc_malloc()` only while `handler[t] = "none"`. Signals do not queue (`pending`
is a set) and are blocked in the handler. `spc` walks through
`service_thread_routine()`. Each lock is its holder; each step between two
operations on shared state is an action. `signal_barrier` has two parties and is
one joint step, `Meet`; the last to reach `barrier` releases all. What is under
`is_world_started_lock` is one step because nobody keeps that mutex. The heap is
a number of allocations that still succeed (`Room` bounds it); an allocation
may also fail while there is room, as one for another size would.
`swept` is history: the threads whose last failed attempt was followed by a sweep.
`early` is history: the threads whose `pthread_cond_wait()` returned without a
broadcast.

`Collection` is what all of this amounts to for a caller: a call that finds no
memory tries once more, after a sweep that came after its first attempt, and
nothing is swept unless such a call waits. `CollectsOnDemand` is the refinement;
the state of a call is read off `pc` and `again` (`CallState`).

### `ThreadsStorage`

The registry with its links (`head`, `next`, `prev`), `thread_count` and its two
locks, the threads that create others (`__wrap_pthread_create()`), return
(`wrap_user_routine()`) or leave by `pthread_exit()`, and the service thread that
counts, signals and scans them. A cell bears the name of its thread, and a name is
used once. `destroy_cell()` is three steps, count, unlink and free, because the
traversals of the service thread take no lock. A thread in the handler is in
`stopped`; what it does there is the subject of `StopTheWorld`. The write to a
cell that its thread has freed already, and a traversal that reads a freed cell,
set `undefined`, where the model ends. `listed` and `counted` are history.

### `SmallAllocator`

`allocate_small_object()` at the grain of its locks: taking the head of a list
is one step (spin lock), everything else is a step of its own. `pos[t]`, `byte[t]`
are the local variables of the scan; `set_bit_by_address()` is three steps
(compare, load, store), so that the zeroing by `fill_all_bitmaps_with_zeros()`
of another thread can fall between them. Addresses are slot numbers: slot `i` of
a block is at `BLOCK_HEADER_SIZE + i * aligned size`, `Slots[s]` is how many fit.
A size in `TailSizes` leaves a rest at the end of the block, which `get_object()`
resolves to a slot behind the last one: its bit can be marked. The lists are
sets, for the code takes whatever is at the head and the order is that of the
sweep. A collection is one step, enabled when nobody is in
`allocate_new_object()` (the write lock) and some failed caller has asked for
it: it empties all caches (the handler), adds any set of mark bits, and sweeps.
`inUse` is history: slots found marked by the last sweep, or handed out since;
`zeroed`: blocks whose bits a failing allocation has cleared since that sweep.

### `Marking`

`mark()` in the service thread while the world is stopped. A heap is a relation
on objects; a root segment is the set of objects its words resolve to. One
iteration of each loop is a step. `stale` is the set of bits already set when
`mark()` begins: `mark_and_push()` does nothing for such an object, so what it
points to may not be found. `MarkExact` says which bits are set at the end.
`Work` bounds the iterations to come: it counts the segments, the stack, what is
left of the object in hand, and the objects without a bit, and `WorkFalls` says
that every iteration lowers it.

### `Collector`

The small allocator with a program: `roots` and `refs` are the references the
program has written and not overwritten, `Live` what it can reach through them.
It stores, loads, overwrites and forgets references in any order (at most
`Fields` in an object). A collection is one step and marks what `MarkExact` says, from the roots and
any number of stray words (conservative marking: dead stack slots, integers, what
is left in a slot from its last object), and from objects along the references of
those whose bit was clear. `cutOff` records that a bit set beforehand has stopped
`mark()` at an object that holds references.

### `LargeAllocator`

The TreeNodes with their `left` and `right` links in one record `mem`, and the
recursive functions of `treap.c` and `binary-search-tree.c` as operators on that
record, one for one. An allocation is a step (`global_lock`), a collection that
keeps any subset of the objects is another. `innerTaken` and `mem.inner` record
that one of two defects has struck (section 5); `mem.hung` that a recursion began
on links with a cycle or met a link gone NULL, where the model ends. The test
is conservative (a cycle might not be on the path taken), so no property is
claimed of it, and the runs say CHECK_DEADLOCK FALSE.

### `LargeHeap`

What these functions amount to, without links: the block of each node (`addr`,
`size`), which nodes are `used` and which in the `pool`, and which lie below which.
In the treap the blocks alone determine that (`BelowInTreap`: nothing larger in
between); in the occupied tree and in the pool it depends on the order of
insertions and is the variable `above`. A child link leads to the topmost node
below on that side (`Left`, `Right`), a search goes from link to link (`Onward`),
and `insert_bst()` puts a node below those that a search for its address passes
(`Passed`). A sweep makes of all freed units and free blocks the runs that cannot be
extended (`Run`), and keeps for each run one node, that of the block released last.

Two steps of the code are defects. `remove_treap()` leaves a node that it takes from
the treap its children, and `insert_bst()` hangs it with them into the occupied tree
(`TakesInner`: the root that fits has children). `remove_bst()` of a node with two
children gives back another node, with a block in use (`RemovesInner`: of the
objects kept, some lie below a node that is swept on either side). Such a step sets
`sound` to FALSE and leaves the heap open: what the trees are worth afterwards
nobody promises, and the specification says nothing of it. `Take`, `Cut`, `Refuse`
and `CollectKeeping` are the steps that are not defects. `sound` is a premise of each
property of the heap, and of each theorem.

`LinksExact` says that the links of `LargeAllocator` are those that `LargeHeap` calls
for, and `ImplementsHeap` that its steps are steps of `LargeHeap` (`HeapSpec`, with
`sound <- Sound`, the negation of `innerTaken` and `mem.inner`): until a defect
strikes each one allocates or sweeps as said, and a defect strikes only where
`TakesInner` or `RemovesInner` allows it. After that it claims nothing.

### `Realloc`

`gc_realloc()` of a large object by one thread, on top of `LargeHeap`. Its two
searches of the occupied tree, by inner address in `get_object()` and by first
address in `get_object_size()`, visit one node per step, with no lock: other threads
allocate between the visits, and a collection may run there (it stops the thread,
keeps the old and the new object, which are on its stack, and lets it go on with
the node it had, wherever that lies by then). `overtaken` is history: a collection
ran during the search. `gc_malloc()` in between has its second attempt. An
allocation of any thread and a collection can be one of the two defects: that step
is `Strike`, and the model ends there. Every property supposes `sound`, for in the
code a search that stands at a node of such a tree can end at the wrong block.

### `Addresses`

The arithmetic of the allocators, with the constants of the headers: rounding up
to 8, the block of an address, `get_object()` inside a block, the byte and the bit
of a slot, the product in `gc_calloc()`, the bytes that `gc_memset()` and
`gc_memcpy()` write. It has no state and no run; its theorems are for all values.

## 3. The runs

| run | instance | what it shows |
|---|---|---|
| `world` | 2 threads, spurious wakeups, fair | `TypeOK`, `WorldStopped`, `HandlerOutsideAllocation`, `RetryAfterCollection`, `NoDeadlock`, `CollectsOnDemand`; as long as no thread is overtaken `CollectionCompletes`, `SomeCallReturns` |
| `world_restart` | 2 threads, fair | refutes `ThreadsGoOn` |
| `threads` | main and 2 threads, fair | `TypeOK`, `RegistryExact`, `KnownTargets`, `EveryoneStopped`, `ScanIsSafe`, `EveryoneScanned`, `StopGetsOn`; `StopReturns` |
| `threads_exit` | main and 1 thread, fair | refutes `StopAlwaysReturns` |
| `small` | 2 threads, 2 blocks, 2 sizes (2 slots and 1), fair | `TypeOK`, `NoSharing`, `InsideBlock`, `FreshUnlessZeroed`, `NoSlotLost`, `AttemptEnds` |
| `small_fresh_two_classes` | 1 thread, 2 blocks, 2 sizes | refutes `FreshMemory` |
| `marking` | all heaps of 3 objects, 2 segments, any stale bits, fair | `TypeOK`, `MarkExact`, `PushedOnce`, `WorkFalls`, `MarkTerminates` |
| `collector` | 1 thread, 1 block of 3 slots and a rest, 1 field | `CollectorTypeOK`, `Intact` |
| `collector_live` | 1 thread, 1 block of 2 slots, 1 field | refutes `IntactWhateverIsSet` |
| `large_trees` | 6 units, 4 nodes, requests of 1 to 3 | until a defect strikes: `TypeOK`, `LinksExact`, `LookupExact`, `ImplementsHeap` |
| `large_fresh_sweep` | 3 units, 5 nodes | refutes `FreshAfterSweep` |
| `realloc` | 5 units, 3 nodes, requests of 1 to 3, fair | until a defect strikes: `ReallocTypeOK`, `HeapPartitioned`, `FirstFitSuffices`, `LookupFinds`, `SearchFinds`, `CopyStaysInside`, `SearchEnds` |

**Bounds.** Two threads are the least with which one caller meets a collection that
another one asked for; that more of them do not matter for safety is proved.
`Room = 1` lets allocations succeed and fail in every order; the sweep chooses the
room anew. Main and two threads give a list of three cells, where the head, an
inner cell and the last one can go, a thread that creates a thread that is counted,
signalled or freed before its creator goes on, and two threads inside the registry
at a time. Two blocks and two slots give a full block, a half-full one, an
exchange of blocks between threads and a change of class. Three objects give
chains, sharing, self-loops and cycles of every shape that the loops of
`marking.c` tell apart. In `collector`, three slots with a rest let a set
bit behind the slider, an object that only another one refers to, and a marked word
into the rest come together; more blocks and threads are the subject
of `small` and of the theorems. In `large_trees` six units
and four nodes give search trees of three levels, treaps of two, blocks that are
joined with one neighbour and with two, and an empty pool; beyond a defect of the
trees nothing is claimed, so the run does not explore further (`CONSTRAINT Sound`).
With five nodes and five units, where treaps have three levels (46,440 states), its
properties hold as well, in a run that takes longer than the others.
`realloc` needs a tree with the object, the new one and a third, which three
nodes give, and room for blocks of three sizes, so that the root of the treap has
children and both defects strike; that more nodes and units do not matter is
proved. `marking` explores, of
the heaps that differ in the names of objects only, some representatives
(`OrderedInit`), which is sound for liveness too. No run uses symmetry.

**Deadlock** is checked in the runs of `SmallAllocator` and `Collector`. The other
cfgs switch it off: `mark()` ends; `Realloc` ends where a defect strikes; the threads of `StopTheWorld` and
`ThreadsStorage` really may stop for ever (`world_restart`, `threads_exit`), and
the model of the latter ends with `undefined`; `LargeAllocator` ends where a
recursion of the code need not.

**Fairness.** `StopTheWorld` assumes weak fairness of each thread's steps inside
`gc_malloc()`, of its steps in the handler (the kernel delivers signals), and of
the service thread; nothing obliges a program to call `gc_malloc()`. Weak
fairness suffices for the claims because they are of the system as a whole: the
call of one particular thread can starve, when it leaves the handler each time
only while the next collection already holds the write lock, so only
`SomeCallReturns` is claimed. `ThreadsStorage` assumes the same of its library
code, handlers and a stop that has begun, and nothing of the user's code (creating
a thread, returning, `pthread_exit()`, asking for a collection). `SmallAllocator`
assumes that a thread inside `allocate_new_object()` runs: it is not stopped there
(`HandlerOutsideAllocation`) and spin locks are held for a few instructions.
`Marking` is one thread's straight-line code. `Realloc` assumes that the searching
thread gets on.

The liveness properties have premises where they are false without:
`NeverOvertaken` in `StopTheWorld` (`world_restart` refutes the claim without it),
`[]~Missed` in `ThreadsStorage` (`threads_exit`), and in `Realloc` that sweeps do
not free objects for ever (a sweep can move the node in hand back to a place that
the search has passed) and that no defect strikes.

## 4. The proofs

TLAPS checks, for any number of threads, blocks, slots, sizes, objects, fields and
root segments. The ASSUMEs in the modules are all that is supposed of the
constants: apart from their types, that there are finitely many threads, at least
one in `StopTheWorld` (`__add_main_thread_to_storage()` registers the main thread), and finitely many
blocks, sizes and objects (the heap is finite).

* `StopTheWorldProofs`. `IInv` is TypeOK with six parts: `LockInv` (which `pc`
  and `spc` hold which lock), `BarrierInv` (during a stop a thread is still to be
  signalled, or signalled, or on its way to `barrier`, or there; otherwise
  nobody is), `StartedInv` (`is_world_started` by `spc`), `CallInv`
  (`is_gc_called` is set from the request until it is cleared under the mutex),
  `SweptInv` (a caller behind the handshake has a sweep before it or the write
  lock closed to it until there is one) and `HandlerOutsideAllocation` itself.
  `WorldStopped` alone is not inductive: it needs that the barrier opens only
  when all threads and the service thread are there (`FullMeansAll`, by
  cardinalities) and that nobody has passed the flag since.
  Theorems: `TheWorldIsStopped`, `HandlersStayOutside`, `RetriesFollowSweeps`,
  `WorldTypes`, and `OnDemand`: each step is one of `Collection` or a stutter.
  `NobodyDeadlocks` needs `SleepInv` besides: a thread sleeps on the condition
  variable during a stop only (with `spc` up to the broadcast), and `barrier` never
  has everybody at it and keeps them. Outside a stop the thread that holds a lock is not
  one of those that wait for another lock, in whatever order they are taken.
* `ThreadsStorageProofs`. The list is a chain in both directions (`Chain`) that
  every traversal from `head` exhausts (`Whole`: a set that the links do not leave
  holds it all); links lead from newer cells to older ones (`Order`: a rank that
  falls along them), so that no thread is signalled twice; `Nodes` and `Listing` say
  whose cell is where at each place of the code; `Stopping` and `Traversed` what a
  stop knows of the threads that it has counted and how far the scan has got. That
  the barrier opens with everybody behind it is a count again: as many have arrived
  as were counted, and only counted threads arrive. Theorems: `TheListIsWhole`,
  `TargetsAreKnown`, `NobodyRuns`, `TheScanIsSafe`, `EveryStackIsScanned`,
  `RegistryTypes`. `TheStopGetsOn` says where `stop_the_world()` can be kept: it waits
  only as long as a signal is under way or a thread is about to leave
  `destroy_cell()`. That takes `Signalled`: a counted thread has been signalled, or
  lies ahead of the traversal, in every set that the links do not leave, or has
  taken itself off the list.
* `SmallAllocatorProofs`. `IInv` is TypeOK with `ListInv` (the lists are disjoint
  and a listed block has the list's size), `CacheInv` (a cached block has the
  size it is cached for), `OwnersInv` (`NoSharing`, with the block in hand) and
  `LocalInv` (what `pc` says of `curr`, `pos` and the header). Theorems:
  `SmallAllocatorNoSharing`, `SmallAllocatorInsideBlock`, `SmallAllocatorTypes`.
  `AttemptsGetOn`: each step of a thread in `allocate_small_object()` lowers
  `StepsLeft`, a natural number that counts the slots ahead, the blocks of the list of
  its size and what is left of `fill_all_bitmaps_with_zeros()`, and no other thread
  raises it. The search stays in the list it began with because nothing but a sweep
  adds to a list, and none runs meanwhile.
* `SmallAllocatorSlotProofs`, on top of it: `FreshInv` (a slot in use of a block
  that can still be found is marked, or slider or scan are past it, unless the
  block was zeroed) needs `ByteInv` (what a thread has loaded of a bitmap that
  nobody zeroes is still true) and `CheckInv` (a cached block of the size asked
  for is the one being scanned); `LostInv` needs `UsedInv` (only slots in use are
  passed over, even when a stale byte is stored back) and `FillInv`. Theorems:
  `SlotsAreFresh`, `NoSlotIsLost`.
* `MarkingProofs`. `IInv` says that each marked object is stale or reached; that
  a marked object not stale is on the stack, being scanned, or has all its
  references marked; and that finished segments are marked. At the end that
  makes the marked set closed, and `ReachedLeast` says that the reached objects
  are the least closed set. Theorems: `MarkingExact`, `MarkingPushedOnce`,
  `MarkingTypes`.
  `MarkingGetsOn`: every iteration lowers `Work`, a natural number that begins at
  (objects + segments + 1) * (objects + 1) at most. A push raises the stack by one, but takes an
  object from those without a bit.
* `CollectorProofs`. By its shape each step of the composition is a step of
  `SmallAllocator` or changes nothing of it (a lemma), so `IInv` and `SlotInv` hold
  of it. What the program can get at is in use (`HeapInv`): no operation of
  the program makes more reachable than there was, an object that is handed out is
  in use, and a collection marks all that is reachable unless a set bit has cut it
  off. With `SlotsAreFresh` that is `ReachableMemoryIsKept`.
* `ReallocProofs`, first of `LargeHeap`. The inductive invariant is `SoundHeap`: as
  long as `sound`, `HeapInv`; a step that is a defect ends the premise and needs no
  proof, and every other step is to preserve `HeapInv`. `HeapInv` is `Types` with `Shape` (a node
  holds a block of the heap, or none in the pool), `Partition` (the blocks make up
  the heap), `Ordered` (`above` is a strict order on the occupied nodes and one on
  the pool) and `SearchTree`: what lies below a node has no gaps, and two nodes not
  below one another have a node above both between them. That a search leads to its
  block (`LookupLeads`) is not inductive; it follows from `SearchTree`, for the topmost node of a set without
  gaps is above all of it (`TopmostAbove`). An insertion keeps that because the
  nodes it passes are one below another (`InsertTree`). A sweep keeps the partition
  because a run is an interval (`RunIs`), two runs that meet are one (`RunsMeet`),
  and each has exactly one node left; it keeps `SearchTree` because a node removed is
  never the one between two that stay (`OneSided`: otherwise the step is a defect). That the root of the treap is
  its largest block (`TreapRoot`) needs that equal blocks lie apart. Theorems, for
  any number of nodes, heap size and set of requests, and until a defect strikes:
  `HeapInvariant`, `HeapTypes`, `HeapKeepsPartitioned`, `RootSuffices`, and, as
  nodes below one another cannot go round (`LowestExists`), `LookupsFind`: whatever
  address is looked up, the search ends at its block, or at NULL if there is none.
  `InsertionsSetOneLink` brings the model closer to the links of the code: `above`
  gains a pair for each node that the insertion passes, and yet one link changes, the
  NULL one at which a search for the new address ends (`GoesOn`, `FallsOff`). That is
  why a search without a lock is not disturbed by insertions; of an insertion that is
  a defect it says nothing, and that one does disturb it.
  Then of `Realloc`, with `SoundRealloc` in the same form. `ReallocInv` adds that the blocks the thread holds are
  occupied and its key lies in the old one (`BlocksHeld`), and that the node in hand
  is the object's or above it unless a collection has intervened (`OnPath`): an
  insertion adds nodes below the path and takes none off it. Whatever node a search
  ends at, freed or not, is the object's, for blocks are apart (`FoundIsOld`).
  Theorems: `ReallocInvariant`, `ReallocSearchFinds`, `ReallocCopyStaysInside`,
  `ReallocTypes` and `ReallocSearchFalls`: each visit lowers `Ahead`, which is at most
  (nodes + 1) * (nodes + 1), and insertions do not raise it, because each uses up a
  node; a sweep that frees nothing changes nothing (`IdleSweep`), and one that frees
  something may start the search afresh, in the pool even.
* `AddressesProofs`. For every address and every small size: `get_object()`
  returns the start of the slot (`LookupFindsTheObject`), of a slot of the block at
  any rate (`LookupFindsASlot`), whose bit is in the bitmap (`BitsLieInTheBitmap`)
  and its own (`BitsAreApart`); `CallocDoesNotWrap` for every width of `size_t`;
  `ReallocStaysInItsSlot` for sizes that do not shrink.

**Only model-checked.** Liveness (fairness and ENABLED are beyond TLAPS here):
`CollectionCompletes`, `SomeCallReturns`, `StopReturns`, `AttemptEnds`,
`MarkTerminates`, `SearchEnds`. What is proved about these is the part that does not
speak of fairness: `NobodyDeadlocks` and `TheStopGetsOn` (somebody can get on), and
`AttemptsGetOn`, `MarkingGetsOn` and `ReallocSearchFalls` (whoever gets on comes to an
end). Of the formulas proved, `AttemptFalls`, `SearchFalls` and `SetsOneLink` are in
no cfg: TLC finds them true on the instances of the runs `small` and `realloc`. And `LargeAllocator`, whose RECURSIVE operators on
linked nodes the provers cannot unfold: `TypeOK`, `LinksExact`, `LookupExact` and
`ImplementsHeap`. The theorems on `LargeHeap` therefore reach the code by way of a
refinement that is checked for one small heap only, and no further than the first
of the two defects. An allocation whose root has children is one, so they hold of
the executions in which each block was cut from a treap of a single block.

## 5. Where the code disagrees with what it promises

* **A thread may never be restarted** (`world_restart`). It leaves the barrier,
  the service thread marks, sweeps, starts the world, answers another caller and
  begins the next collection, which resets `is_world_started`; only then does
  the thread look at it (stop-the-world.c, 27) and go to sleep. The next barrier
  waits for it, and it waits for a broadcast behind that barrier.
* **A thread that ends can stop everything** (`threads_exit`). stop-the-world.c, 51
  counts the threads, 57-59 signal them. A thread that is counted and destroys its
  cell before its signal comes never reaches the barrier, which is for one thread
  too many. One that leaves by `pthread_exit()` never destroys its cell at all.
* **Memory in use is handed out again when the heap is full**
  (`small_fresh_two_classes`). An allocation of one size that fails after the
  collection has zeroed the bitmaps of all lists (small-allocator.c, 170), and no
  collection follows it: blocks of another size now look empty.
* **Reachable memory is handed out again after a large allocation**
  (`collector_live`). The bits of slots behind the slider stay set after a
  collection. The next one finds them zeroed only if it was a failing small
  allocation that asked for it; if it was a large one, `mark_and_push()` passes by
  the objects in those slots (marking.c, 37) and does not find what they refer to.
* **Sweeping a large object can free its neighbour** (`large_fresh_sweep`).
  binary-search-tree.c, 67-73: a node with two children receives the block of its
  successor, and the successor's node, with that same block still in it, goes to
  the treap.

Met on the way, and the reason for a condition in a property:

* `pthread_cond_wait()` may return by itself, and the wait at stop-the-world.c,
  27-29 is an `if`, not a loop: `WorldStopped` excepts the threads in `early`.
* treap.c, 112-115 leaves `left` and `right` of a removed node, and
  large-allocator.c, 126 and 142 insert it into the occupied tree as it is, with
  its free children: the properties of `LargeAllocator` end there (`innerTaken`),
  and so do those of `LargeHeap` and `Realloc` (`TakesInner` ends `sound`).
* A sweep that overtakes the search of `gc_realloc()` can hide its object, which
  ends in NULL or in the failed assertion of object.c, 33: `SearchFinds` excepts it.
* `gc_realloc()` to a smaller size copies the old size (gc.c, 50):
  `CopyStaysInside` and `ReallocStaysInItsSlot` suppose that the size does not
  shrink.
* A thread may write `thread_node->thread` into a cell that the new thread has freed
  (mt-safety.c, 112): `undefined` in `ThreadsStorage`.

## 6. Not modelled

* Logging: nothing reads it, and the result of `check_the_space()` is ignored.
  Debug helpers: printing of bitmaps, checks of return codes.
* Constructors and destructors. They run before and after the threads of the
  program, in an order that the loader decides; each `Init` is the state they leave.
  That the destructor of mt-safety.c may meet a caller at `signal_barrier`, or a
  collection find the heap unmapped, therefore stays a hazard without a property.
* The locks inside the C library: `resize()` of the mark stack and
  `pthread_getattr_np()` allocate while a stopped thread may be inside `malloc()`.
  Whether that blocks depends on the allocator of the C library, not on this code.
* References that a program keeps where `mark()` does not look: the argument of a
  thread that has not begun, the result of one that has ended, thread-local storage
  outside of the stacks, memory from `malloc()`.
* Starvation of a single caller at `allocation_lock`: the rwlock gives no order.
* Which bytes `gc_memset()` and `gc_memcpy()` write (only how many), and the words
  of an object one by one: marking is conservative, so any word may look like any
  address.
* The test programs, which are read for what they say of the library.
