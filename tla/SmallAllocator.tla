---------------------------- MODULE SmallAllocator ----------------------------
(***************************************************************************)
(* The small-object allocator (allocator/small-allocator.c), as the threads *)
(* of a program use it through gc_malloc(), together with what a collection *)
(* does to it: clear_cache() in every stopped thread, the mark bits, and    *)
(* sweep_small_heap().                                                      *)
(*                                                                          *)
(* Objects of a block are numbered: slot i of a block of size class s is at *)
(* BLOCK_HEADER_SIZE + i * s rounded up to 8; the slider is the number of   *)
(* the next slot to try.  The lists of nodes are sets: which node is at     *)
(* the head depends on the order of the sweep only.  A collection is one    *)
(* step: lock_allocation() keeps it out of allocate_new_object(), and the   *)
(* threads it finds elsewhere are stopped.                                  *)
(***************************************************************************)
EXTENDS Naturals, FiniteSets

CONSTANTS
  Threads,    \* registered threads
  Blocks,     \* blocks of the small heap, NODES_LIST
  Sizes,      \* requested sizes, the indices of SEGREG_LIST and nodes_cache
  Slots,      \* Slots[s]: objects of size s that fit in a block
  TailSizes,  \* sizes that leave a rest at the end of a block
  NoBlock,    \* the null Node*
  NoSize      \* object size 0 in the header of an unused block

ASSUME SlotsAssumption == Slots \in [Sizes -> Nat \ {0}]
ASSUME TailAssumption == TailSizes \subseteq Sizes
ASSUME FiniteAssumption == IsFiniteSet(Blocks) /\ IsFiniteSet(Sizes)
ASSUME NullAssumption == NoBlock \notin Blocks /\ NoSize \notin Sizes

VARIABLES
  emptyList,   \* EMPTY_LIST_HEAD
  segreg,      \* SEGREG_LIST
  cache,       \* nodes_cache of every thread
  objSize,     \* block header: object size
  slider,      \* block header: slider position
  bits,        \* block header: slots whose mark bit is set
  pc,          \* where a thread is in gc_malloc()
  req,         \* object_size of its request
  curr,        \* curr_entry
  pos,         \* slider_position
  checking,    \* is_checking_cache
  byte,        \* bitmap byte loaded by set_bit_by_address()
  fillSizes,   \* lists fill_all_bitmaps_with_zeros() has still to read
  fillBlocks,  \* rest of the list it is in
  retried,     \* the collection of this gc_malloc() is over
  inUse,       \* history: slots found marked by the last sweep, or handed
               \* out since, as <<block, slot>>
  zeroed       \* history: blocks whose mark bits were cleared since the last
               \* sweep by fill_all_bitmaps_with_zeros()

lists == <<emptyList, segreg>>
headers == <<objSize, slider, bits>>
locals == <<req, curr, pos, checking, byte, fillSizes, fillBlocks, retried>>
history == <<inUse, zeroed>>
vars == <<lists, cache, headers, pc, locals, history>>

\* Slots a word can point to: a rest at the end of the block counts as one.
Valid(s) == 0 .. (Slots[s] - 1) \cup (IF s \in TailSizes THEN {Slots[s]} ELSE {})

\* Where a slider may be: at a slot, or behind the last one.
Positions == {0} \cup UNION {0 .. Slots[s] : s \in Sizes}

Holding == {"scan", "compare", "load", "store", "take"}
Inside == Holding \cup {"segreg", "empty", "fill"}

TypeOK ==
  /\ emptyList \in SUBSET Blocks
  /\ segreg \in [Sizes -> SUBSET Blocks]
  /\ cache \in [Threads -> [Sizes -> Blocks \cup {NoBlock}]]
  /\ objSize \in [Blocks -> Sizes \cup {NoSize}]
  /\ slider \in [Blocks -> Positions]
  /\ bits \in [Blocks -> SUBSET Nat]
  /\ pc \in [Threads -> Inside \cup {"idle", "failed", "retry"}]
  /\ req \in [Threads -> Sizes \cup {NoSize}]
  /\ curr \in [Threads -> Blocks \cup {NoBlock}]
  /\ pos \in [Threads -> Nat]
  /\ checking \in [Threads -> BOOLEAN]
  /\ byte \in [Threads -> SUBSET Nat]
  /\ fillSizes \in [Threads -> SUBSET Sizes]
  /\ fillBlocks \in [Threads -> SUBSET Blocks]
  /\ retried \in [Threads -> BOOLEAN]
  /\ inUse \in SUBSET (Blocks \X Nat)
  /\ zeroed \in SUBSET Blocks

\* __init_small_allocator(): every block is in the list of empty blocks.
Init ==
  /\ emptyList = Blocks
  /\ segreg = [s \in Sizes |-> {}]
  /\ cache = [t \in Threads |-> [s \in Sizes |-> NoBlock]]
  /\ objSize = [b \in Blocks |-> NoSize]
  /\ slider = [b \in Blocks |-> 0]
  /\ bits = [b \in Blocks |-> {}]
  /\ pc = [t \in Threads |-> "idle"]
  /\ req = [t \in Threads |-> NoSize]
  /\ curr = [t \in Threads |-> NoBlock]
  /\ pos = [t \in Threads |-> 0]
  /\ checking = [t \in Threads |-> FALSE]
  /\ byte = [t \in Threads |-> {}]
  /\ fillSizes = [t \in Threads |-> {}]
  /\ fillBlocks = [t \in Threads |-> {}]
  /\ retried = [t \in Threads |-> FALSE]
  /\ inUse = {}
  /\ zeroed = {}

-------------------------------------------------------------------------------
(***************************************************************************)
(* allocate_small_object()                                                  *)
(***************************************************************************)

\* Up to the loop: look at the thread's cache for this size.
LookAtCache(t, s) ==
  /\ req' = [req EXCEPT ![t] = s]
  /\ curr' = [curr EXCEPT ![t] = cache[t][s]]
  /\ checking' = [checking EXCEPT ![t] = cache[t][s] # NoBlock]
  /\ IF cache[t][s] # NoBlock
     THEN /\ pc' = [pc EXCEPT ![t] = "scan"]
          /\ pos' = [pos EXCEPT ![t] = slider[cache[t][s]]]
     ELSE /\ pc' = [pc EXCEPT ![t] = "segreg"]
          /\ UNCHANGED pos
  /\ UNCHANGED <<lists, cache, headers, byte, fillSizes, fillBlocks, history>>

\* gc_malloc(), first call of allocate_new_object().
Malloc(t, s) ==
  /\ pc[t] = "idle"
  /\ LookAtCache(t, s)
  /\ UNCHANGED retried

\* gc_malloc(), second call, after call_service_thread() returned.
Retry(t) ==
  /\ pc[t] = "retry"
  /\ LookAtCache(t, req[t])
  /\ retried' = [retried EXCEPT ![t] = TRUE]

\* Mutant of Unlinked: the head of the list stays in it.
StillLinked(s, b) == segreg

Unlinked(s, b) == [segreg EXCEPT ![s] = @ \ {b}]

\* get_block_from_segreg_list(): the head is taken under the list's spin lock.
TakeFromSegreg(t) ==
  /\ pc[t] = "segreg"
  /\ \E b \in segreg[req[t]] :
       /\ segreg' = Unlinked(req[t], b)
       /\ curr' = [curr EXCEPT ![t] = b]
       /\ pos' = [pos EXCEPT ![t] = slider[b]]
  /\ pc' = [pc EXCEPT ![t] = "scan"]
  /\ UNCHANGED <<emptyList, cache, headers, req, checking, byte, fillSizes,
                 fillBlocks, retried, history>>

SegregEmpty(t) ==
  /\ pc[t] = "segreg"
  /\ segreg[req[t]] = {}
  /\ pc' = [pc EXCEPT ![t] = "empty"]
  /\ UNCHANGED <<lists, cache, headers, locals, history>>

\* allocate_new_block() under empty_list_lock, then init_header() on a block
\* nobody else can find.
TakeEmpty(t) ==
  /\ pc[t] = "empty"
  /\ \E b \in emptyList :
       /\ emptyList' = emptyList \ {b}
       /\ curr' = [curr EXCEPT ![t] = b]
       /\ objSize' = [objSize EXCEPT ![b] = req[t]]
       /\ slider' = [slider EXCEPT ![b] = 0]
       /\ bits' = [bits EXCEPT ![b] = {}]
  /\ pc' = [pc EXCEPT ![t] = "take"]
  /\ UNCHANGED <<segreg, cache, req, pos, checking, byte, fillSizes,
                 fillBlocks, retried, history>>

NoEmptyBlock(t) ==
  /\ pc[t] = "empty"
  /\ emptyList = {}
  /\ pc' = [pc EXCEPT ![t] = "fill"]
  /\ fillSizes' = [fillSizes EXCEPT ![t] = Sizes]
  /\ UNCHANGED <<lists, cache, headers, req, curr, pos, checking, byte,
                 fillBlocks, retried, history>>

\* fill_all_bitmaps_with_zeros() holds no list lock.  The next_node of a block
\* taken from a list is left alone, so the walk goes on over what the list held
\* when its head was read.
FillReadHead(t) ==
  /\ pc[t] = "fill"
  /\ fillBlocks[t] = {}
  /\ \E s \in fillSizes[t] :
       /\ fillSizes' = [fillSizes EXCEPT ![t] = @ \ {s}]
       /\ fillBlocks' = [fillBlocks EXCEPT ![t] = segreg[s]]
  /\ UNCHANGED <<lists, cache, headers, pc, req, curr, pos, checking, byte,
                 retried, history>>

FillZero(t) ==
  /\ pc[t] = "fill"
  /\ \E b \in fillBlocks[t] :
       /\ bits' = [bits EXCEPT ![b] = {}]
       /\ zeroed' = IF bits[b] = {} THEN zeroed ELSE zeroed \cup {b}
       /\ fillBlocks' = [fillBlocks EXCEPT ![t] = @ \ {b}]
  /\ UNCHANGED <<lists, cache, objSize, slider, pc, req, curr, pos, checking,
                 byte, fillSizes, retried, inUse>>

\* The allocation returns NULL: gc_malloc() asks for a collection the first
\* time and gives up the second time.
Fail(t) ==
  /\ pc[t] = "fill"
  /\ fillSizes[t] = {}
  /\ fillBlocks[t] = {}
  /\ pc' = [pc EXCEPT ![t] = IF retried[t] THEN "idle" ELSE "failed"]
  /\ req' = [req EXCEPT ![t] = IF retried[t] THEN NoSize ELSE @]
  /\ retried' = [retried EXCEPT ![t] = FALSE]
  /\ UNCHANGED <<lists, cache, headers, curr, pos, checking, byte, fillSizes,
                 fillBlocks, history>>

\* Mutant of HasRoom: the comparison with the end of the block is off by one.
HasRoomOffByOne(t) == pos[t] <= Slots[req[t]]

\* slider_position + object_size_with_alignment <= next_block_addr
HasRoom(t) == pos[t] < Slots[req[t]]

\* Mutant of SlotFree: the bitmap is not consulted.
SlotFreeUnchecked(t) == TRUE

\* get_bit_by_address(slider_position) == 0
SlotFree(t) == pos[t] \notin bits[curr[t]]

ScanFree(t) ==
  /\ pc[t] = "scan"
  /\ HasRoom(t)
  /\ SlotFree(t)
  /\ slider' = [slider EXCEPT ![curr[t]] = pos[t]]
  /\ pc' = [pc EXCEPT ![t] = "take"]
  /\ UNCHANGED <<lists, cache, objSize, bits, locals, history>>

ScanMarked(t) ==
  /\ pc[t] = "scan"
  /\ HasRoom(t)
  /\ ~SlotFree(t)
  /\ pc' = [pc EXCEPT ![t] = "compare"]
  /\ UNCHANGED <<lists, cache, headers, locals, history>>

\* set_bit_by_address(slider_position, 0) reads the bit, then loads the byte,
\* flips the bit and stores the byte; another thread may be zeroing the bitmap.
CompareSet(t) ==
  /\ pc[t] = "compare"
  /\ pos[t] \in bits[curr[t]]
  /\ pc' = [pc EXCEPT ![t] = "load"]
  /\ UNCHANGED <<lists, cache, headers, locals, history>>

CompareClear(t) ==
  /\ pc[t] = "compare"
  /\ pos[t] \notin bits[curr[t]]
  /\ pos' = [pos EXCEPT ![t] = @ + 1]
  /\ pc' = [pc EXCEPT ![t] = "scan"]
  /\ UNCHANGED <<lists, cache, headers, req, curr, checking, byte, fillSizes,
                 fillBlocks, retried, history>>

LoadByte(t) ==
  /\ pc[t] = "load"
  /\ byte' = [byte EXCEPT ![t] = bits[curr[t]]]
  /\ pc' = [pc EXCEPT ![t] = "store"]
  /\ UNCHANGED <<lists, cache, headers, req, curr, pos, checking, fillSizes,
                 fillBlocks, retried, history>>

Flip(S, i) == IF i \in S THEN S \ {i} ELSE S \cup {i}

StoreByte(t) ==
  /\ pc[t] = "store"
  /\ bits' = [bits EXCEPT ![curr[t]] = Flip(byte[t], pos[t])]
  /\ byte' = [byte EXCEPT ![t] = {}]
  /\ pos' = [pos EXCEPT ![t] = @ + 1]
  /\ pc' = [pc EXCEPT ![t] = "scan"]
  /\ UNCHANGED <<lists, cache, objSize, slider, req, curr, checking, fillSizes,
                 fillBlocks, retried, history>>

\* The loop goes on with the segregated list.
ScanExhausted(t) ==
  /\ pc[t] = "scan"
  /\ ~HasRoom(t)
  /\ pc' = [pc EXCEPT ![t] = "segreg"]
  /\ cache' = IF checking[t] THEN [cache EXCEPT ![t][req[t]] = NoBlock] ELSE cache
  /\ checking' = [checking EXCEPT ![t] = FALSE]
  /\ curr' = [curr EXCEPT ![t] = NoBlock]
  /\ pos' = [pos EXCEPT ![t] = 0]
  /\ UNCHANGED <<lists, headers, req, byte, fillSizes, fillBlocks, retried, history>>

\* new_slider_position >= curr_entry->block_addr + BLOCK_SIZE
AtBlockEnd(s, next) == next >= Slots[s] /\ s \notin TailSizes

\* The end of allocate_small_object(): move the slider on and cache the block.
Take(t) ==
  /\ pc[t] = "take"
  /\ LET b == curr[t]
         s == req[t]
         next == slider[b] + 1
     IN  /\ inUse' = inUse \cup {<<b, slider[b]>>}
         /\ slider' = [slider EXCEPT ![b] = next]
         /\ cache' = [cache EXCEPT ![t][s] = IF AtBlockEnd(s, next)
                                             THEN NoBlock ELSE b]
  /\ pc' = [pc EXCEPT ![t] = "idle"]
  /\ req' = [req EXCEPT ![t] = NoSize]
  /\ curr' = [curr EXCEPT ![t] = NoBlock]
  /\ pos' = [pos EXCEPT ![t] = 0]
  /\ checking' = [checking EXCEPT ![t] = FALSE]
  /\ retried' = [retried EXCEPT ![t] = FALSE]
  /\ UNCHANGED <<lists, objSize, bits, byte, fillSizes, fillBlocks, zeroed>>

-------------------------------------------------------------------------------
(***************************************************************************)
(* The program and the collector                                            *)
(***************************************************************************)

\* A large allocation fails: gc_malloc() asks for a collection, and no small
\* bitmap is touched.
LargeFail(t) ==
  /\ pc[t] = "idle"
  /\ pc' = [pc EXCEPT ![t] = "failed"]
  /\ UNCHANGED <<lists, cache, headers, locals, history>>

\* Mutant of ClearedCache: handler() does not call clear_cache().
KeptCache == cache

\* clear_cache(), which handler() runs in every registered thread.
ClearedCache == [t \in Threads |-> [s \in Sizes |-> NoBlock]]

\* What mark() may mark: slots of blocks in use.  Which of them it marks is the
\* subject of Marking; bits that are already set stay set.
Markable == UNION {{b} \X Valid(objSize[b]) : b \in {c \in Blocks : objSize[c] # NoSize}}

\* Mutant of SweptSlider: sweep_small_heap() leaves the slider where it was.
SweptSliderKept == slider

\* sweep_small_heap() starts every block again at its first slot.
SweptSlider == [b \in Blocks |-> 0]

\* sweep_small_heap(), given the mark bits.
Sweep(marks) ==
  /\ slider' = SweptSlider
  /\ bits' = marks
  /\ objSize' = [b \in Blocks |-> IF marks[b] = {} THEN NoSize ELSE objSize[b]]
  /\ emptyList' = {b \in Blocks : marks[b] = {}}
  /\ segreg' = [s \in Sizes |-> {b \in Blocks : marks[b] # {} /\ objSize[b] = s}]
  /\ inUse' = {m \in Markable : m[2] \in marks[m[1]] /\ m[2] < Slots[objSize[m[1]]]}
  /\ zeroed' = {}

\* The bits that are set when the slots M have been marked.
Marked(M) == [b \in Blocks |-> bits[b] \cup {m[2] : m \in {n \in M : n[1] = b}}]

\* One collection.  It answers the threads that asked for it; a thread whose
\* allocation failed but that has not called yet will ask for another one.
Collect(marks) ==
  /\ \A t \in Threads : pc[t] \notin Inside
  /\ Sweep(marks)
  /\ cache' = ClearedCache
  /\ \E R \in SUBSET {t \in Threads : pc[t] = "failed"} :
       /\ R # {}
       /\ pc' = [t \in Threads |-> IF t \notin R THEN pc[t]
                                   ELSE IF req[t] = NoSize THEN "idle"
                                   ELSE "retry"]
  /\ UNCHANGED locals

Step(t) ==
  \/ Retry(t)
  \/ TakeFromSegreg(t)
  \/ SegregEmpty(t)
  \/ TakeEmpty(t)
  \/ NoEmptyBlock(t)
  \/ FillReadHead(t)
  \/ FillZero(t)
  \/ Fail(t)
  \/ ScanFree(t)
  \/ ScanMarked(t)
  \/ CompareSet(t)
  \/ CompareClear(t)
  \/ LoadByte(t)
  \/ StoreByte(t)
  \/ ScanExhausted(t)
  \/ Take(t)

Program(t) ==
  \/ \E s \in Sizes : Malloc(t, s)
  \/ LargeFail(t)

Next ==
  \/ \E t \in Threads : Step(t) \/ Program(t)
  \/ \E M \in SUBSET Markable : Collect(Marked(M))

Spec == Init /\ [][Next]_vars

\* A thread in allocate_new_object() runs: it is not stopped there
\* (StopTheWorld), and the spin locks are held for a few instructions.
FairSpec == Spec /\ \A t \in Threads : WF_vars(Step(t))

-------------------------------------------------------------------------------

\* Blocks a thread may allocate from without any lock.
Owned(t) == ({cache[t][s] : s \in Sizes} \cup {curr[t]}) \ {NoBlock}

(***************************************************************************)
(* The headers and sliders of blocks are written without locks; that is only *)
(* sound while a block a thread holds, in its cache or as curr_entry, is in *)
(* no list and with no other thread (small-allocator.c, 126-218; sweep.c).   *)
(***************************************************************************)
NoSharing ==
  /\ \A t \in Threads, s \in Sizes :
       Owned(t) \cap emptyList = {} /\ Owned(t) \cap segreg[s] = {}
  /\ \A t, u \in Threads : t # u => Owned(t) \cap Owned(u) = {}
  /\ \A s, z \in Sizes : segreg[s] \cap emptyList = {}
                         /\ (s # z => segreg[s] \cap segreg[z] = {})

(***************************************************************************)
(* A thread is about to hand out a slot that lies in its block entirely, and *)
(* the block was laid out for the size it asked for (small-allocator.c,      *)
(* 183-217: slider, header and cache agree).                                 *)
(***************************************************************************)
InsideBlock ==
  \A t \in Threads : pc[t] = "take" =>
    /\ slider[curr[t]] < Slots[req[t]]
    /\ objSize[curr[t]] = req[t]

(***************************************************************************)
(* Between two sweeps no slot is handed out twice, and none that the sweep   *)
(* found marked: gc_malloc() does not return memory still in use.            *)
(***************************************************************************)
FreshMemory ==
  \A t \in Threads : pc[t] = "take" => <<curr[t], slider[curr[t]]>> \notin inUse

(***************************************************************************)
(* The only memory still in use that gc_malloc() returns is in blocks whose  *)
(* mark bits fill_all_bitmaps_with_zeros() has thrown away since the sweep;  *)
(* the bits of every other block survive the caches, the lists, other        *)
(* threads and partial scans (small-allocator.c, 108-124, 162-203).          *)
(***************************************************************************)
FreshUnlessZeroed ==
  \A t \in Threads : pc[t] = "take" =>
    <<curr[t], slider[curr[t]]>> \notin inUse \/ curr[t] \in zeroed

(***************************************************************************)
(* An allocation fails only when the heap is full for its size: a block that *)
(* is in no list and with no thread has no free slot left, and a thread that *)
(* found nothing left nothing in the two lists it looked at.                 *)
(***************************************************************************)
NoSlotLost ==
  /\ \A b \in Blocks :
       \/ b \in emptyList
       \/ \E s \in Sizes : b \in segreg[s]
       \/ \E t \in Threads : b \in Owned(t)
       \/ \A i \in 0 .. (Slots[objSize[b]] - 1) : <<b, i>> \in inUse
  /\ \A t \in Threads : pc[t] = "fill" => emptyList = {} /\ segreg[req[t]] = {}

\* Slots that the search of a block has before it.
SlotsAhead(t) == IF HasRoom(t) THEN Slots[req[t]] - pos[t] ELSE 0

\* Steps, at most, of the search of the segregated list; of the walk of
\* fill_all_bitmaps_with_zeros(); and of what can follow the search.
ListSteps(t) == Cardinality(segreg[req[t]]) * (4 * Slots[req[t]] + 2)
FillSteps(t) ==
  Cardinality(fillSizes[t]) * (Cardinality(Blocks) + 1) + Cardinality(fillBlocks[t])
LastSteps == (Cardinality(Sizes) + 1) * (Cardinality(Blocks) + 1) + 1

\* Steps that a thread still has in allocate_small_object(), at most.
StepsLeft(t) ==
  CASE pc[t] = "scan" -> ListSteps(t) + LastSteps + 4 * SlotsAhead(t) + 2
    [] pc[t] = "compare" -> ListSteps(t) + LastSteps + 4 * SlotsAhead(t) + 1
    [] pc[t] = "load" -> ListSteps(t) + LastSteps + 4 * SlotsAhead(t)
    [] pc[t] = "store" -> ListSteps(t) + LastSteps + 4 * SlotsAhead(t) - 1
    [] pc[t] = "segreg" -> ListSteps(t) + LastSteps + 1
    [] pc[t] = "empty" -> LastSteps
    [] pc[t] = "fill" -> FillSteps(t) + 1
    [] pc[t] = "take" -> 1
    [] OTHER -> 0

(***************************************************************************)
(* Every step of a thread in allocate_small_object() brings its end nearer,  *)
(* and no step of another thread takes it away: what others do to the lists  *)
(* can only shorten the search (small-allocator.c, 108-124, 162-203).        *)
(***************************************************************************)
AttemptFalls ==
  [][\A t \in Threads : pc[t] \in Inside =>
       /\ Step(t) => StepsLeft(t)' < StepsLeft(t)
       /\ StepsLeft(t)' <= StepsLeft(t)]_vars

(***************************************************************************)
(* Each call of allocate_small_object() comes to an end: the search leaves   *)
(* exhausted blocks behind, and neither it nor fill_all_bitmaps_with_zeros() *)
(* is kept busy by what other threads do to the lists (108-124, 162-203).    *)
(***************************************************************************)
AttemptEnds == \A t \in Threads : pc[t] \in Inside ~> pc[t] \notin Inside

===============================================================================
