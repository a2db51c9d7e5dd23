------------------------ MODULE SmallAllocatorProofs ------------------------
(***************************************************************************)
(* Proofs about SmallAllocator, for every set of threads, blocks and size   *)
(* classes: the ownership of blocks (NoSharing) and where an object is laid *)
(* out (InsideBlock).                                                       *)
(***************************************************************************)
EXTENDS SmallAllocator, FiniteSetTheorems, TLAPS

(***************************************************************************)
(* The inductive invariant.  Ownership alone is not inductive: that two     *)
(* segregated lists are disjoint rests on the size in the block header, and *)
(* that a thread may write the header of curr_entry rests on what is true   *)
(* at each place of allocate_small_object().                                *)
(***************************************************************************)

\* A listed block was laid out for the class of its list.
ListInv ==
  \A s \in Sizes : \A b \in segreg[s] : objSize[b] = s /\ b \notin emptyList

\* A block with a thread is in no list.
OwnedInv(t, b) ==
  b # NoBlock => b \notin emptyList /\ \A z \in Sizes : b \notin segreg[z]

\* A cached block was laid out for the class it is cached for.
CacheInv ==
  \A t \in Threads, s \in Sizes :
    /\ OwnedInv(t, cache[t][s])
    /\ cache[t][s] # NoBlock => objSize[cache[t][s]] = s

\* Two threads hold different blocks.
OwnersInv ==
  \A t, u \in Threads : t # u =>
    /\ curr[t] # NoBlock => curr[t] # curr[u]
    /\ \A s \in Sizes : cache[t][s] # NoBlock =>
         cache[t][s] # curr[u] /\ \A z \in Sizes : cache[t][s] # cache[u][z]

\* What holds at each place of gc_malloc().
LocalInv ==
  \A t \in Threads :
    /\ OwnedInv(t, curr[t])
    /\ pc[t] \in Holding => curr[t] \in Blocks /\ objSize[curr[t]] = req[t]
    /\ pc[t] \notin Holding => curr[t] = NoBlock
    /\ pc[t] \in Inside \cup {"retry"} => req[t] \in Sizes
    /\ pc[t] = "take" => slider[curr[t]] < Slots[req[t]]

IInv == TypeOK /\ ListInv /\ CacheInv /\ OwnersInv /\ LocalInv

-------------------------------------------------------------------------------

LEMMA InitIInv == Init => IInv
BY NullAssumption DEF Init, IInv, TypeOK, Positions, ListInv, CacheInv, OwnersInv, LocalInv,
                      OwnedInv, Holding, Inside

\* What a step owes when it touches neither the lists nor what threads hold.
LEMMA FrameIInv ==
  ASSUME IInv, TypeOK', LocalInv', UNCHANGED <<lists, cache, objSize, curr>>
  PROVE  IInv'
BY DEF IInv, ListInv, CacheInv, OwnersInv, OwnedInv, lists

LEMMA PositionsAreNat == Positions \subseteq Nat
BY SlotsAssumption DEF Positions

LEMMA MallocIInv ==
  ASSUME IInv, NEW t \in Threads, NEW s \in Sizes, Malloc(t, s)
  PROVE  IInv'
<1>. USE NullAssumption, SlotsAssumption
<1>1. TypeOK'
  <2>1. s \in Sizes
    BY DEF IInv, LocalInv, Malloc, Inside
  <2>2. CASE cache[t][s] # NoBlock
    <3>1. cache[t][s] \in Blocks /\ slider[cache[t][s]] \in Nat
      BY <2>1, <2>2 DEF IInv, TypeOK, Positions
    <3>. QED
      BY <2>1, <2>2, <3>1 DEF IInv, TypeOK, Malloc, LookAtCache, lists, headers, history, Holding, Inside
  <2>3. CASE cache[t][s] = NoBlock
    BY <2>1, <2>3 DEF IInv, TypeOK, Malloc, LookAtCache, lists, headers, history, Holding, Inside
  <2>. QED
    BY <2>2, <2>3
<1>2. ListInv'
  BY DEF IInv, TypeOK, ListInv, Malloc, LookAtCache, lists, headers, locals, history
<1>3. CacheInv'
  BY DEF IInv, TypeOK, ListInv, CacheInv, OwnersInv, LocalInv, OwnedInv, Malloc, LookAtCache,
         lists, headers, locals, history, Holding, Inside
<1>4. OwnersInv'
  BY DEF IInv, TypeOK, CacheInv, OwnersInv, LocalInv, OwnedInv, Malloc, LookAtCache,
         lists, headers, locals, history, Holding, Inside
<1>5. LocalInv'
  BY DEF IInv, TypeOK, ListInv, CacheInv, OwnersInv, LocalInv, OwnedInv, Malloc, LookAtCache,
         lists, headers, locals, history, Holding, Inside
<1>. QED
  BY <1>1, <1>2, <1>3, <1>4, <1>5 DEF IInv

LEMMA RetryIInv ==
  ASSUME IInv, NEW t \in Threads, Retry(t)
  PROVE  IInv'
<1>. USE NullAssumption, SlotsAssumption
<1>1. TypeOK'
  <2>1. req[t] \in Sizes
    BY DEF IInv, LocalInv, Retry, Inside
  <2>2. CASE cache[t][req[t]] # NoBlock
    <3>1. cache[t][req[t]] \in Blocks /\ slider[cache[t][req[t]]] \in Nat
      BY <2>1, <2>2 DEF IInv, TypeOK, Positions
    <3>. QED
      BY <2>1, <2>2, <3>1 DEF IInv, TypeOK, Retry, LookAtCache, lists, headers, history, Holding, Inside
  <2>3. CASE cache[t][req[t]] = NoBlock
    BY <2>1, <2>3 DEF IInv, TypeOK, Retry, LookAtCache, lists, headers, history, Holding, Inside
  <2>. QED
    BY <2>2, <2>3
<1>2. ListInv'
  BY DEF IInv, TypeOK, ListInv, Retry, LookAtCache, lists, headers, locals, history
<1>3. CacheInv'
  BY DEF IInv, TypeOK, ListInv, CacheInv, OwnersInv, LocalInv, OwnedInv, Retry, LookAtCache,
         lists, headers, locals, history, Holding, Inside
<1>4. OwnersInv'
  BY DEF IInv, TypeOK, CacheInv, OwnersInv, LocalInv, OwnedInv, Retry, LookAtCache,
         lists, headers, locals, history, Holding, Inside
<1>5. LocalInv'
  BY DEF IInv, TypeOK, ListInv, CacheInv, OwnersInv, LocalInv, OwnedInv, Retry, LookAtCache,
         lists, headers, locals, history, Holding, Inside
<1>. QED
  BY <1>1, <1>2, <1>3, <1>4, <1>5 DEF IInv

LEMMA TakeFromSegregIInv ==
  ASSUME IInv, NEW t \in Threads, TakeFromSegreg(t)
  PROVE  IInv'
<1>. USE NullAssumption, SlotsAssumption
<1>1. TypeOK'
  <2>1. PICK b \in segreg[req[t]] : /\ segreg' = Unlinked(req[t], b)
                                   /\ curr' = [curr EXCEPT ![t] = b]
                                   /\ pos' = [pos EXCEPT ![t] = slider[b]]
    BY DEF TakeFromSegreg
  <2>2. req[t] \in Sizes
    BY DEF IInv, LocalInv, TakeFromSegreg, Inside
  <2>3. b \in Blocks /\ slider[b] \in Nat
    BY <2>2, PositionsAreNat DEF IInv, TypeOK
  <2>4. segreg' \in [Sizes -> SUBSET Blocks]
    BY <2>1, <2>2 DEF IInv, TypeOK, Unlinked
  <2>5. curr' \in [Threads -> Blocks \cup {NoBlock}] /\ pos' \in [Threads -> Nat]
    BY <2>1, <2>3 DEF IInv, TypeOK
  <2>. QED
    BY <2>4, <2>5 DEF IInv, TypeOK, TakeFromSegreg, headers, history, Holding, Inside
<1>2. ListInv'
  BY DEF IInv, TypeOK, ListInv, TakeFromSegreg, Unlinked, lists, headers, locals, history
<1>3. CacheInv'
  BY DEF IInv, TypeOK, ListInv, CacheInv, OwnersInv, LocalInv, OwnedInv, TakeFromSegreg, Unlinked,
         lists, headers, locals, history, Holding, Inside
<1>4. OwnersInv'
  BY DEF IInv, TypeOK, CacheInv, OwnersInv, LocalInv, OwnedInv, TakeFromSegreg, Unlinked,
         lists, headers, locals, history, Holding, Inside
<1>5. LocalInv'
  BY DEF IInv, TypeOK, ListInv, CacheInv, OwnersInv, LocalInv, OwnedInv, TakeFromSegreg, Unlinked,
         lists, headers, locals, history, Holding, Inside
<1>. QED
  BY <1>1, <1>2, <1>3, <1>4, <1>5 DEF IInv

LEMMA SegregEmptyIInv ==
  ASSUME IInv, NEW t \in Threads, SegregEmpty(t)
  PROVE  IInv'
<1>. USE NullAssumption, SlotsAssumption
<1>1. TypeOK'
  BY DEF IInv, TypeOK, LocalInv, SegregEmpty, lists, headers, locals, history, Holding, Inside
<1>2. LocalInv'
  BY DEF IInv, TypeOK, OwnersInv, LocalInv, OwnedInv, SegregEmpty,
         lists, headers, locals, history, Holding, Inside
<1>. QED
  BY <1>1, <1>2, FrameIInv DEF SegregEmpty, headers, locals

LEMMA TakeEmptyIInv ==
  ASSUME IInv, NEW t \in Threads, TakeEmpty(t)
  PROVE  IInv'
<1>. USE NullAssumption, SlotsAssumption
<1>1. TypeOK'
  BY DEF IInv, TypeOK, LocalInv, TakeEmpty, Positions, lists, headers, locals, history, Holding, Inside
<1>2. ListInv'
  BY DEF IInv, TypeOK, ListInv, TakeEmpty, Positions, lists, headers, locals, history
<1>3. CacheInv'
  BY DEF IInv, TypeOK, ListInv, CacheInv, OwnersInv, LocalInv, OwnedInv, TakeEmpty, Positions,
         lists, headers, locals, history, Holding, Inside
<1>4. OwnersInv'
  BY DEF IInv, TypeOK, CacheInv, OwnersInv, LocalInv, OwnedInv, TakeEmpty, Positions,
         lists, headers, locals, history, Holding, Inside
<1>5. LocalInv'
  BY DEF IInv, TypeOK, ListInv, CacheInv, OwnersInv, LocalInv, OwnedInv, TakeEmpty, Positions,
         lists, headers, locals, history, Holding, Inside
<1>. QED
  BY <1>1, <1>2, <1>3, <1>4, <1>5 DEF IInv

LEMMA NoEmptyBlockIInv ==
  ASSUME IInv, NEW t \in Threads, NoEmptyBlock(t)
  PROVE  IInv'
<1>. USE NullAssumption, SlotsAssumption
<1>1. TypeOK'
  BY DEF IInv, TypeOK, LocalInv, NoEmptyBlock, lists, headers, locals, history, Holding, Inside
<1>2. LocalInv'
  BY DEF IInv, TypeOK, OwnersInv, LocalInv, OwnedInv, NoEmptyBlock,
         lists, headers, locals, history, Holding, Inside
<1>. QED
  BY <1>1, <1>2, FrameIInv DEF NoEmptyBlock, headers, locals

LEMMA FillReadHeadIInv ==
  ASSUME IInv, NEW t \in Threads, FillReadHead(t)
  PROVE  IInv'
<1>. USE NullAssumption, SlotsAssumption
<1>1. TypeOK'
  BY DEF IInv, TypeOK, LocalInv, FillReadHead, lists, headers, locals, history, Holding, Inside
<1>2. LocalInv'
  BY DEF IInv, TypeOK, OwnersInv, LocalInv, OwnedInv, FillReadHead,
         lists, headers, locals, history, Holding, Inside
<1>. QED
  BY <1>1, <1>2, FrameIInv DEF FillReadHead, headers, locals

LEMMA FillZeroIInv ==
  ASSUME IInv, NEW t \in Threads, FillZero(t)
  PROVE  IInv'
<1>. USE NullAssumption, SlotsAssumption
<1>1. TypeOK'
  BY DEF IInv, TypeOK, LocalInv, FillZero, lists, headers, locals, history, Holding, Inside
<1>2. LocalInv'
  BY DEF IInv, TypeOK, OwnersInv, LocalInv, OwnedInv, FillZero,
         lists, headers, locals, history, Holding, Inside
<1>. QED
  BY <1>1, <1>2, FrameIInv DEF FillZero, headers, locals

LEMMA FailIInv ==
  ASSUME IInv, NEW t \in Threads, Fail(t)
  PROVE  IInv'
<1>. USE NullAssumption, SlotsAssumption
<1>1. TypeOK'
  BY DEF IInv, TypeOK, LocalInv, Fail, lists, headers, locals, history, Holding, Inside
<1>2. LocalInv'
  BY DEF IInv, TypeOK, OwnersInv, LocalInv, OwnedInv, Fail,
         lists, headers, locals, history, Holding, Inside
<1>. QED
  BY <1>1, <1>2, FrameIInv DEF Fail, headers, locals

LEMMA ScanFreeIInv ==
  ASSUME IInv, NEW t \in Threads, ScanFree(t)
  PROVE  IInv'
<1>. USE NullAssumption, SlotsAssumption
<1>1. TypeOK'
  BY DEF IInv, TypeOK, LocalInv, ScanFree, HasRoom, Positions, lists, headers, locals, history, Holding, Inside
<1>2. LocalInv'
  BY DEF IInv, TypeOK, OwnersInv, LocalInv, OwnedInv, ScanFree, HasRoom, Positions,
         lists, headers, locals, history, Holding, Inside
<1>. QED
  BY <1>1, <1>2, FrameIInv DEF ScanFree, headers, locals

LEMMA ScanMarkedIInv ==
  ASSUME IInv, NEW t \in Threads, ScanMarked(t)
  PROVE  IInv'
<1>. USE NullAssumption, SlotsAssumption
<1>1. TypeOK'
  BY DEF IInv, TypeOK, LocalInv, ScanMarked, lists, headers, locals, history, Holding, Inside
<1>2. LocalInv'
  BY DEF IInv, TypeOK, OwnersInv, LocalInv, OwnedInv, ScanMarked,
         lists, headers, locals, history, Holding, Inside
<1>. QED
  BY <1>1, <1>2, FrameIInv DEF ScanMarked, headers, locals

LEMMA CompareSetIInv ==
  ASSUME IInv, NEW t \in Threads, CompareSet(t)
  PROVE  IInv'
<1>. USE NullAssumption, SlotsAssumption
<1>1. TypeOK'
  BY DEF IInv, TypeOK, LocalInv, CompareSet, lists, headers, locals, history, Holding, Inside
<1>2. LocalInv'
  BY DEF IInv, TypeOK, OwnersInv, LocalInv, OwnedInv, CompareSet,
         lists, headers, locals, history, Holding, Inside
<1>. QED
  BY <1>1, <1>2, FrameIInv DEF CompareSet, headers, locals

LEMMA CompareClearIInv ==
  ASSUME IInv, NEW t \in Threads, CompareClear(t)
  PROVE  IInv'
<1>. USE NullAssumption, SlotsAssumption
<1>1. TypeOK'
  BY DEF IInv, TypeOK, LocalInv, CompareClear, lists, headers, locals, history, Holding, Inside
<1>2. LocalInv'
  BY DEF IInv, TypeOK, OwnersInv, LocalInv, OwnedInv, CompareClear,
         lists, headers, locals, history, Holding, Inside
<1>. QED
  BY <1>1, <1>2, FrameIInv DEF CompareClear, headers, locals

LEMMA LoadByteIInv ==
  ASSUME IInv, NEW t \in Threads, LoadByte(t)
  PROVE  IInv'
<1>. USE NullAssumption, SlotsAssumption
<1>1. TypeOK'
  BY DEF IInv, TypeOK, LocalInv, LoadByte, lists, headers, locals, history, Holding, Inside
<1>2. LocalInv'
  BY DEF IInv, TypeOK, OwnersInv, LocalInv, OwnedInv, LoadByte,
         lists, headers, locals, history, Holding, Inside
<1>. QED
  BY <1>1, <1>2, FrameIInv DEF LoadByte, headers, locals

LEMMA StoreByteIInv ==
  ASSUME IInv, NEW t \in Threads, StoreByte(t)
  PROVE  IInv'
<1>. USE NullAssumption, SlotsAssumption
<1>1. TypeOK'
  BY DEF IInv, TypeOK, LocalInv, StoreByte, Flip, lists, headers, locals, history, Holding, Inside
<1>2. LocalInv'
  BY DEF IInv, TypeOK, OwnersInv, LocalInv, OwnedInv, StoreByte, Flip,
         lists, headers, locals, history, Holding, Inside
<1>. QED
  BY <1>1, <1>2, FrameIInv DEF StoreByte, headers, locals

LEMMA ScanExhaustedIInv ==
  ASSUME IInv, NEW t \in Threads, ScanExhausted(t)
  PROVE  IInv'
<1>. USE NullAssumption, SlotsAssumption
<1>1. TypeOK'
  BY DEF IInv, TypeOK, LocalInv, ScanExhausted, lists, headers, locals, history, Holding, Inside
<1>2. ListInv'
  BY DEF IInv, TypeOK, ListInv, ScanExhausted, lists, headers, locals, history
<1>3. CacheInv'
  BY DEF IInv, TypeOK, ListInv, CacheInv, OwnersInv, LocalInv, OwnedInv, ScanExhausted,
         lists, headers, locals, history, Holding, Inside
<1>4. OwnersInv'
  BY DEF IInv, TypeOK, CacheInv, OwnersInv, LocalInv, OwnedInv, ScanExhausted,
         lists, headers, locals, history, Holding, Inside
<1>5. LocalInv'
  BY DEF IInv, TypeOK, ListInv, CacheInv, OwnersInv, LocalInv, OwnedInv, ScanExhausted,
         lists, headers, locals, history, Holding, Inside
<1>. QED
  BY <1>1, <1>2, <1>3, <1>4, <1>5 DEF IInv

LEMMA TakeIInv ==
  ASSUME IInv, NEW t \in Threads, Take(t)
  PROVE  IInv'
<1>. USE NullAssumption, SlotsAssumption
<1>1. TypeOK'
  <2>1. /\ curr[t] \in Blocks
        /\ req[t] \in Sizes
        /\ slider[curr[t]] \in Nat
        /\ slider[curr[t]] < Slots[req[t]]
    BY PositionsAreNat DEF IInv, TypeOK, LocalInv, Take, Holding, Inside
  <2>2. slider[curr[t]] + 1 \in 0 .. Slots[req[t]]
    BY <2>1
  <2>3. slider[curr[t]] + 1 \in Positions
    BY <2>1, <2>2 DEF Positions
  <2>. QED
    BY <2>1, <2>3 DEF IInv, TypeOK, Take, lists, history, Inside
<1>2. ListInv'
  BY DEF IInv, TypeOK, ListInv, Take, Positions, lists, headers, locals, history
<1>3. CacheInv'
  BY DEF IInv, TypeOK, ListInv, CacheInv, OwnersInv, LocalInv, OwnedInv, Take, Positions,
         lists, headers, locals, history, Holding, Inside
<1>4. OwnersInv'
  BY DEF IInv, TypeOK, CacheInv, OwnersInv, LocalInv, OwnedInv, Take, Positions,
         lists, headers, locals, history, Holding, Inside
<1>5. LocalInv'
  BY DEF IInv, TypeOK, ListInv, CacheInv, OwnersInv, LocalInv, OwnedInv, Take, Positions,
         lists, headers, locals, history, Holding, Inside
<1>. QED
  BY <1>1, <1>2, <1>3, <1>4, <1>5 DEF IInv

LEMMA LargeFailIInv ==
  ASSUME IInv, NEW t \in Threads, LargeFail(t)
  PROVE  IInv'
<1>. USE NullAssumption, SlotsAssumption
<1>1. TypeOK'
  BY DEF IInv, TypeOK, LocalInv, LargeFail, lists, headers, locals, history, Holding, Inside
<1>2. LocalInv'
  BY DEF IInv, TypeOK, OwnersInv, LocalInv, OwnedInv, LargeFail,
         lists, headers, locals, history, Holding, Inside
<1>. QED
  BY <1>1, <1>2, FrameIInv DEF LargeFail, headers, locals

\* sweep_small_heap(): the lists are built anew from the headers.
LEMMA MarkedTypes ==
  ASSUME TypeOK, NEW M \in SUBSET Markable
  PROVE  /\ M \subseteq Blocks \X Nat
         /\ Marked(M) \in [Blocks -> SUBSET Nat]
<1>1. ASSUME NEW b \in Blocks, objSize[b] # NoSize
      PROVE  Valid(objSize[b]) \subseteq Nat
  BY <1>1, SlotsAssumption DEF TypeOK, Valid
<1>2. Markable \subseteq Blocks \X Nat
  BY <1>1 DEF Markable
<1>. QED
  BY <1>2 DEF TypeOK, Marked

LEMMA CollectIInv ==
  ASSUME IInv, NEW M \in SUBSET Markable, Collect(Marked(M))
  PROVE  IInv'
<1>. USE NullAssumption, SlotsAssumption
<1>. DEFINE marks == Marked(M)
<1>. marks \in [Blocks -> SUBSET Nat] /\ Sweep(marks)
  BY MarkedTypes DEF IInv, Collect
<1>. HIDE DEF marks
<1>1. \A t \in Threads : curr[t] = NoBlock
  BY DEF IInv, LocalInv, Collect, Inside
<1>2. \A t \in Threads, s \in Sizes : cache'[t][s] = NoBlock
  BY DEF Collect, ClearedCache
<1>3. \A t \in Threads :
        \/ pc'[t] = pc[t] /\ pc[t] \notin Inside
        \/ pc'[t] = "idle"
        \/ pc'[t] = "retry" /\ req[t] \in Sizes
  BY DEF IInv, TypeOK, Collect
<1>4. TypeOK'
  <2>1. /\ emptyList' \in SUBSET Blocks
        /\ segreg' \in [Sizes -> SUBSET Blocks]
        /\ objSize' \in [Blocks -> Sizes \cup {NoSize}]
        /\ slider' \in [Blocks -> Positions]
        /\ bits' \in [Blocks -> SUBSET Nat]
    BY DEF IInv, TypeOK, Sweep, SweptSlider, Positions
  <2>2. inUse' \in SUBSET (Blocks \X Nat) /\ zeroed' \in SUBSET Blocks
    <3>1. ASSUME NEW b \in Blocks, objSize[b] # NoSize
          PROVE  Valid(objSize[b]) \subseteq Nat
      BY <3>1 DEF IInv, TypeOK, Valid
    <3>. QED
      BY <3>1 DEF Markable, Sweep
  <2>3. cache' \in [Threads -> [Sizes -> Blocks \cup {NoBlock}]]
    BY DEF Collect, ClearedCache
  <2>4. pc' \in [Threads -> Inside \cup {"idle", "failed", "retry"}]
    BY DEF IInv, TypeOK, Collect, Inside, Holding
  <2>. QED
    BY <2>1, <2>2, <2>3, <2>4 DEF IInv, TypeOK, Collect, locals
<1>5. ListInv'
  BY DEF IInv, TypeOK, ListInv, Sweep
<1>6. CacheInv' /\ OwnersInv'
  BY <1>1, <1>2 DEF CacheInv, OwnersInv, OwnedInv, Collect, locals
<1>7. LocalInv'
  <2>. SUFFICES ASSUME NEW t \in Threads
       PROVE  /\ curr'[t] = NoBlock
              /\ pc'[t] \notin Inside
              /\ pc'[t] = "retry" => req'[t] \in Sizes
    BY DEF LocalInv, OwnedInv, Holding, Inside
  <2>1. curr' = curr /\ req' = req
    BY DEF Collect, locals
  <2>. QED
    BY <1>1, <1>3, <2>1 DEF IInv, LocalInv, Inside, Holding
<1>. QED
  BY <1>4, <1>5, <1>6, <1>7 DEF IInv

LEMMA StutterIInv ==
  ASSUME IInv, UNCHANGED vars
  PROVE  IInv'
BY DEF IInv, TypeOK, ListInv, CacheInv, OwnersInv, LocalInv, OwnedInv,
       vars, lists, headers, locals, history

-------------------------------------------------------------------------------

\* Every step keeps the inductive invariant.
LEMMA NextIInv ==
  ASSUME IInv, [Next]_vars
  PROVE  IInv'
<1>1. CASE UNCHANGED vars
  BY <1>1, StutterIInv
<1>2. ASSUME NEW M \in SUBSET Markable, Collect(Marked(M))
      PROVE  IInv'
  BY <1>2, CollectIInv
<1>3. ASSUME NEW t \in Threads, Program(t)
      PROVE  IInv'
  BY <1>3, MallocIInv, LargeFailIInv DEF Program
<1>4. ASSUME NEW t \in Threads, Step(t)
      PROVE  IInv'
  BY <1>4, RetryIInv, TakeFromSegregIInv, SegregEmptyIInv, TakeEmptyIInv,
     NoEmptyBlockIInv, FillReadHeadIInv, FillZeroIInv, FailIInv, ScanFreeIInv,
     ScanMarkedIInv, CompareSetIInv, CompareClearIInv, LoadByteIInv, StoreByteIInv, ScanExhaustedIInv, TakeIInv
     DEF Step
<1> QED
  BY <1>1, <1>2, <1>3, <1>4 DEF Next

\* The invariant of the searches and the lists, for every thread, block and size.
THEOREM SmallAllocatorInvariant == Spec => []IInv
<1>1. IInv /\ [Next]_vars => IInv'
  BY NextIInv
<1> QED
  BY <1>1, InitIInv, PTL DEF Spec

(***************************************************************************)
(* Every variable keeps to its type (all of small-allocator.c).             *)
(***************************************************************************)
THEOREM SmallAllocatorTypes == Spec => []TypeOK
<1>1. IInv => TypeOK
  BY DEF IInv
<1>. QED
  BY <1>1, SmallAllocatorInvariant, PTL

(***************************************************************************)
(* Headers and sliders may be written without locks: a block with a thread  *)
(* is in no list and with no other thread (small-allocator.c, 126-218).     *)
(***************************************************************************)
THEOREM SmallAllocatorNoSharing == Spec => []NoSharing
<1>1. ASSUME IInv
      PROVE  NoSharing
  <2>1. ASSUME NEW t \in Threads, NEW s \in Sizes
        PROVE  Owned(t) \cap emptyList = {} /\ Owned(t) \cap segreg[s] = {}
    BY <1>1 DEF IInv, CacheInv, LocalInv, OwnedInv, Owned
  <2>2. ASSUME NEW t \in Threads, NEW u \in Threads, t # u
        PROVE  Owned(t) \cap Owned(u) = {}
    BY <1>1, <2>2 DEF IInv, OwnersInv, Owned
  <2>3. ASSUME NEW s \in Sizes, NEW z \in Sizes
        PROVE  /\ segreg[s] \cap emptyList = {}
               /\ s # z => segreg[s] \cap segreg[z] = {}
    BY <1>1 DEF IInv, ListInv
  <2>. QED
    BY <2>1, <2>2, <2>3 DEF NoSharing
<1>. QED
  BY <1>1, SmallAllocatorInvariant, PTL

(***************************************************************************)
(* The slot about to be handed out lies in a block laid out for its size    *)
(* (small-allocator.c, 183-217).                                            *)
(***************************************************************************)
THEOREM SmallAllocatorInsideBlock == Spec => []InsideBlock
<1>1. IInv => InsideBlock
  BY DEF IInv, LocalInv, InsideBlock, Holding
<1>. QED
  BY <1>1, SmallAllocatorInvariant, PTL

-------------------------------------------------------------------------------
(***************************************************************************)
(* An attempt gets on.                                                      *)
(***************************************************************************)

\* A slot is compared only where the block has room for it.
ScanInv ==
  \A t \in Threads : pc[t] \in {"compare", "load", "store"} => HasRoom(t)

LEMMA ScanInvariant == Spec => []ScanInv
<1>1. Init => ScanInv
  BY DEF Init, ScanInv
<1>2. ASSUME IInv, ScanInv, [Next]_vars
      PROVE  ScanInv'
  <2>1. TypeOK
    BY <1>2 DEF IInv
  <2>2. ASSUME NEW t \in Threads, Step(t)
        PROVE  ScanInv'
    <3>1. ASSUME NEW u \in Threads, u # t
          PROVE  UNCHANGED <<pc[u], req[u], pos[u]>>
      BY <2>1, <2>2, <3>1 DEF TypeOK, Step, Retry, LookAtCache, TakeFromSegreg, SegregEmpty,
         TakeEmpty, NoEmptyBlock, FillReadHead, FillZero, Fail, ScanFree, ScanMarked, CompareSet,
         CompareClear, LoadByte, StoreByte, ScanExhausted, Take, locals
    <3>2. pc'[t] \in {"compare", "load", "store"} => HasRoom(t)'
      BY <1>2, <2>1, <2>2 DEF ScanInv, HasRoom, TypeOK, Step, Retry, LookAtCache, TakeFromSegreg,
         SegregEmpty, TakeEmpty, NoEmptyBlock, FillReadHead, FillZero, Fail, ScanFree, ScanMarked,
         CompareSet, CompareClear, LoadByte, StoreByte, ScanExhausted, Take, locals
    <3> QED
      BY <1>2, <3>1, <3>2 DEF ScanInv, HasRoom
  <2>3. ASSUME NEW t \in Threads, Program(t)
        PROVE  ScanInv'
    <3>1. ASSUME NEW u \in Threads, u # t
          PROVE  UNCHANGED <<pc[u], req[u], pos[u]>>
      BY <2>1, <2>3, <3>1 DEF TypeOK, Program, Malloc, LookAtCache, LargeFail, locals
    <3>2. pc'[t] \notin {"compare", "load", "store"}
      BY <2>1, <2>3 DEF TypeOK, Program, Malloc, LookAtCache, LargeFail, locals
    <3> QED
      BY <1>2, <3>1, <3>2 DEF ScanInv, HasRoom
  <2>4. ASSUME NEW M \in SUBSET Markable, Collect(Marked(M))
        PROVE  ScanInv'
    BY <2>1, <2>4 DEF TypeOK, Collect, ScanInv, Inside, Holding
  <2>5. CASE UNCHANGED vars
    BY <1>2, <2>5 DEF ScanInv, HasRoom, vars, locals
  <2> QED
    BY <1>2, <2>2, <2>3, <2>4, <2>5 DEF Next
<1> QED
  BY <1>1, <1>2, SmallAllocatorInvariant, PTL DEF Spec

\* The numbers in StepsLeft, of a thread that is in allocate_small_object().
Account(t, l, a, f, k) ==
  /\ l = ListSteps(t) /\ a = SlotsAhead(t) /\ f = FillSteps(t) /\ k = LastSteps
  /\ f + 1 < k
  /\ pc[t] \in {"compare", "load", "store"} => 1 <= a
  /\ pc[t] = "scan" => StepsLeft(t) = l + k + 4 * a + 2
  /\ pc[t] = "compare" => StepsLeft(t) = l + k + 4 * a + 1
  /\ pc[t] = "load" => StepsLeft(t) = l + k + 4 * a
  /\ pc[t] = "store" => StepsLeft(t) = l + k + 4 * a - 1
  /\ pc[t] = "segreg" => StepsLeft(t) = l + k + 1
  /\ pc[t] = "empty" => StepsLeft(t) = k
  /\ pc[t] = "fill" => StepsLeft(t) = f + 1
  /\ pc[t] = "take" => StepsLeft(t) = 1

Accounts ==
  \A t \in Threads :
    /\ pc[t] \in Inside => \E l, a, f, k \in Nat : Account(t, l, a, f, k)
    /\ pc[t] \notin Inside => StepsLeft(t) = 0

LEMMA BlockSets ==
  ASSUME NEW S \in SUBSET Blocks
  PROVE  /\ IsFiniteSet(S) /\ Cardinality(S) \in Nat /\ Cardinality(S) <= Cardinality(Blocks)
         /\ \A b \in S : Cardinality(S \ {b}) = Cardinality(S) - 1
         /\ Cardinality(Blocks) \in Nat
BY FiniteAssumption, FS_Subset, FS_CardinalityType, FS_RemoveElement

LEMMA SizeSets ==
  ASSUME NEW S \in SUBSET Sizes
  PROVE  /\ IsFiniteSet(S) /\ Cardinality(S) \in Nat /\ Cardinality(S) <= Cardinality(Sizes)
         /\ \A s \in S : Cardinality(S \ {s}) = Cardinality(S) - 1
         /\ Cardinality(Sizes) \in Nat
BY FiniteAssumption, FS_Subset, FS_CardinalityType, FS_RemoveElement

LEMMA ProductGrows ==
  ASSUME NEW a \in Nat, NEW b \in Nat, NEW n \in Nat, a <= b
  PROVE  a * n \in Nat /\ b * n \in Nat /\ a * n <= b * n /\ (b + 1) * n = b * n + n
<1>1. PICK d \in Nat : b = a + d
  <2>1. b - a \in Nat /\ b = a + (b - a)
    OBVIOUS
  <2> QED
    BY <2>1
<1>2. b * n = a * n + d * n
  BY <1>1
<1>3. d * n \in Nat /\ a * n \in Nat
  OBVIOUS
<1> QED
  BY <1>2, <1>3

LEMMA AccountsAre == IInv /\ ScanInv => Accounts
<1> SUFFICES ASSUME IInv, ScanInv, NEW t \in Threads
             PROVE  /\ pc[t] \in Inside => \E l, a, f, k \in Nat : Account(t, l, a, f, k)
                    /\ pc[t] \notin Inside => StepsLeft(t) = 0
  BY DEF Accounts
<1>1. CASE pc[t] \notin Inside
  BY <1>1 DEF StepsLeft, Inside, Holding
<1>2. CASE pc[t] \in Inside
  <2> DEFINE l == ListSteps(t)
             a == SlotsAhead(t)
             f == FillSteps(t)
             k == LastSteps
             B == Cardinality(Blocks)
             S == Cardinality(Sizes)
             c == Cardinality(fillSizes[t])
             d == Cardinality(fillBlocks[t])
  <2>1. /\ req[t] \in Sizes /\ segreg[req[t]] \in SUBSET Blocks /\ pos[t] \in Nat
        /\ fillSizes[t] \in SUBSET Sizes /\ fillBlocks[t] \in SUBSET Blocks
    BY <1>2 DEF IInv, TypeOK, LocalInv
  <2>2. Slots[req[t]] \in Nat /\ 4 * Slots[req[t]] + 2 \in Nat
    BY <2>1, SlotsAssumption
  <2>3. l \in Nat
    BY <2>1, <2>2, BlockSets, ProductGrows DEF ListSteps
  <2>4. a \in Nat /\ (HasRoom(t) => 1 <= a)
    BY <2>1, <2>2 DEF SlotsAhead, HasRoom
  <2>5. B \in Nat /\ S \in Nat /\ c \in Nat /\ d \in Nat /\ c <= S /\ d <= B
    BY <2>1, BlockSets, SizeSets
  <2>6. f = c * (B + 1) + d /\ k = (S + 1) * (B + 1) + 1
    BY DEF FillSteps, LastSteps
  <2>7. f \in Nat /\ k \in Nat /\ f + 1 < k
    <3> HIDE DEF B, S, c, d, f, k
    <3>1. /\ c * (B + 1) \in Nat /\ S * (B + 1) \in Nat /\ c * (B + 1) <= S * (B + 1)
          /\ (S + 1) * (B + 1) = S * (B + 1) + (B + 1)
      BY <2>5, ProductGrows
    <3> QED
      BY <2>5, <2>6, <3>1
  <2>8. pc[t] \in {"compare", "load", "store"} => 1 <= a
    BY <2>4 DEF ScanInv
  <2>9. Account(t, l, a, f, k)
    BY <2>7, <2>8 DEF Account, StepsLeft
  <2> HIDE DEF l, a, f, k
  <2> QED
    BY <1>2, <2>3, <2>4, <2>7, <2>9
<1> QED
  BY <1>1, <1>2

LEMMA AccountsNext == IInv' /\ ScanInv' => Accounts'
BY AccountsAre, PTL

\* What a thread outside owes nothing for.
LEMMA LeavingFalls ==
  ASSUME Accounts, Accounts', NEW t \in Threads, pc[t] \in Inside, pc'[t] \notin Inside
  PROVE  StepsLeft(t)' < StepsLeft(t)
<1>1. PICK l \in Nat, a \in Nat, f \in Nat, k \in Nat : Account(t, l, a, f, k)
  BY DEF Accounts
<1>2. StepsLeft(t)' = 0
  BY DEF Accounts
<1>3. 1 <= StepsLeft(t) /\ StepsLeft(t) \in Nat
  BY <1>1 DEF Account, Inside, Holding
<1> QED
  BY <1>2, <1>3

\* What other threads do leaves a thread alone, but that blocks leave the lists.
LEMMA OthersLeave ==
  ASSUME IInv, NEW t \in Threads, pc[t] \in Inside, NEW u \in Threads, u # t,
         Step(u) \/ Program(u)
  PROVE  /\ UNCHANGED <<pc[t], req[t], pos[t], fillSizes[t], fillBlocks[t]>>
         /\ segreg'[req[t]] \in SUBSET segreg[req[t]]
<1>1. TypeOK /\ req[t] \in Sizes
  BY DEF IInv, LocalInv
<1>2. CASE TakeFromSegreg(u)
  <2>1. req[u] \in Sizes
    BY <1>2 DEF IInv, LocalInv, TakeFromSegreg, Inside
  <2> QED
    BY <1>1, <1>2, <2>1 DEF TypeOK, TakeFromSegreg, Unlinked
<1>3. CASE Program(u)
  BY <1>1, <1>3 DEF TypeOK, Program, Malloc, LookAtCache, LargeFail, lists, locals
<1>4. CASE Step(u) /\ ~ TakeFromSegreg(u)
  BY <1>1, <1>4 DEF TypeOK, Step, Retry, LookAtCache, SegregEmpty, TakeEmpty, NoEmptyBlock,
     FillReadHead, FillZero, Fail, ScanFree, ScanMarked, CompareSet, CompareClear, LoadByte,
     StoreByte, ScanExhausted, Take, lists, locals
<1> QED
  BY <1>2, <1>3, <1>4

\* The account of a thread whose place and variables stay as they are.
LEMMA SameAccount ==
  ASSUME IInv, Accounts, Accounts', NEW t \in Threads, pc[t] \in Inside,
         UNCHANGED <<pc[t], req[t], pos[t], fillSizes[t], fillBlocks[t]>>,
         segreg'[req[t]] \in SUBSET segreg[req[t]]
  PROVE  StepsLeft(t)' <= StepsLeft(t)
<1>1. PICK l \in Nat, a \in Nat, f \in Nat, k \in Nat : Account(t, l, a, f, k)
  BY DEF Accounts
<1>2. PICK m \in Nat, b \in Nat, g \in Nat, h \in Nat : Account(t, m, b, g, h)'
  BY DEF Accounts
<1>3. b = a /\ g = f /\ h = k
  BY <1>1, <1>2 DEF Account, SlotsAhead, HasRoom, FillSteps, LastSteps
<1>4. m <= l
  <2>1. req[t] \in Sizes /\ segreg[req[t]] \in SUBSET Blocks
    BY DEF IInv, TypeOK, LocalInv
  <2> DEFINE c == Cardinality(segreg[req[t]])
             d == Cardinality(segreg'[req[t]])
             w == 4 * Slots[req[t]] + 2
  <2>2. c \in Nat /\ d \in Nat /\ d <= c
    BY <2>1, BlockSets, FS_Subset
  <2>3. w \in Nat
    BY <2>1, SlotsAssumption
  <2>4. l = c * w /\ m = d * w
    BY <1>1, <1>2 DEF Account, ListSteps
  <2> HIDE DEF c, d, w
  <2> QED
    BY <2>2, <2>3, <2>4, ProductGrows
<1>5. pc'[t] = pc[t]
  OBVIOUS
<1>6. \E x, y \in Int : StepsLeft(t) = x /\ StepsLeft(t)' = y /\ y <= x
  <2>1. CASE pc[t] = "scan"
    BY <1>1, <1>2, <1>3, <1>4, <1>5, <2>1 DEF Account
  <2>2. CASE pc[t] = "compare"
    BY <1>1, <1>2, <1>3, <1>4, <1>5, <2>2 DEF Account
  <2>3. CASE pc[t] = "load"
    BY <1>1, <1>2, <1>3, <1>4, <1>5, <2>3 DEF Account
  <2>4. CASE pc[t] = "store"
    BY <1>1, <1>2, <1>3, <1>4, <1>5, <2>4 DEF Account
  <2>5. CASE pc[t] = "segreg"
    BY <1>1, <1>2, <1>3, <1>4, <1>5, <2>5 DEF Account
  <2>6. CASE pc[t] \in {"empty", "fill", "take"}
    BY <1>1, <1>2, <1>3, <1>4, <1>5, <2>6 DEF Account
  <2> QED
    BY <2>1, <2>2, <2>3, <2>4, <2>5, <2>6 DEF Inside, Holding
<1> QED
  BY <1>6

\* A block is searched one slot after the other.
LEMMA ScanFalls ==
  ASSUME IInv, ScanInv, Accounts, Accounts', NEW t \in Threads,
         \/ ScanMarked(t) \/ CompareSet(t) \/ CompareClear(t)
         \/ LoadByte(t) \/ StoreByte(t) \/ ScanExhausted(t)
  PROVE  StepsLeft(t)' < StepsLeft(t)
<1> DEFINE Busy == {"scan", "compare", "load", "store", "segreg"}
<1>1. /\ pc[t] \in Busy /\ pc'[t] \in Busy
      /\ UNCHANGED <<segreg, req>>
  BY DEF IInv, TypeOK, ScanMarked, CompareSet, CompareClear, LoadByte, StoreByte, ScanExhausted,
         lists, locals
<1>2. PICK l \in Nat, a \in Nat, f \in Nat, k \in Nat : Account(t, l, a, f, k)
  BY <1>1 DEF Accounts, Inside, Holding
<1>3. PICK m \in Nat, b \in Nat, g \in Nat, h \in Nat : Account(t, m, b, g, h)'
  BY <1>1 DEF Accounts, Inside, Holding
<1>4. h = k /\ m = l
  BY <1>1, <1>2, <1>3 DEF Account, ListSteps, LastSteps
<1>5. CASE ScanMarked(t) \/ CompareSet(t) \/ LoadByte(t)
  <2>1. b = a
    BY <1>2, <1>3, <1>5 DEF Account, SlotsAhead, HasRoom, ScanMarked, CompareSet, LoadByte, locals
  <2>2. \/ pc[t] = "scan" /\ pc'[t] = "compare"
        \/ pc[t] = "compare" /\ pc'[t] = "load"
        \/ pc[t] = "load" /\ pc'[t] = "store"
    BY <1>5 DEF IInv, TypeOK, ScanMarked, CompareSet, LoadByte
  <2> QED
    BY <1>2, <1>3, <1>4, <2>1, <2>2 DEF Account
<1>6. CASE CompareClear(t) \/ StoreByte(t)
  <2>1. /\ pc[t] \in {"compare", "store"} /\ pc'[t] = "scan"
        /\ pos'[t] = pos[t] + 1 /\ pos[t] \in Nat /\ req[t] \in Sizes /\ UNCHANGED req
    BY <1>6 DEF IInv, TypeOK, LocalInv, CompareClear, StoreByte, Inside, Holding
  <2>2. HasRoom(t) /\ Slots[req[t]] \in Nat
    BY <2>1, SlotsAssumption DEF ScanInv
  <2>3. b + 1 = a
    BY <1>2, <1>3, <2>1, <2>2 DEF Account, SlotsAhead, HasRoom
  <2> QED
    BY <1>2, <1>3, <1>4, <2>1, <2>3 DEF Account
<1>7. CASE ScanExhausted(t)
  <2>1. pc[t] = "scan" /\ pc'[t] = "segreg"
    BY <1>7 DEF IInv, TypeOK, ScanExhausted
  <2> QED
    BY <1>2, <1>3, <1>4, <2>1 DEF Account
<1> QED
  BY <1>5, <1>6, <1>7

\* A block less in the list pays for the search of it.
LEMMA TakeFromSegregFalls ==
  ASSUME IInv, Accounts, Accounts', NEW t \in Threads, TakeFromSegreg(t)
  PROVE  StepsLeft(t)' < StepsLeft(t)
<1>1. /\ pc[t] = "segreg" /\ pc'[t] = "scan" /\ UNCHANGED req /\ req[t] \in Sizes
      /\ segreg[req[t]] \in SUBSET Blocks
  BY DEF IInv, TypeOK, LocalInv, TakeFromSegreg, Inside
<1>2. PICK l \in Nat, a \in Nat, f \in Nat, k \in Nat : Account(t, l, a, f, k)
  BY <1>1 DEF Accounts, Inside, Holding
<1>3. PICK m \in Nat, b \in Nat, g \in Nat, h \in Nat : Account(t, m, b, g, h)'
  BY <1>1 DEF Accounts, Inside, Holding
<1> DEFINE c == Cardinality(segreg[req[t]])
           d == Cardinality(segreg'[req[t]])
           s == Slots[req[t]]
           w == 4 * s + 2
<1>4. PICK x \in segreg[req[t]] : segreg'[req[t]] = segreg[req[t]] \ {x}
  BY <1>1 DEF IInv, TypeOK, TakeFromSegreg, Unlinked
<1>5. c \in Nat /\ d \in Nat /\ c = d + 1
  <2>1. c \in Nat /\ Cardinality(segreg[req[t]] \ {x}) = c - 1
    BY <1>1, <1>4, BlockSets
  <2>2. segreg[req[t]] \ {x} \in SUBSET Blocks
    BY <1>1
  <2>3. Cardinality(segreg[req[t]] \ {x}) \in Nat
    BY <2>2, BlockSets
  <2> QED
    BY <1>4, <2>1, <2>3
<1>6. l = c * w /\ m = d * w
  BY <1>1, <1>2, <1>3 DEF Account, ListSteps
<1>7. s \in Nat /\ b <= s
  <2>1. s \in Nat
    BY <1>1, SlotsAssumption
  <2>2. b = SlotsAhead(t)'
    BY <1>3 DEF Account
  <2>3. pos'[t] \in Nat
    <3>1. PICK y \in segreg[req[t]] : pos' = [pos EXCEPT ![t] = slider[y]]
      BY DEF TakeFromSegreg
    <3> QED
      BY <1>1, <3>1, PositionsAreNat DEF IInv, TypeOK
  <2> QED
    BY <1>1, <2>1, <2>2, <2>3 DEF SlotsAhead, HasRoom
<1>8. h = k
  BY <1>2, <1>3 DEF Account, LastSteps
<1>9. StepsLeft(t) = l + k + 1 /\ StepsLeft(t)' = m + k + 4 * b + 2
  BY <1>1, <1>2, <1>3, <1>8 DEF Account
<1>10. l = m + w
  <2> HIDE DEF c, d, w
  <2>1. w \in Nat
    BY <1>7 DEF w
  <2> QED
    BY <1>5, <1>6, <2>1, ProductGrows
<1>11. m + k + 4 * b + 2 < l + k + 1
  <2> HIDE DEF s
  <2> QED
    BY <1>7, <1>10
<1> QED
  BY <1>9, <1>11

\* The lists and the walk over the bitmaps come to an end.
LEMMA LateFalls ==
  ASSUME IInv, Accounts, Accounts', NEW t \in Threads,
         \/ SegregEmpty(t) \/ NoEmptyBlock(t) \/ TakeEmpty(t) \/ ScanFree(t)
         \/ FillReadHead(t) \/ FillZero(t)
  PROVE  StepsLeft(t)' < StepsLeft(t)
<1>1. pc[t] \in Inside /\ pc'[t] \in Inside
  BY DEF IInv, TypeOK, SegregEmpty, NoEmptyBlock, TakeEmpty, ScanFree, FillReadHead, FillZero,
         Inside, Holding
<1>2. PICK l \in Nat, a \in Nat, f \in Nat, k \in Nat : Account(t, l, a, f, k)
  BY <1>1 DEF Accounts
<1>3. PICK m \in Nat, b \in Nat, g \in Nat, h \in Nat : Account(t, m, b, g, h)'
  BY <1>1 DEF Accounts
<1>4. h = k
  BY <1>2, <1>3 DEF Account, LastSteps
<1>5. CASE SegregEmpty(t) \/ NoEmptyBlock(t) \/ TakeEmpty(t) \/ ScanFree(t)
  <2>1. \/ pc[t] = "segreg" /\ pc'[t] = "empty"
        \/ pc[t] = "empty" /\ pc'[t] = "fill"
        \/ pc[t] \in {"empty", "scan"} /\ pc'[t] = "take"
    BY <1>5 DEF IInv, TypeOK, SegregEmpty, NoEmptyBlock, TakeEmpty, ScanFree
  <2> QED
    BY <1>2, <1>3, <1>4, <2>1 DEF Account
<1>6. CASE FillReadHead(t) \/ FillZero(t)
  <2> DEFINE B == Cardinality(Blocks)
             c == Cardinality(fillSizes[t])
             d == Cardinality(fillBlocks[t])
             x == Cardinality(fillSizes'[t])
             y == Cardinality(fillBlocks'[t])
  <2>1. /\ fillSizes[t] \in SUBSET Sizes /\ fillBlocks[t] \in SUBSET Blocks
        /\ fillSizes'[t] \in SUBSET Sizes /\ fillBlocks'[t] \in SUBSET Blocks
    BY <1>6 DEF IInv, TypeOK, FillReadHead, FillZero
  <2>2. B \in Nat /\ c \in Nat /\ d \in Nat /\ x \in Nat /\ y \in Nat /\ y <= B
    BY <2>1, BlockSets, SizeSets
  <2>3. f = c * (B + 1) + d /\ g = x * (B + 1) + y
    BY <1>2, <1>3 DEF Account, FillSteps
  <2>4. StepsLeft(t) = f + 1 /\ StepsLeft(t)' = g + 1
    BY <1>2, <1>3, <1>6 DEF Account, IInv, TypeOK, FillReadHead, FillZero
  <2>5. CASE FillReadHead(t)
    <3>1. c = x + 1
      <4>1. PICK s \in fillSizes[t] : fillSizes'[t] = fillSizes[t] \ {s}
        BY <2>5 DEF IInv, TypeOK, FillReadHead
      <4> QED
        BY <2>1, <2>2, <4>1, SizeSets
    <3> HIDE DEF B, c, d, x, y
    <3>2. c * (B + 1) = x * (B + 1) + (B + 1)
      BY <2>2, <3>1, ProductGrows
    <3>3. x * (B + 1) \in Nat
      BY <2>2, ProductGrows
    <3> QED
      BY <2>2, <2>3, <2>4, <3>2, <3>3
  <2>6. CASE FillZero(t)
    <3>1. c = x /\ d = y + 1
      <4>1. PICK s \in fillBlocks[t] : fillBlocks'[t] = fillBlocks[t] \ {s}
        BY <2>6 DEF IInv, TypeOK, FillZero
      <4>2. fillSizes' = fillSizes
        BY <2>6 DEF FillZero
      <4> QED
        BY <2>1, <2>2, <4>1, <4>2, BlockSets
    <3> HIDE DEF B, c, d, x, y
    <3>2. x * (B + 1) \in Nat
      BY <2>2, ProductGrows
    <3> QED
      BY <2>2, <2>3, <2>4, <3>1, <3>2
  <2> QED
    BY <1>6, <2>5, <2>6
<1> QED
  BY <1>5, <1>6

LEMMA OwnStepFalls ==
  ASSUME IInv, ScanInv, Accounts, Accounts', NEW t \in Threads, pc[t] \in Inside, Step(t)
  PROVE  StepsLeft(t)' < StepsLeft(t)
<1>1. ~ Retry(t)
  BY DEF Retry, Inside, Holding
<1>2. CASE Fail(t) \/ Take(t)
  <2>1. pc'[t] \notin Inside
    BY <1>2 DEF IInv, TypeOK, Fail, Take, Inside, Holding
  <2> QED
    BY <2>1, LeavingFalls
<1> QED
  BY <1>1, <1>2, ScanFalls, TakeFromSegregFalls, LateFalls DEF Step

(***************************************************************************)
(* For every set of threads, blocks and size classes, an attempt to allocate *)
(* comes nearer to its end with every step of its thread, and nothing that   *)
(* other threads do puts it off (small-allocator.c, 108-124 and 162-203).    *)
(***************************************************************************)
THEOREM AttemptsGetOn ==
  Spec => AttemptFalls /\ [](\A t \in Threads : StepsLeft(t) \in Nat)
<1>1. ASSUME IInv, ScanInv, Accounts, Accounts', Next, NEW t \in Threads, pc[t] \in Inside
      PROVE  /\ Step(t) => StepsLeft(t)' < StepsLeft(t)
             /\ StepsLeft(t)' <= StepsLeft(t)
  <2>1. Step(t) => StepsLeft(t)' < StepsLeft(t)
    BY <1>1, OwnStepFalls
  <2>2. \A a, b \in Int : a < b => a <= b
    OBVIOUS
  <2>3. StepsLeft(t) \in Int /\ StepsLeft(t)' \in Int
    <3>1. \A u \in Threads : StepsLeft(u) \in Int
      BY <1>1, AccountsAre DEF StepsLeft, Accounts, Account, Inside, Holding
    <3>2. \A u \in Threads : StepsLeft(u)' \in Int
      BY <1>1 DEF StepsLeft, Accounts, Account, Inside, Holding
    <3> QED
      BY <3>1, <3>2
  <2>4. CASE Step(t)
    BY <2>1, <2>2, <2>3, <2>4
  <2>5. ASSUME NEW u \in Threads, u # t, Step(u) \/ Program(u)
        PROVE  StepsLeft(t)' <= StepsLeft(t)
    BY <1>1, <2>5, OthersLeave, SameAccount
  <2>6. ~ Program(t)
    BY <1>1 DEF Program, Malloc, LargeFail, Inside, Holding
  <2>7. \A M \in SUBSET Markable : ~ Collect(Marked(M))
    BY <1>1 DEF Collect
  <2> QED
    BY <1>1, <2>1, <2>4, <2>5, <2>6, <2>7 DEF Next
<1>2. ASSUME IInv, IInv', ScanInv, ScanInv', [Next]_vars
      PROVE  [\A t \in Threads : pc[t] \in Inside =>
                /\ Step(t) => StepsLeft(t)' < StepsLeft(t)
                /\ StepsLeft(t)' <= StepsLeft(t)]_vars
  BY <1>1, <1>2, AccountsAre, AccountsNext
<1>3. IInv /\ ScanInv => \A t \in Threads : StepsLeft(t) \in Nat
  <2> SUFFICES ASSUME Accounts, NEW t \in Threads PROVE StepsLeft(t) \in Nat
    BY AccountsAre
  <2>1. CASE pc[t] \notin Inside
    BY <2>1 DEF Accounts
  <2>2. CASE pc[t] \in Inside
    <3>1. PICK l \in Nat, a \in Nat, f \in Nat, k \in Nat : Account(t, l, a, f, k)
      BY <2>2 DEF Accounts
    <3> QED
      BY <2>2, <3>1 DEF Account, Inside, Holding
  <2> QED
    BY <2>1, <2>2
<1> QED
  BY <1>2, <1>3, SmallAllocatorInvariant, ScanInvariant, PTL DEF Spec, AttemptFalls

===============================================================================
