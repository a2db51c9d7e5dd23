---------------------- MODULE SmallAllocatorSlotProofs ----------------------
(***************************************************************************)
(* Proofs about the slots of SmallAllocator, for every set of threads,       *)
(* blocks and size classes: a slot in use is handed out again only from a    *)
(* block whose mark bits were thrown away (FreshUnlessZeroed), and no free   *)
(* slot is out of reach of an allocation (NoSlotLost).                      *)
(***************************************************************************)
EXTENDS SmallAllocatorProofs

(***************************************************************************)
(* The inductive invariant, on top of IInv.                                 *)
(***************************************************************************)

\* Some allocation can still find the block.
Available(b) ==
  \/ b \in emptyList
  \/ \E s \in Sizes : b \in segreg[s]
  \/ \E t \in Threads : curr[t] = b \/ \E s \in Sizes : cache[t][s] = b

Scanning == {"scan", "compare", "load", "store"}

\* A thread that has a block cached for its size is working on that block, and
\* a scan begins at the slider.
CheckInv ==
  \A t \in Threads :
    /\ pc[t] \in Inside /\ cache[t][req[t]] # NoBlock =>
         checking[t] /\ curr[t] = cache[t][req[t]]
    /\ pc[t] \in Scanning => slider[curr[t]] <= pos[t]

EmptyInv ==
  \A b \in Blocks :
    /\ objSize[b] = NoSize => b \in emptyList
    /\ b \in emptyList => bits[b] = {} /\ \A i \in Nat : <<b, i>> \notin inUse

\* A slot in use is marked, or the slider or the scan of its block is past it.
FreshInv ==
  \A b \in Blocks : Available(b) /\ b \notin zeroed =>
    \A i \in Nat : <<b, i>> \in inUse =>
      \/ i \in bits[b] \/ i < slider[b]
      \/ \E t \in Threads : curr[t] = b /\ pc[t] \in Scanning /\ i < pos[t]

\* What a thread has read of a bitmap that nobody throws away is still true.
ByteInv ==
  \A t \in Threads : curr[t] # NoBlock /\ curr[t] \notin zeroed =>
    /\ pc[t] = "store" => byte[t] = bits[curr[t]]
    /\ pc[t] = "take" => slider[curr[t]] \notin bits[curr[t]]

\* Only slots in use are passed over.
UsedInv ==
  /\ \A b \in Blocks : objSize[b] # NoSize =>
       \A i \in Nat : i < Slots[objSize[b]] =>
         (i \in bits[b] \/ i < slider[b] => <<b, i>> \in inUse)
  /\ \A t \in Threads : pc[t] \in Scanning =>
       /\ \A i \in Nat : i < Slots[req[t]] =>
            (i < pos[t] \/ (pc[t] = "store" /\ i \in byte[t]) => <<curr[t], i>> \in inUse)
       /\ pc[t] # "scan" => <<curr[t], pos[t]>> \in inUse

LostInv ==
  \A b \in Blocks :
    Available(b) \/ \A i \in Nat : i < Slots[objSize[b]] => <<b, i>> \in inUse

FillInv ==
  \A t \in Threads :
    /\ pc[t] \in {"empty", "fill"} => segreg[req[t]] = {}
    /\ pc[t] = "fill" => emptyList = {}

SlotInv ==
  CheckInv /\ EmptyInv /\ FreshInv /\ ByteInv /\ UsedInv /\ LostInv /\ FillInv

-------------------------------------------------------------------------------

LEMMA InitSlotInv == Init => SlotInv
BY SlotsAssumption, NullAssumption
   DEF Init, SlotInv, CheckInv, EmptyInv, FreshInv, ByteInv, UsedInv, LostInv, FillInv, Available,
       Scanning, Inside, Holding

\* A step that throws no bits away in secret, hands nothing out and leaves the
\* threads that scan a block in place keeps FreshInv.
LEMMA FreshKept ==
  ASSUME TypeOK, FreshInv, zeroed \subseteq zeroed', inUse' = inUse, slider' = slider,
         \A b \in Blocks : Available(b)' => Available(b),
         \A b \in Blocks \ zeroed' : bits'[b] = bits[b],
         \A u \in Threads : pc[u] \in Scanning =>
           pc'[u] \in Scanning /\ curr'[u] = curr[u] /\ pos'[u] \in Nat /\ pos[u] <= pos'[u]
  PROVE  FreshInv'
<1>. SUFFICES ASSUME NEW b \in Blocks, Available(b)', b \notin zeroed',
                     NEW i \in Nat, <<b, i>> \in inUse
              PROVE  \/ i \in bits'[b] \/ i < slider'[b]
                     \/ \E u \in Threads : curr'[u] = b /\ pc'[u] \in Scanning /\ i < pos'[u]
  BY DEF FreshInv
<1>1. CASE \E u \in Threads : curr[u] = b /\ pc[u] \in Scanning /\ i < pos[u]
  <2>1. PICK u \in Threads : curr[u] = b /\ pc[u] \in Scanning /\ i < pos[u]
    BY <1>1
  <2>2. curr'[u] = b /\ pc'[u] \in Scanning /\ i < pos'[u]
    BY <2>1 DEF TypeOK
  <2>. QED
    BY <2>2
<1>2. CASE i \in bits[b] \/ i < slider[b]
  BY <1>2
<1>. QED
  BY <1>1, <1>2 DEF FreshInv

\* Sliders and positions are numbers.
LEMMA Numbers ==
  ASSUME IInv
  PROVE  /\ \A b \in Blocks : slider[b] \in Nat
         /\ \A t \in Threads : pos[t] \in Nat
         /\ \A s \in Sizes : Slots[s] \in Nat
BY PositionsAreNat, SlotsAssumption DEF IInv, TypeOK

LEMMA OneMore ==
  ASSUME NEW p \in Nat, NEW i \in Nat, i < p + 1
  PROVE  i < p \/ i = p
OBVIOUS

\* A block that is gone stays gone, with the header it had.
LEMMA LostKept ==
  ASSUME LostInv, inUse \subseteq inUse',
         \A b \in Blocks : Available(b) => Available(b)',
         \A b \in Blocks : Available(b) \/ objSize'[b] = objSize[b]
  PROVE  LostInv'
BY DEF LostInv

LEMMA MallocSlotInv ==
  ASSUME IInv, SlotInv, NEW t \in Threads, NEW s \in Sizes, Malloc(t, s)
  PROVE  SlotInv'
<1>. USE SlotsAssumption, NullAssumption, PositionsAreNat
     DEF IInv, TypeOK, ListInv, CacheInv, OwnersInv, LocalInv, OwnedInv, SlotInv, Malloc, LookAtCache,
         lists, headers, locals, history, Scanning, Holding, Inside
<1>a. curr[t] = NoBlock /\ s \in Sizes /\ curr' = [curr EXCEPT ![t] = cache[t][s]] /\ cache' = cache
  OBVIOUS
<1>1. \A b \in Blocks : Available(b)' <=> Available(b)
  <2>1. ASSUME NEW b \in Blocks, NEW u \in Threads, curr'[u] = b
        PROVE  Available(b)
    BY <1>a, <2>1 DEF Available
  <2>2. ASSUME NEW b \in Blocks, NEW u \in Threads, curr[u] = b
        PROVE  Available(b)'
    <3>1. curr'[u] = b
      BY <1>a, <2>2
    <3>. QED
      BY <3>1 DEF Available
  <2>. QED
    BY <1>a, <2>1, <2>2 DEF Available
<1>3. CheckInv'
  <2>1. CASE cache[t][s] # NoBlock
    <3>1. cache[t][s] \in Blocks /\ slider[cache[t][s]] \in Nat
      BY <2>1, Numbers
    <3>2. ASSUME NEW u \in Threads, pc'[u] \in Inside
          PROVE  /\ cache'[u][req'[u]] # NoBlock => checking'[u] /\ curr'[u] = cache'[u][req'[u]]
                 /\ pc'[u] \in Scanning => slider'[curr'[u]] <= pos'[u]
      <4>1. CASE u = t
        <5>0. checking'[t] = (cache[t][s] # NoBlock)
          OBVIOUS
        <5>1. curr'[t] = cache[t][s] /\ cache' = cache /\ req'[t] = s
          BY <2>1
        <5>2. slider' = slider /\ pos'[t] = slider[cache[t][s]]
          BY <2>1
        <5>3. slider'[curr'[t]] <= pos'[t]
          BY <3>1, <5>1, <5>2
        <5>4. checking'[t]
          BY <2>1, <5>0, Zenon
        <5>. QED
          BY <4>1, <5>1, <5>3, <5>4
      <4>2. CASE u # t
        BY <3>2, <4>2 DEF CheckInv
      <4>. QED
        BY <4>1, <4>2
    <3>. QED
      BY <3>2 DEF CheckInv
  <2>2. CASE cache[t][s] = NoBlock
    BY <2>2 DEF CheckInv
  <2>. QED
    BY <2>1, <2>2
<1>4. EmptyInv'
  BY DEF EmptyInv
<1>5. FreshInv'
  BY <1>a, <1>1, FreshKept
<1>6. ByteInv'
  BY DEF ByteInv
<1>7. UsedInv'
  BY DEF UsedInv, EmptyInv
<1>8. LostInv'
  BY <1>1, LostKept
<1>9. FillInv'
  BY DEF FillInv
<1>. QED
  BY <1>3, <1>4, <1>5, <1>6, <1>7, <1>8, <1>9

LEMMA RetrySlotInv ==
  ASSUME IInv, SlotInv, NEW t \in Threads, Retry(t)
  PROVE  SlotInv'
<1>. USE SlotsAssumption, NullAssumption, PositionsAreNat
     DEF IInv, TypeOK, ListInv, CacheInv, OwnersInv, LocalInv, OwnedInv, SlotInv, Retry, LookAtCache,
         lists, headers, locals, history, Scanning, Holding, Inside
<1>a. curr[t] = NoBlock /\ req[t] \in Sizes /\ curr' = [curr EXCEPT ![t] = cache[t][req[t]]] /\ cache' = cache
  OBVIOUS
<1>1. \A b \in Blocks : Available(b)' <=> Available(b)
  <2>1. ASSUME NEW b \in Blocks, NEW u \in Threads, curr'[u] = b
        PROVE  Available(b)
    BY <1>a, <2>1 DEF Available
  <2>2. ASSUME NEW b \in Blocks, NEW u \in Threads, curr[u] = b
        PROVE  Available(b)'
    <3>1. curr'[u] = b
      BY <1>a, <2>2
    <3>. QED
      BY <3>1 DEF Available
  <2>. QED
    BY <1>a, <2>1, <2>2 DEF Available
<1>3. CheckInv'
  <2>1. CASE cache[t][req[t]] # NoBlock
    <3>1. cache[t][req[t]] \in Blocks /\ slider[cache[t][req[t]]] \in Nat
      BY <2>1, Numbers
    <3>2. ASSUME NEW u \in Threads, pc'[u] \in Inside
          PROVE  /\ cache'[u][req'[u]] # NoBlock => checking'[u] /\ curr'[u] = cache'[u][req'[u]]
                 /\ pc'[u] \in Scanning => slider'[curr'[u]] <= pos'[u]
      <4>1. CASE u = t
        <5>0. checking'[t] = (cache[t][req[t]] # NoBlock)
          OBVIOUS
        <5>1. curr'[t] = cache[t][req[t]] /\ cache' = cache /\ req'[t] = req[t]
          BY <2>1
        <5>2. slider' = slider /\ pos'[t] = slider[cache[t][req[t]]]
          BY <2>1
        <5>3. slider'[curr'[t]] <= pos'[t]
          BY <3>1, <5>1, <5>2
        <5>4. checking'[t]
          BY <2>1, <5>0, Zenon
        <5>. QED
          BY <4>1, <5>1, <5>3, <5>4
      <4>2. CASE u # t
        BY <3>2, <4>2 DEF CheckInv
      <4>. QED
        BY <4>1, <4>2
    <3>. QED
      BY <3>2 DEF CheckInv
  <2>2. CASE cache[t][req[t]] = NoBlock
    BY <2>2 DEF CheckInv
  <2>. QED
    BY <2>1, <2>2
<1>4. EmptyInv'
  BY DEF EmptyInv
<1>5. FreshInv'
  BY <1>a, <1>1, FreshKept
<1>6. ByteInv'
  BY DEF ByteInv
<1>7. UsedInv'
  BY DEF UsedInv, EmptyInv
<1>8. LostInv'
  BY <1>1, LostKept
<1>9. FillInv'
  BY DEF FillInv
<1>. QED
  BY <1>3, <1>4, <1>5, <1>6, <1>7, <1>8, <1>9

LEMMA TakeFromSegregSlotInv ==
  ASSUME IInv, SlotInv, NEW t \in Threads, TakeFromSegreg(t)
  PROVE  SlotInv'
<1>. USE SlotsAssumption, NullAssumption, PositionsAreNat
     DEF IInv, TypeOK, ListInv, CacheInv, OwnersInv, LocalInv, OwnedInv, SlotInv, TakeFromSegreg, Unlinked,
         lists, headers, locals, history, Scanning, Holding, Inside
<1>a. PICK c \in Blocks :
        /\ req[t] \in Sizes /\ curr[t] = NoBlock
        /\ c \in segreg[req[t]]
        /\ segreg' = [segreg EXCEPT ![req[t]] = @ \ {c}]
        /\ curr' = [curr EXCEPT ![t] = c]
  OBVIOUS
<1>1. \A b \in Blocks : Available(b)' <=> Available(b)
  <2>1. ASSUME NEW b \in Blocks, Available(b)'
        PROVE  Available(b)
    <3>1. CASE b = c
      BY <1>a, <3>1 DEF Available
    <3>2. CASE b # c
      BY <1>a, <2>1, <3>2 DEF Available
    <3>. QED
      BY <3>1, <3>2
  <2>2. ASSUME NEW b \in Blocks, Available(b)
        PROVE  Available(b)'
    <3>1. CASE b = c
      BY <1>a, <3>1 DEF Available
    <3>2. CASE b # c
      BY <1>a, <2>2, <3>2 DEF Available
    <3>. QED
      BY <3>1, <3>2
  <2>. QED
    BY <2>1, <2>2
<1>3. CheckInv'
  <2>1. c \in Blocks /\ slider[c] \in Nat
    BY <1>a, Numbers
  <2>2. pos' = [pos EXCEPT ![t] = slider[c]]
    BY <1>a
  <2>. QED
    BY <1>a, <2>1, <2>2 DEF CheckInv
<1>4. EmptyInv'
  BY DEF EmptyInv
<1>5. FreshInv'
  BY <1>a, <1>1, FreshKept
<1>6. ByteInv'
  BY DEF ByteInv
<1>7. UsedInv'
  BY DEF UsedInv, EmptyInv
<1>8. LostInv'
  BY <1>1, LostKept
<1>9. FillInv'
  BY DEF FillInv
<1>. QED
  BY <1>3, <1>4, <1>5, <1>6, <1>7, <1>8, <1>9

LEMMA SegregEmptySlotInv ==
  ASSUME IInv, SlotInv, NEW t \in Threads, SegregEmpty(t)
  PROVE  SlotInv'
<1>. USE SlotsAssumption, NullAssumption, PositionsAreNat
     DEF IInv, TypeOK, ListInv, CacheInv, OwnersInv, LocalInv, OwnedInv, SlotInv, SegregEmpty,
         lists, headers, locals, history, Scanning, Holding, Inside
<1>1. \A b \in Blocks : Available(b)' <=> Available(b)
  BY DEF Available
<1>3. CheckInv'
  BY DEF CheckInv
<1>4. EmptyInv'
  BY DEF EmptyInv
<1>5. FreshInv'
  BY <1>1, FreshKept
<1>6. ByteInv'
  BY DEF ByteInv
<1>7. UsedInv'
  BY DEF UsedInv, EmptyInv
<1>8. LostInv'
  BY <1>1, LostKept
<1>9. FillInv'
  BY DEF FillInv
<1>. QED
  BY <1>3, <1>4, <1>5, <1>6, <1>7, <1>8, <1>9

LEMMA TakeEmptySlotInv ==
  ASSUME IInv, SlotInv, NEW t \in Threads, TakeEmpty(t)
  PROVE  SlotInv'
<1>. USE SlotsAssumption, NullAssumption, PositionsAreNat
     DEF IInv, TypeOK, ListInv, CacheInv, OwnersInv, LocalInv, OwnedInv, SlotInv, TakeEmpty,
         lists, headers, locals, history, Scanning, Holding, Inside
<1>a. PICK c \in emptyList :
        /\ emptyList' = emptyList \ {c}
        /\ curr[t] = NoBlock
        /\ curr' = [curr EXCEPT ![t] = c]
        /\ objSize' = [objSize EXCEPT ![c] = req[t]]
        /\ slider' = [slider EXCEPT ![c] = 0]
        /\ bits' = [bits EXCEPT ![c] = {}]
  OBVIOUS
<1>1. \A b \in Blocks : Available(b)' <=> Available(b)
  <2>1. ASSUME NEW b \in Blocks, b # c
        PROVE  Available(b)' <=> Available(b)
    BY <1>a, <2>1 DEF Available
  <2>2. Available(c) /\ Available(c)'
    BY <1>a DEF Available
  <2>. QED
    BY <2>1, <2>2
<1>3. CheckInv'
  BY DEF CheckInv
<1>4. EmptyInv'
  BY DEF EmptyInv
<1>5. FreshInv'
  <2>1. ASSUME NEW b \in Blocks, Available(b)', b \notin zeroed', NEW i \in Nat, <<b, i>> \in inUse'
        PROVE  \/ i \in bits'[b] \/ i < slider'[b]
               \/ \E u \in Threads : curr'[u] = b /\ pc'[u] \in Scanning /\ i < pos'[u]
    <3>1. b # c /\ bits'[b] = bits[b] /\ slider'[b] = slider[b] /\ Available(b) /\ b \notin zeroed
      BY <1>a, <1>1, <2>1 DEF EmptyInv
    <3>2. \A u \in Threads : pc[u] \in Scanning =>
            pc'[u] = pc[u] /\ curr'[u] = curr[u] /\ pos'[u] = pos[u]
      BY <1>a
    <3>. QED
      BY <2>1, <3>1, <3>2 DEF FreshInv
  <2>. QED
    BY <2>1 DEF FreshInv
<1>6. ByteInv'
  BY DEF ByteInv
<1>7. UsedInv'
  BY DEF UsedInv, EmptyInv
<1>8. LostInv'
  <2>1. \A b \in Blocks : Available(b) \/ objSize'[b] = objSize[b]
    BY <1>a DEF Available
  <2>. QED
    BY <1>1, <2>1, LostKept
<1>9. FillInv'
  BY DEF FillInv
<1>. QED
  BY <1>3, <1>4, <1>5, <1>6, <1>7, <1>8, <1>9

LEMMA NoEmptyBlockSlotInv ==
  ASSUME IInv, SlotInv, NEW t \in Threads, NoEmptyBlock(t)
  PROVE  SlotInv'
<1>. USE SlotsAssumption, NullAssumption, PositionsAreNat
     DEF IInv, TypeOK, ListInv, CacheInv, OwnersInv, LocalInv, OwnedInv, SlotInv, NoEmptyBlock,
         lists, headers, locals, history, Scanning, Holding, Inside
<1>1. \A b \in Blocks : Available(b)' <=> Available(b)
  BY DEF Available
<1>3. CheckInv'
  BY DEF CheckInv
<1>4. EmptyInv'
  BY DEF EmptyInv
<1>5. FreshInv'
  BY <1>1, FreshKept
<1>6. ByteInv'
  BY DEF ByteInv
<1>7. UsedInv'
  BY DEF UsedInv, EmptyInv
<1>8. LostInv'
  BY <1>1, LostKept
<1>9. FillInv'
  BY DEF FillInv
<1>. QED
  BY <1>3, <1>4, <1>5, <1>6, <1>7, <1>8, <1>9

LEMMA FillReadHeadSlotInv ==
  ASSUME IInv, SlotInv, NEW t \in Threads, FillReadHead(t)
  PROVE  SlotInv'
<1>. USE SlotsAssumption, NullAssumption, PositionsAreNat
     DEF IInv, TypeOK, ListInv, CacheInv, OwnersInv, LocalInv, OwnedInv, SlotInv, FillReadHead,
         lists, headers, locals, history, Scanning, Holding, Inside
<1>1. \A b \in Blocks : Available(b)' <=> Available(b)
  BY DEF Available
<1>3. CheckInv'
  BY DEF CheckInv
<1>4. EmptyInv'
  BY DEF EmptyInv
<1>5. FreshInv'
  BY <1>1, FreshKept
<1>6. ByteInv'
  BY DEF ByteInv
<1>7. UsedInv'
  BY DEF UsedInv, EmptyInv
<1>8. LostInv'
  BY <1>1, LostKept
<1>9. FillInv'
  BY DEF FillInv
<1>. QED
  BY <1>3, <1>4, <1>5, <1>6, <1>7, <1>8, <1>9

LEMMA FillZeroSlotInv ==
  ASSUME IInv, SlotInv, NEW t \in Threads, FillZero(t)
  PROVE  SlotInv'
<1>. USE SlotsAssumption, NullAssumption, PositionsAreNat
     DEF IInv, TypeOK, ListInv, CacheInv, OwnersInv, LocalInv, OwnedInv, SlotInv, FillZero,
         lists, headers, locals, history, Scanning, Holding, Inside
<1>1. \A b \in Blocks : Available(b)' <=> Available(b)
  BY DEF Available
<1>3. CheckInv'
  BY DEF CheckInv
<1>4. EmptyInv'
  BY DEF EmptyInv
<1>5. FreshInv'
  BY <1>1, FreshKept
<1>6. ByteInv'
  BY DEF ByteInv
<1>7. UsedInv'
  BY DEF UsedInv, EmptyInv
<1>8. LostInv'
  BY <1>1, LostKept
<1>9. FillInv'
  BY DEF FillInv
<1>. QED
  BY <1>3, <1>4, <1>5, <1>6, <1>7, <1>8, <1>9

LEMMA FailSlotInv ==
  ASSUME IInv, SlotInv, NEW t \in Threads, Fail(t)
  PROVE  SlotInv'
<1>. USE SlotsAssumption, NullAssumption, PositionsAreNat
     DEF IInv, TypeOK, ListInv, CacheInv, OwnersInv, LocalInv, OwnedInv, SlotInv, Fail,
         lists, headers, locals, history, Scanning, Holding, Inside
<1>1. \A b \in Blocks : Available(b)' <=> Available(b)
  BY DEF Available
<1>3. CheckInv'
  BY DEF CheckInv
<1>4. EmptyInv'
  BY DEF EmptyInv
<1>5. FreshInv'
  BY <1>1, FreshKept
<1>6. ByteInv'
  BY DEF ByteInv
<1>7. UsedInv'
  BY DEF UsedInv, EmptyInv
<1>8. LostInv'
  BY <1>1, LostKept
<1>9. FillInv'
  BY DEF FillInv
<1>. QED
  BY <1>3, <1>4, <1>5, <1>6, <1>7, <1>8, <1>9

LEMMA ScanFreeSlotInv ==
  ASSUME IInv, SlotInv, NEW t \in Threads, ScanFree(t)
  PROVE  SlotInv'
<1>. USE SlotsAssumption, NullAssumption, PositionsAreNat
     DEF IInv, TypeOK, ListInv, CacheInv, OwnersInv, LocalInv, OwnedInv, SlotInv, ScanFree, HasRoom, SlotFree,
         lists, headers, locals, history, Scanning, Holding, Inside
<1>1. \A b \in Blocks : Available(b)' <=> Available(b)
  BY DEF Available
<1>3. CheckInv'
  BY DEF CheckInv
<1>4. EmptyInv'
  BY DEF EmptyInv
<1>5. FreshInv'
  <2>1. ASSUME NEW b \in Blocks, Available(b)', b \notin zeroed', NEW i \in Nat, <<b, i>> \in inUse'
        PROVE  \/ i \in bits'[b] \/ i < slider'[b]
               \/ \E u \in Threads : curr'[u] = b /\ pc'[u] \in Scanning /\ i < pos'[u]
    <3>1. \/ i \in bits[b] \/ i < slider[b]
          \/ \E u \in Threads : curr[u] = b /\ pc[u] \in Scanning /\ i < pos[u]
      BY <1>1, <2>1 DEF FreshInv
    <3>2. CASE b = curr[t]
      <4>1. slider'[b] = pos[t] /\ bits'[b] = bits[b]
        BY <3>2
      <4>2. \A u \in Threads : curr[u] = b => u = t
        BY <3>2
      <4>3. slider[b] <= pos[t] /\ slider[b] \in Nat /\ pos[t] \in Nat
        BY <3>2, Numbers DEF CheckInv
      <4>. QED
        BY <3>1, <4>1, <4>2, <4>3
    <3>3. CASE b # curr[t]
      <4>1. slider'[b] = slider[b] /\ bits'[b] = bits[b]
        BY <3>3
      <4>2. \A u \in Threads : curr[u] = b => curr'[u] = b /\ pc'[u] = pc[u] /\ pos'[u] = pos[u]
        BY <3>3
      <4>. QED
        BY <3>1, <4>1, <4>2
    <3>. QED
      BY <3>2, <3>3
  <2>. QED
    BY <2>1 DEF FreshInv
<1>6. ByteInv'
  BY DEF ByteInv
<1>7. UsedInv'
  <2>1. \A i \in Nat : i < Slots[req[t]] /\ i < pos[t] => <<curr[t], i>> \in inUse
    BY DEF UsedInv
  <2>2. slider' = [slider EXCEPT ![curr[t]] = pos[t]] /\ objSize[curr[t]] = req[t]
    OBVIOUS
  <2>3. ASSUME NEW b \in Blocks, objSize[b] # NoSize, NEW i \in Nat, i < Slots[objSize[b]],
               i \in bits[b] \/ i < slider'[b]
        PROVE  <<b, i>> \in inUse
    BY <2>1, <2>2, <2>3 DEF UsedInv
  <2>. QED
    BY <2>3 DEF UsedInv
<1>8. LostInv'
  BY <1>1, LostKept
<1>9. FillInv'
  BY DEF FillInv
<1>. QED
  BY <1>3, <1>4, <1>5, <1>6, <1>7, <1>8, <1>9

LEMMA ScanMarkedSlotInv ==
  ASSUME IInv, SlotInv, NEW t \in Threads, ScanMarked(t)
  PROVE  SlotInv'
<1>. USE SlotsAssumption, NullAssumption, PositionsAreNat
     DEF IInv, TypeOK, ListInv, CacheInv, OwnersInv, LocalInv, OwnedInv, SlotInv, ScanMarked, SlotFree, HasRoom,
         lists, headers, locals, history, Scanning, Holding, Inside
<1>1. \A b \in Blocks : Available(b)' <=> Available(b)
  BY DEF Available
<1>3. CheckInv'
  BY DEF CheckInv
<1>4. EmptyInv'
  BY DEF EmptyInv
<1>5. FreshInv'
  BY <1>1, FreshKept
<1>6. ByteInv'
  BY DEF ByteInv
<1>7. UsedInv'
  BY DEF UsedInv, EmptyInv
<1>8. LostInv'
  BY <1>1, LostKept
<1>9. FillInv'
  BY DEF FillInv
<1>. QED
  BY <1>3, <1>4, <1>5, <1>6, <1>7, <1>8, <1>9

LEMMA CompareSetSlotInv ==
  ASSUME IInv, SlotInv, NEW t \in Threads, CompareSet(t)
  PROVE  SlotInv'
<1>. USE SlotsAssumption, NullAssumption, PositionsAreNat
     DEF IInv, TypeOK, ListInv, CacheInv, OwnersInv, LocalInv, OwnedInv, SlotInv, CompareSet,
         lists, headers, locals, history, Scanning, Holding, Inside
<1>1. \A b \in Blocks : Available(b)' <=> Available(b)
  BY DEF Available
<1>3. CheckInv'
  BY DEF CheckInv
<1>4. EmptyInv'
  BY DEF EmptyInv
<1>5. FreshInv'
  BY <1>1, FreshKept
<1>6. ByteInv'
  BY DEF ByteInv
<1>7. UsedInv'
  BY DEF UsedInv, EmptyInv
<1>8. LostInv'
  BY <1>1, LostKept
<1>9. FillInv'
  BY DEF FillInv
<1>. QED
  BY <1>3, <1>4, <1>5, <1>6, <1>7, <1>8, <1>9

LEMMA CompareClearSlotInv ==
  ASSUME IInv, SlotInv, NEW t \in Threads, CompareClear(t)
  PROVE  SlotInv'
<1>. USE SlotsAssumption, NullAssumption, PositionsAreNat
     DEF IInv, TypeOK, ListInv, CacheInv, OwnersInv, LocalInv, OwnedInv, SlotInv, CompareClear,
         lists, headers, locals, history, Scanning, Holding, Inside
<1>1. \A b \in Blocks : Available(b)' <=> Available(b)
  BY DEF Available
<1>3. CheckInv'
  <2>1. curr[t] \in Blocks /\ slider[curr[t]] \in Nat /\ pos[t] \in Nat
    BY Numbers
  <2>2. slider[curr[t]] <= pos[t] => slider[curr[t]] <= pos[t] + 1
    BY <2>1
  <2>. QED
    BY <2>1, <2>2 DEF CheckInv
<1>4. EmptyInv'
  BY DEF EmptyInv
<1>5. FreshInv'
  BY <1>1, FreshKept
<1>6. ByteInv'
  BY DEF ByteInv
<1>7. UsedInv'
  <2>1. \A i \in Nat : i < pos[t] + 1 => i < pos[t] \/ i = pos[t]
    BY Numbers, OneMore
  <2>2. ASSUME NEW u \in Threads, pc'[u] \in Scanning
        PROVE  /\ \A i \in Nat : i < Slots[req[u]] =>
                    (i < pos'[u] \/ (pc'[u] = "store" /\ i \in byte[u]) => <<curr[u], i>> \in inUse)
               /\ pc'[u] # "scan" => <<curr[u], pos'[u]>> \in inUse
    <3>1. CASE u = t
      <4>1. \A i \in Nat : i < Slots[req[t]] /\ i < pos[t] => <<curr[t], i>> \in inUse
        BY DEF UsedInv
      <4>2. <<curr[t], pos[t]>> \in inUse
        BY DEF UsedInv
      <4>3. pos'[t] = pos[t] + 1 /\ pc'[t] = "scan"
        OBVIOUS
      <4>4. \A i \in Nat : i < Slots[req[t]] /\ i < pos[t] + 1 => <<curr[t], i>> \in inUse
        BY <2>1, <4>1, <4>2
      <4>. QED
        BY <3>1, <4>3, <4>4
    <3>2. CASE u # t
      BY <2>2, <3>2 DEF UsedInv
    <3>. QED
      BY <3>1, <3>2
  <2>. QED
    BY <2>2 DEF UsedInv
<1>8. LostInv'
  BY <1>1, LostKept
<1>9. FillInv'
  BY DEF FillInv
<1>. QED
  BY <1>3, <1>4, <1>5, <1>6, <1>7, <1>8, <1>9

LEMMA LoadByteSlotInv ==
  ASSUME IInv, SlotInv, NEW t \in Threads, LoadByte(t)
  PROVE  SlotInv'
<1>. USE SlotsAssumption, NullAssumption, PositionsAreNat
     DEF IInv, TypeOK, ListInv, CacheInv, OwnersInv, LocalInv, OwnedInv, SlotInv, LoadByte,
         lists, headers, locals, history, Scanning, Holding, Inside
<1>1. \A b \in Blocks : Available(b)' <=> Available(b)
  BY DEF Available
<1>3. CheckInv'
  BY DEF CheckInv
<1>4. EmptyInv'
  BY DEF EmptyInv
<1>5. FreshInv'
  BY <1>1, FreshKept
<1>6. ByteInv'
  BY DEF ByteInv
<1>7. UsedInv'
  BY DEF UsedInv, EmptyInv
<1>8. LostInv'
  BY <1>1, LostKept
<1>9. FillInv'
  BY DEF FillInv
<1>. QED
  BY <1>3, <1>4, <1>5, <1>6, <1>7, <1>8, <1>9

LEMMA StoreByteSlotInv ==
  ASSUME IInv, SlotInv, NEW t \in Threads, StoreByte(t)
  PROVE  SlotInv'
<1>. USE SlotsAssumption, NullAssumption, PositionsAreNat
     DEF IInv, TypeOK, ListInv, CacheInv, OwnersInv, LocalInv, OwnedInv, SlotInv, StoreByte, Flip,
         lists, headers, locals, history, Scanning, Holding, Inside
<1>1. \A b \in Blocks : Available(b)' <=> Available(b)
  BY DEF Available
<1>3. CheckInv'
  <2>1. curr[t] \in Blocks /\ slider[curr[t]] \in Nat /\ pos[t] \in Nat
    BY Numbers
  <2>2. slider[curr[t]] <= pos[t] => slider[curr[t]] <= pos[t] + 1
    BY <2>1
  <2>. QED
    BY <2>1, <2>2 DEF CheckInv
<1>4. EmptyInv'
  BY DEF EmptyInv
<1>5. FreshInv'
  <2>1. ASSUME NEW b \in Blocks, Available(b)', b \notin zeroed', NEW i \in Nat, <<b, i>> \in inUse'
        PROVE  \/ i \in bits'[b] \/ i < slider'[b]
               \/ \E u \in Threads : curr'[u] = b /\ pc'[u] \in Scanning /\ i < pos'[u]
    <3>1. \/ i \in bits[b] \/ i < slider[b]
          \/ \E u \in Threads : curr[u] = b /\ pc[u] \in Scanning /\ i < pos[u]
      BY <1>1, <2>1 DEF FreshInv
    <3>2. \A u \in Threads : pc[u] \in Scanning =>
            pc'[u] \in Scanning /\ curr'[u] = curr[u] /\ pos[u] <= pos'[u]
      OBVIOUS
    <3>3. CASE b = curr[t] /\ i = pos[t]
      BY <3>3
    <3>4. CASE b = curr[t] /\ i # pos[t]
      <4>1. bits'[b] = Flip(byte[t], pos[t])
        BY <2>1, <3>4
      <4>2. b \notin zeroed /\ b # NoBlock /\ pc[t] = "store"
        BY <2>1
      <4>3. byte[t] = bits[b]
        BY <3>4, <4>2 DEF ByteInv
      <4>4. i \in bits[b] => i \in bits'[b]
        BY <3>4, <4>1, <4>3
      <4>. QED
        BY <3>1, <3>2, <4>4
    <3>5. CASE b # curr[t]
      BY <3>1, <3>2, <3>5
    <3>. QED
      BY <3>3, <3>4, <3>5
  <2>. QED
    BY <2>1 DEF FreshInv
<1>6. ByteInv'
  BY DEF ByteInv
<1>7. UsedInv'
  <2>1. \A i \in Nat : i < pos[t] + 1 => i < pos[t] \/ i = pos[t]
    BY Numbers, OneMore
  <2>2. ASSUME NEW u \in Threads, pc'[u] \in Scanning
        PROVE  /\ \A i \in Nat : i < Slots[req[u]] =>
                    (i < pos'[u] \/ (pc'[u] = "store" /\ i \in byte'[u]) => <<curr[u], i>> \in inUse)
               /\ pc'[u] # "scan" => <<curr[u], pos'[u]>> \in inUse
    <3>1. CASE u = t
      <4>1. \A i \in Nat : i < Slots[req[t]] /\ i < pos[t] => <<curr[t], i>> \in inUse
        BY DEF UsedInv
      <4>2. <<curr[t], pos[t]>> \in inUse
        BY DEF UsedInv
      <4>3. pos'[t] = pos[t] + 1 /\ pc'[t] = "scan"
        OBVIOUS
      <4>4. \A i \in Nat : i < Slots[req[t]] /\ i < pos[t] + 1 => <<curr[t], i>> \in inUse
        BY <2>1, <4>1, <4>2
      <4>. QED
        BY <3>1, <4>3, <4>4
    <3>2. CASE u # t
      BY <2>2, <3>2 DEF UsedInv
    <3>. QED
      BY <3>1, <3>2
  <2>3. \A i \in Nat : i < Slots[req[t]] /\ i \in bits'[curr[t]] => <<curr[t], i>> \in inUse
    BY DEF UsedInv
  <2>4. ASSUME NEW b \in Blocks, objSize[b] # NoSize, NEW i \in Nat, i < Slots[objSize[b]],
               i \in bits'[b] \/ i < slider[b]
        PROVE  <<b, i>> \in inUse
    BY <2>3, <2>4 DEF UsedInv
  <2>. QED
    BY <2>2, <2>4 DEF UsedInv
<1>8. LostInv'
  BY <1>1, LostKept
<1>9. FillInv'
  BY DEF FillInv
<1>. QED
  BY <1>3, <1>4, <1>5, <1>6, <1>7, <1>8, <1>9

LEMMA ScanExhaustedSlotInv ==
  ASSUME IInv, SlotInv, NEW t \in Threads, ScanExhausted(t)
  PROVE  SlotInv'
<1>. USE SlotsAssumption, NullAssumption, PositionsAreNat
     DEF IInv, TypeOK, ListInv, CacheInv, OwnersInv, LocalInv, OwnedInv, SlotInv, ScanExhausted, HasRoom,
         lists, headers, locals, history, Scanning, Holding, Inside
<1>a. PICK c \in Blocks : c = curr[t]
  OBVIOUS
<1>b. ~Available(c)'
  <2>1. c \notin emptyList' /\ \A s \in Sizes : c \notin segreg'[s]
    BY <1>a
  <2>2. \A u \in Threads : curr'[u] # c
    BY <1>a
  <2>3. ASSUME NEW u \in Threads, NEW s \in Sizes
        PROVE  cache'[u][s] # c
    <3>1. CASE u # t
      BY <1>a, <3>1
    <3>2. CASE u = t /\ s = req[t]
      BY <1>a, <3>2 DEF CheckInv
    <3>3. CASE u = t /\ s # req[t]
      BY <1>a, <3>3
    <3>. QED
      BY <3>1, <3>2, <3>3
  <2>. QED
    BY <2>1, <2>2, <2>3 DEF Available
<1>1. \A b \in Blocks : Available(b)' => Available(b) /\ b # c
  BY <1>b DEF Available
<1>2. \A b \in Blocks : Available(b) /\ b # c => Available(b)'
  BY <1>a DEF CheckInv, Available
<1>3. CheckInv'
  BY DEF CheckInv
<1>4. EmptyInv'
  BY DEF EmptyInv
<1>5. FreshInv'
  <2>1. ASSUME NEW b \in Blocks, Available(b)', b \notin zeroed', NEW i \in Nat, <<b, i>> \in inUse'
        PROVE  \/ i \in bits'[b] \/ i < slider'[b]
               \/ \E u \in Threads : curr'[u] = b /\ pc'[u] \in Scanning /\ i < pos'[u]
    <3>1. \/ i \in bits[b] \/ i < slider[b]
          \/ \E u \in Threads : curr[u] = b /\ pc[u] \in Scanning /\ i < pos[u]
      BY <1>1, <2>1 DEF FreshInv
    <3>2. \A u \in Threads : curr[u] = b => curr'[u] = b /\ pc'[u] = pc[u] /\ pos'[u] = pos[u]
      BY <1>a, <1>1, <2>1
    <3>. QED
      BY <3>1, <3>2
  <2>. QED
    BY <2>1 DEF FreshInv
<1>6. ByteInv'
  BY DEF ByteInv
<1>7. UsedInv'
  BY DEF UsedInv, EmptyInv
<1>8. LostInv'
  <2>1. ASSUME NEW i \in Nat, i < Slots[objSize[c]]
        PROVE  <<c, i>> \in inUse
    <3>1. objSize[c] = req[t] /\ Slots[req[t]] \in Nat /\ pos[t] \in Nat /\ pos[t] >= Slots[req[t]]
      BY <1>a, Numbers
    <3>2. i < pos[t]
      BY <2>1, <3>1
    <3>. QED
      BY <1>a, <2>1, <3>1, <3>2 DEF UsedInv
  <2>2. UNCHANGED <<objSize, inUse>>
    OBVIOUS
  <2>3. ASSUME NEW b \in Blocks
        PROVE  Available(b)' \/ \A i \in Nat : i < Slots[objSize[b]] => <<b, i>> \in inUse
    BY <1>2, <2>1, <2>3 DEF LostInv
  <2>. QED
    BY <2>2, <2>3 DEF LostInv
<1>9. FillInv'
  BY DEF FillInv
<1>. QED
  BY <1>3, <1>4, <1>5, <1>6, <1>7, <1>8, <1>9

LEMMA TakeSlotInv ==
  ASSUME IInv, SlotInv, NEW t \in Threads, Take(t)
  PROVE  SlotInv'
<1>. USE SlotsAssumption, NullAssumption, PositionsAreNat
     DEF IInv, TypeOK, ListInv, CacheInv, OwnersInv, LocalInv, OwnedInv, SlotInv, Take, AtBlockEnd,
         lists, headers, locals, history, Scanning, Holding, Inside
<1>a. PICK c \in Blocks :
        /\ c = curr[t] /\ req[t] \in Sizes /\ objSize[c] = req[t]
        /\ slider[c] \in Nat /\ Slots[req[t]] \in Nat /\ slider[c] < Slots[req[t]]
        /\ slider' = [slider EXCEPT ![c] = slider[c] + 1]
        /\ inUse' = inUse \cup {<<c, slider[c]>>}
  BY Numbers
<1>1. \A b \in Blocks : Available(b)' => Available(b)
  BY DEF CheckInv, Available
<1>2. \A b \in Blocks : Available(b) /\ b # c => Available(b)'
  BY <1>a DEF CheckInv, Available
<1>b. Available(c)' \/ slider[c] + 1 >= Slots[req[t]]
  BY <1>a DEF Available
<1>3. CheckInv'
  BY DEF CheckInv
<1>4. EmptyInv'
  BY DEF EmptyInv
<1>5. FreshInv'
  <2>1. ASSUME NEW b \in Blocks, Available(b)', b \notin zeroed', NEW i \in Nat, <<b, i>> \in inUse'
        PROVE  \/ i \in bits'[b] \/ i < slider'[b]
               \/ \E u \in Threads : curr'[u] = b /\ pc'[u] \in Scanning /\ i < pos'[u]
    <3>1. CASE b = c /\ i = slider[b]
      BY <1>a, <3>1
    <3>2. CASE ~(b = c /\ i = slider[b])
      <4>1. <<b, i>> \in inUse
        BY <1>a, <2>1, <3>2
      <4>2. \/ i \in bits[b] \/ i < slider[b]
            \/ \E u \in Threads : curr[u] = b /\ pc[u] \in Scanning /\ i < pos[u]
        BY <1>1, <2>1, <4>1 DEF FreshInv
      <4>3. \A u \in Threads : curr[u] = b /\ pc[u] \in Scanning =>
              curr'[u] = b /\ pc'[u] = pc[u] /\ pos'[u] = pos[u]
        OBVIOUS
      <4>4. i < slider[b] => i < slider'[b]
        BY <1>a
      <4>. QED
        BY <4>2, <4>3, <4>4
    <3>. QED
      BY <3>1, <3>2
  <2>. QED
    BY <2>1 DEF FreshInv
<1>6. ByteInv'
  BY DEF ByteInv
<1>7. UsedInv'
  <2>1. ASSUME NEW b \in Blocks, objSize[b] # NoSize, NEW i \in Nat, i < Slots[objSize[b]],
               i \in bits[b] \/ i < slider'[b]
        PROVE  <<b, i>> \in inUse'
    <3>1. CASE b = c
      <4>1. slider'[b] = slider[b] + 1 /\ i \in Nat /\ slider[b] \in Nat
        BY <1>a, <2>1, <3>1
      <4>2. i < slider[b] + 1 => i < slider[b] \/ i = slider[b]
        BY <4>1, OneMore
      <4>. QED
        BY <1>a, <2>1, <3>1, <4>1, <4>2 DEF UsedInv
    <3>2. CASE b # c
      BY <1>a, <2>1, <3>2 DEF UsedInv
    <3>. QED
      BY <3>1, <3>2
  <2>. QED
    BY <2>1 DEF UsedInv
<1>8. LostInv'
  <2>1. ASSUME ~Available(c)', NEW i \in Nat, i < Slots[req[t]]
        PROVE  <<c, i>> \in inUse'
    <3>1. i < slider[c] + 1
      BY <1>a, <1>b, <2>1
    <3>2. i < slider[c] \/ i = slider[c]
      BY <1>a, <3>1, OneMore
    <3>3. objSize[c] # NoSize /\ i < Slots[objSize[c]]
      BY <1>a, <2>1
    <3>4. CASE i < slider[c]
      BY <3>3, <3>4 DEF UsedInv
    <3>5. CASE i = slider[c]
      BY <1>a, <3>5
    <3>. QED
      BY <3>2, <3>4, <3>5
  <2>2. ASSUME NEW b \in Blocks, ~Available(b)', NEW i \in Nat, i < Slots[objSize'[b]]
        PROVE  <<b, i>> \in inUse'
    <3>1. CASE b = c
      BY <1>a, <2>1, <2>2, <3>1
    <3>2. CASE b # c
      BY <1>a, <1>2, <2>2, <3>2 DEF LostInv
    <3>. QED
      BY <3>1, <3>2
  <2>. QED
    BY <2>2 DEF LostInv
<1>9. FillInv'
  BY DEF FillInv
<1>. QED
  BY <1>3, <1>4, <1>5, <1>6, <1>7, <1>8, <1>9

LEMMA LargeFailSlotInv ==
  ASSUME IInv, SlotInv, NEW t \in Threads, LargeFail(t)
  PROVE  SlotInv'
<1>. USE SlotsAssumption, NullAssumption, PositionsAreNat
     DEF IInv, TypeOK, ListInv, CacheInv, OwnersInv, LocalInv, OwnedInv, SlotInv, LargeFail,
         lists, headers, locals, history, Scanning, Holding, Inside
<1>1. \A b \in Blocks : Available(b)' <=> Available(b)
  BY DEF Available
<1>3. CheckInv'
  BY DEF CheckInv
<1>4. EmptyInv'
  BY DEF EmptyInv
<1>5. FreshInv'
  BY <1>1, FreshKept
<1>6. ByteInv'
  BY DEF ByteInv
<1>7. UsedInv'
  BY DEF UsedInv, EmptyInv
<1>8. LostInv'
  BY <1>1, LostKept
<1>9. FillInv'
  BY DEF FillInv
<1>. QED
  BY <1>3, <1>4, <1>5, <1>6, <1>7, <1>8, <1>9

\* sweep_small_heap(): what is in use is what is marked, and every block is
\* listed again.
LEMMA CollectSlotInv ==
  ASSUME IInv, SlotInv, NEW M \in SUBSET Markable, Collect(Marked(M))
  PROVE  SlotInv'
<1>. DEFINE marks == Marked(M)
<1>1. /\ marks \in [Blocks -> SUBSET Nat]
      /\ \A b \in Blocks : marks[b] # {} => objSize[b] \in Sizes
  <2>1. marks \in [Blocks -> SUBSET Nat]
    BY MarkedTypes DEF IInv
  <2>2. ASSUME NEW b \in Blocks, objSize[b] = NoSize
        PROVE  marks[b] = {}
    <3>1. bits[b] = {}
      BY <2>2 DEF SlotInv, EmptyInv
    <3>2. \A m \in M : m[1] # b
      BY <2>2 DEF Markable
    <3>. QED
      BY <3>1, <3>2 DEF Marked
  <2>. QED
    BY <2>1, <2>2 DEF IInv, TypeOK
<1>2. Sweep(marks)
  BY DEF Collect
<1>. HIDE DEF marks
<1>3. \A t \in Threads : curr'[t] = NoBlock /\ pc'[t] \notin Inside
  <2>1. \A t \in Threads : pc[t] \notin Inside /\ curr[t] = NoBlock
    BY DEF Collect, IInv, LocalInv, Inside
  <2>2. \A t \in Threads : pc'[t] = pc[t] \/ pc'[t] \in {"idle", "retry"}
    BY DEF Collect
  <2>. QED
    BY <2>1, <2>2 DEF Collect, locals, Inside, Holding
<1>4. ASSUME NEW b \in Blocks, NEW i \in Nat
      PROVE  <<b, i>> \in inUse' <=> i \in marks[b] /\ i < Slots[objSize[b]]
  <2>1. <<b, i>> \in inUse' => i \in marks[b] /\ i < Slots[objSize[b]]
    BY <1>2 DEF Sweep
  <2>2. ASSUME i \in marks[b], i < Slots[objSize[b]]
        PROVE  <<b, i>> \in inUse'
    <3>1. objSize[b] \in Sizes /\ objSize[b] # NoSize /\ Slots[objSize[b]] \in Nat
      BY <1>1, <2>2, NullAssumption, SlotsAssumption
    <3>2. i \in 0 .. (Slots[objSize[b]] - 1)
      BY <2>2, <3>1
    <3>3. <<b, i>> \in Markable
      BY <3>1, <3>2 DEF Markable, Valid
    <3>. QED
      BY <1>2, <2>2, <3>3 DEF Sweep
  <2>. QED
    BY <2>1, <2>2
<1>. USE NullAssumption, SlotsAssumption
<1>5. CheckInv' /\ ByteInv' /\ FillInv'
  BY <1>3 DEF CheckInv, ByteInv, FillInv, Scanning, Inside, Holding
<1>6. EmptyInv'
  BY <1>1, <1>2, <1>4 DEF EmptyInv, Sweep
<1>7. FreshInv'
  BY <1>2, <1>4 DEF FreshInv, Sweep
<1>8. UsedInv'
  <2>1. ASSUME NEW b \in Blocks, objSize'[b] # NoSize, NEW i \in Nat, i < Slots[objSize'[b]],
               i \in bits'[b] \/ i < slider'[b]
        PROVE  <<b, i>> \in inUse'
    <3>1. objSize'[b] = objSize[b] /\ bits'[b] = marks[b] /\ slider'[b] = 0
      BY <1>2, <2>1 DEF Sweep, SweptSlider
    <3>. QED
      BY <1>4, <2>1, <3>1
  <2>. QED
    BY <1>3, <2>1 DEF UsedInv, Scanning, Inside, Holding
<1>9. LostInv'
  <2>1. ASSUME NEW b \in Blocks
        PROVE  b \in emptyList' \/ \E s \in Sizes : b \in segreg'[s]
    <3>1. CASE marks[b] = {}
      BY <1>2, <3>1 DEF Sweep
    <3>2. CASE marks[b] # {}
      BY <1>1, <1>2, <3>2 DEF Sweep
    <3>. QED
      BY <3>1, <3>2
  <2>. QED
    BY <2>1 DEF LostInv, Available
<1>. QED
  BY <1>5, <1>6, <1>7, <1>8, <1>9 DEF SlotInv

LEMMA SlotInvariant == Spec => []SlotInv
<1>1. ASSUME IInv, SlotInv, [Next]_vars
      PROVE  SlotInv'
  <2>1. CASE UNCHANGED vars
    BY <1>1, <2>1 DEF SlotInv, CheckInv, EmptyInv, FreshInv, ByteInv, UsedInv, LostInv, FillInv,
       Available, vars, lists, headers, locals, history
  <2>2. ASSUME NEW M \in SUBSET Markable, Collect(Marked(M))
        PROVE  SlotInv'
    BY <1>1, <2>2, CollectSlotInv
  <2>3. ASSUME NEW t \in Threads, Program(t)
        PROVE  SlotInv'
    BY <1>1, <2>3, MallocSlotInv, LargeFailSlotInv DEF Program
  <2>4. ASSUME NEW t \in Threads, Step(t)
        PROVE  SlotInv'
    BY <1>1, <2>4, RetrySlotInv, TakeFromSegregSlotInv, SegregEmptySlotInv, TakeEmptySlotInv,
       NoEmptyBlockSlotInv, FillReadHeadSlotInv, FillZeroSlotInv, FailSlotInv, ScanFreeSlotInv,
       ScanMarkedSlotInv, CompareSetSlotInv, CompareClearSlotInv, LoadByteSlotInv,
       StoreByteSlotInv, ScanExhaustedSlotInv, TakeSlotInv
       DEF Step
  <2>. QED
    BY <1>1, <2>1, <2>2, <2>3, <2>4 DEF Next
<1>. QED
  BY <1>1, InitSlotInv, SmallAllocatorInvariant, PTL DEF Spec

-------------------------------------------------------------------------------

(***************************************************************************)
(* gc_malloc() returns a slot that is still in use only from a block whose   *)
(* bitmap fill_all_bitmaps_with_zeros() has cleared (small-allocator.c,      *)
(* 108-124, 162-217).                                                       *)
(***************************************************************************)
THEOREM SlotsAreFresh == Spec => []FreshUnlessZeroed
<1>1. ASSUME IInv, SlotInv
      PROVE  FreshUnlessZeroed
  <2>1. SUFFICES ASSUME NEW t \in Threads, pc[t] = "take", curr[t] \notin zeroed,
                        <<curr[t], slider[curr[t]]>> \in inUse
                 PROVE  FALSE
    BY DEF FreshUnlessZeroed
  <2>2. curr[t] \in Blocks /\ slider[curr[t]] \in Nat
    BY <1>1, <2>1, Numbers DEF IInv, LocalInv, Holding
  <2>3. slider[curr[t]] \notin bits[curr[t]]
    BY <1>1, <2>1, <2>2, NullAssumption DEF SlotInv, ByteInv
  <2>4. \A u \in Threads : curr[u] = curr[t] => u = t
    BY <1>1, <2>2, NullAssumption DEF IInv, OwnersInv
  <2>5. ~(slider[curr[t]] < slider[curr[t]])
    BY <2>2
  <2>. QED
    BY <1>1, <2>1, <2>2, <2>3, <2>4, <2>5 DEF SlotInv, FreshInv, Available, Scanning
<1>. QED
  BY <1>1, SmallAllocatorInvariant, SlotInvariant, PTL

(***************************************************************************)
(* No free slot is lost: a block in no list and with no thread is in use     *)
(* entirely, and a thread fails only when the lists it needs are empty       *)
(* (small-allocator.c, 126-218; sweep.c).                                   *)
(***************************************************************************)
THEOREM NoSlotIsLost == Spec => []NoSlotLost
<1>1. ASSUME IInv, SlotInv
      PROVE  NoSlotLost
  <2>1. ASSUME NEW b \in Blocks
        PROVE  \/ b \in emptyList
               \/ \E s \in Sizes : b \in segreg[s]
               \/ \E t \in Threads : b \in Owned(t)
               \/ \A i \in 0 .. (Slots[objSize[b]] - 1) : <<b, i>> \in inUse
    <3>1. CASE Available(b)
      BY <3>1, NullAssumption DEF Available, Owned
    <3>2. CASE ~Available(b)
      <4>1. objSize[b] \in Sizes
        BY <1>1, <3>2 DEF IInv, TypeOK, SlotInv, EmptyInv, Available
      <4>2. Slots[objSize[b]] \in Nat
        BY <1>1, <4>1, Numbers
      <4>3. \A i \in 0 .. (Slots[objSize[b]] - 1) : i \in Nat /\ i < Slots[objSize[b]]
        BY <4>2
      <4>. QED
        BY <1>1, <3>2, <4>3 DEF SlotInv, LostInv
    <3>. QED
      BY <3>1, <3>2
  <2>2. \A t \in Threads : pc[t] = "fill" => emptyList = {} /\ segreg[req[t]] = {}
    BY <1>1 DEF SlotInv, FillInv
  <2>. QED
    BY <2>1, <2>2 DEF NoSlotLost
<1>. QED
  BY <1>1, SmallAllocatorInvariant, SlotInvariant, PTL

=============================================================================
