--------------------------- MODULE CollectorProofs ----------------------------
(***************************************************************************)
(* Theorems about Collector, for every set of threads, blocks and sizes and  *)
(* every program: the composition behaves as SmallAllocator, and no object   *)
(* that the program can get at is handed out again, unless a bit that was    *)
(* set has stopped mark() early or the bits of its block were thrown away.   *)
(***************************************************************************)
EXTENDS Collector, SmallAllocatorSlotProofs

-------------------------------------------------------------------------------

\* A closed set that holds the roots holds what is reached from them.
LEMMA ReachedIsLeast ==
  ASSUME NEW Nodes, NEW edges, NEW R, NEW S \in SUBSET Nodes, ClosedUnder(S, edges, R)
  PROVE  ReachedBy(Nodes, edges, R) \subseteq S
BY DEF ReachedBy

\* mark() sets bits of slots that a word can point to only.
LEMMA OnlySlotsAreMarked ==
  ASSUME TypeOK, NEW words
  PROVE  Reached(words) \subseteq Markable
<1> DEFINE edges == [o \in Objects |-> Found(Traversed(o))]
<1>1. \A s \in Sizes : Valid(s) \subseteq Positions
  BY SlotsAssumption DEF Valid, Positions
<1>2. Markable \in SUBSET Objects
  BY <1>1 DEF TypeOK, Markable, Objects
<1>3. Found(roots \cup words) \subseteq Markable
  BY DEF Found
<1>4. ASSUME NEW o \in Markable
      PROVE  edges[o] \subseteq Markable
  BY <1>2, <1>4 DEF Found
<1> HIDE DEF edges
<1>5. ClosedUnder(Markable, edges, Found(roots \cup words))
  BY <1>3, <1>4 DEF ClosedUnder
<1>6. ReachedBy(Objects, edges, Found(roots \cup words)) \subseteq Markable
  BY <1>2, <1>5, ReachedIsLeast
<1> QED
  BY <1>6 DEF Reached, edges

\* A step of the composition is a step of the allocator or changes nothing of it.
LEMMA StepsOfTheAllocator ==
  ASSUME TypeOK, [CollectorNext]_collectorVars
  PROVE  [Next]_vars
<1>1. ASSUME NEW t \in Threads, Obtain(t)
      PROVE  Next
  BY <1>1 DEF Obtain, Next, Step
<1>2. ASSUME NEW t \in Threads, Allocating(t)
      PROVE  Next
  BY <1>2 DEF Allocating, Next
<1>3. ASSUME Mutate
      PROVE  UNCHANGED vars
  BY <1>3 DEF Mutate, Store, Load, Overwrite, Forget
<1>4. ASSUME CollectGarbage
      PROVE  Next
  <2>1. PICK stray \in SUBSET Objects : Collect(Marked(Reached(stray)))
    BY <1>4 DEF CollectGarbage
  <2>2. Reached(stray) \in SUBSET Markable
    BY OnlySlotsAreMarked
  <2> HIDE DEF Reached
  <2> QED
    BY <2>1, <2>2 DEF Next
<1>5. CASE UNCHANGED collectorVars
  BY <1>5 DEF collectorVars
<1> QED
  BY <1>1, <1>2, <1>3, <1>4, <1>5 DEF CollectorNext

\* What is proved of SmallAllocator holds of the composition.
LEMMA CollectorImplementsAllocator == CollectorSpec => Spec
<1>1. CollectorInit => Init
  BY DEF CollectorInit
<1>2. IInv /\ [CollectorNext]_collectorVars => [Next]_vars
  BY StepsOfTheAllocator DEF IInv
<1>3. (Init => IInv) /\ (IInv /\ [Next]_vars => IInv')
  BY InitIInv, NextIInv
<1> QED
  BY <1>1, <1>2, <1>3, PTL DEF CollectorSpec, Spec

-------------------------------------------------------------------------------

\* Slots in use are slots of blocks that are laid out.
LaidOut ==
  inUse \subseteq {m \in Markable : m[2] < Slots[objSize[m[1]]]}

\* What the program can get at is in use.
HeapInv ==
  /\ roots \in SUBSET Objects
  /\ refs \in [Objects -> SUBSET Objects]
  /\ cutOff \in BOOLEAN
  /\ LaidOut
  /\ cutOff \/ Live \subseteq inUse

LEMMA ReachedIsClosed ==
  ASSUME NEW Nodes, NEW edges \in [Nodes -> SUBSET Nodes], NEW R \in SUBSET Nodes
  PROVE  /\ ReachedBy(Nodes, edges, R) \subseteq Nodes
         /\ ClosedUnder(ReachedBy(Nodes, edges, R), edges, R)
<1> DEFINE A == ReachedBy(Nodes, edges, R)
<1>1. A \subseteq Nodes /\ R \subseteq A
  BY DEF ReachedBy, ClosedUnder
<1>2. ASSUME NEW o \in A, NEW p \in edges[o]
      PROVE  p \in A
  <2>1. p \in Nodes
    BY <1>1, <1>2
  <2>2. ASSUME NEW S \in SUBSET Nodes, ClosedUnder(S, edges, R)
        PROVE  p \in S
    <3>1. o \in S
      BY <1>2, <2>2 DEF ReachedBy
    <3> QED
      BY <1>2, <2>2, <3>1 DEF ClosedUnder
  <2> QED
    BY <2>1, <2>2 DEF ReachedBy
<1> HIDE DEF A
<1>3. ClosedUnder(A, edges, R)
  BY <1>1, <1>2 DEF ClosedUnder
<1> QED
  BY <1>1, <1>3 DEF A

LEMMA LiveClosed ==
  ASSUME HeapInv
  PROVE  /\ Live \subseteq Objects
         /\ ClosedUnder(Live, refs, roots)
BY ReachedIsClosed DEF HeapInv, Live

\* What the steps of allocate_small_object() do to blocks in use.
LEMMA LaidOutKept ==
  ASSUME IInv, SlotInv, LaidOut, [Next]_vars
  PROVE  LaidOut'
<1>1. ASSUME UNCHANGED <<objSize, inUse>>
      PROVE  LaidOut'
  BY <1>1 DEF LaidOut, Markable, Valid
<1>2. CASE UNCHANGED vars
  BY <1>1, <1>2 DEF vars, headers, history
<1>3. ASSUME NEW t \in Threads, TakeEmpty(t)
      PROVE  LaidOut'
  <2>1. PICK b \in emptyList : objSize' = [objSize EXCEPT ![b] = req[t]]
    BY <1>3 DEF TakeEmpty
  <2>2. inUse' = inUse
    BY <1>3 DEF TakeEmpty, history
  <2>3. b \in Blocks /\ objSize \in [Blocks -> Sizes \cup {NoSize}] /\ inUse \subseteq Blocks \X Nat
    BY <2>1 DEF IInv, TypeOK
  <2>4. \A i \in Nat : <<b, i>> \notin inUse
    BY <2>1, <2>3 DEF SlotInv, EmptyInv
  <2>5. ASSUME NEW m \in inUse
        PROVE  m \in {n \in Markable' : n[2] < Slots[objSize'[n[1]]]}
    <3>1. PICK c \in Blocks, i \in Nat : m = <<c, i>>
      BY <2>3
    <3>2. c # b
      BY <2>4, <2>5, <3>1
    <3>3. objSize'[c] = objSize[c]
      BY <2>1, <2>3, <3>2
    <3>4. m \in Markable /\ i < Slots[objSize[c]]
      BY <3>1 DEF LaidOut
    <3>5. objSize[c] # NoSize /\ i \in Valid(objSize[c])
      BY <3>1, <3>4 DEF Markable
    <3>6. m \in Markable'
      BY <3>1, <3>3, <3>5 DEF Markable, Valid
    <3> QED
      BY <3>1, <3>3, <3>4, <3>6
  <2> QED
    BY <2>2, <2>5 DEF LaidOut
<1>4. ASSUME NEW t \in Threads, Take(t)
      PROVE  LaidOut'
  <2>1. inUse' = inUse \cup {<<curr[t], slider[curr[t]]>>} /\ objSize' = objSize /\ pc[t] = "take"
    BY <1>4 DEF Take
  <2>2. /\ curr[t] \in Blocks /\ objSize[curr[t]] = req[t] /\ req[t] \in Sizes
        /\ slider[curr[t]] \in Nat /\ slider[curr[t]] < Slots[req[t]] /\ Slots[req[t]] \in Nat
    BY <2>1, Numbers DEF IInv, LocalInv, Holding, Inside
  <2>3. slider[curr[t]] \in Valid(req[t])
    BY <2>2 DEF Valid
  <2>4. <<curr[t], slider[curr[t]]>> \in {m \in Markable : m[2] < Slots[objSize[m[1]]]}
    BY <2>2, <2>3, NullAssumption DEF Markable
  <2>5. Markable' = Markable
    BY <2>1 DEF Markable, Valid
  <2> QED
    BY <2>1, <2>4, <2>5 DEF LaidOut
<1>5. ASSUME NEW M \in SUBSET Markable, Collect(Marked(M))
      PROVE  LaidOut'
  <2>1. PICK marks : Sweep(marks)
    BY <1>5 DEF Collect
  <2>2. /\ inUse' = {m \in Markable : m[2] \in marks[m[1]] /\ m[2] < Slots[objSize[m[1]]]}
        /\ objSize' = [b \in Blocks |-> IF marks[b] = {} THEN NoSize ELSE objSize[b]]
    BY <2>1 DEF Sweep
  <2>3. ASSUME NEW m \in inUse'
        PROVE  m \in {n \in Markable' : n[2] < Slots[objSize'[n[1]]]}
    <3>0. PICK b \in Blocks :
            \E i \in Valid(objSize[b]) : m = <<b, i>> /\ objSize[b] # NoSize
      BY <2>2, <2>3 DEF Markable
    <3>1. PICK i \in Valid(objSize[b]) : m = <<b, i>> /\ objSize[b] # NoSize
      BY <3>0
    <3>2. i \in marks[b] /\ i < Slots[objSize[b]]
      BY <2>2, <2>3, <3>1
    <3>3. objSize'[b] = objSize[b]
      BY <2>2, <3>2
    <3>4. m \in Markable'
      BY <3>1, <3>3 DEF Markable, Valid
    <3> QED
      BY <3>1, <3>2, <3>3, <3>4
  <2> QED
    BY <2>3 DEF LaidOut
<1>6. ASSUME NEW t \in Threads, Step(t) \/ Program(t), ~TakeEmpty(t), ~Take(t)
      PROVE  UNCHANGED <<objSize, inUse>>
  BY <1>6 DEF Step, Program, Malloc, LargeFail, Retry, LookAtCache, TakeFromSegreg, SegregEmpty,
    NoEmptyBlock, FillReadHead, FillZero, Fail, ScanFree, ScanMarked, CompareSet, CompareClear,
    LoadByte, StoreByte, ScanExhausted, headers, history
<1> QED
  BY <1>1, <1>2, <1>3, <1>4, <1>5, <1>6 DEF Next

LEMMA HeapInvKept ==
  ASSUME IInv, SlotInv, HeapInv, [CollectorNext]_collectorVars
  PROVE  HeapInv'
<1>1. LaidOut'
  BY LaidOutKept, StepsOfTheAllocator DEF HeapInv, IInv
<1>2. /\ roots \in SUBSET Objects /\ refs \in [Objects -> SUBSET Objects] /\ cutOff \in BOOLEAN
      /\ cutOff \/ Live \subseteq inUse
  BY DEF HeapInv
<1>3. /\ Live \subseteq Objects /\ roots \subseteq Live
      /\ \A o \in Live : refs[o] \subseteq Live
  BY LiveClosed DEF ClosedUnder
\* Enough that a set in use is closed under the new references.
<1>4. ASSUME NEW S \in SUBSET Objects, roots' \subseteq S, \A o \in S : refs'[o] \subseteq S
      PROVE  Live' \subseteq S
  BY <1>4 DEF Live, ReachedBy, ClosedUnder
<1>5. ASSUME NEW t \in Threads, Obtain(t)
      PROVE  HeapInv'
  <2>1. PICK o : /\ o = <<curr[t], slider[curr[t]]>>
                 /\ roots' = roots \cup {o} /\ refs' = [refs EXCEPT ![o] = {}]
                 /\ cutOff' = cutOff /\ inUse' = inUse \cup {o} /\ pc[t] = "take"
    BY <1>5 DEF Obtain, Take
  <2>2. o \in Objects
    BY <2>1 DEF IInv, TypeOK, LocalInv, Holding, Objects
  <2>3. Live' \subseteq Live \cup {o}
    <3>1. Live \cup {o} \in SUBSET Objects /\ roots' \subseteq Live \cup {o}
      BY <1>3, <2>1, <2>2
    <3>2. ASSUME NEW p \in Live \cup {o}
          PROVE  refs'[p] \subseteq Live \cup {o}
      <4>1. p \in Objects /\ (p # o => p \in Live)
        BY <3>1, <3>2
      <4>2. refs'[p] = IF p = o THEN {} ELSE refs[p]
        BY <1>2, <2>1, <4>1
      <4> QED
        BY <1>3, <4>1, <4>2
    <3> HIDE DEF Live
    <3> QED
      BY <1>4, <3>1, <3>2
  <2>4. roots' \in SUBSET Objects /\ refs' \in [Objects -> SUBSET Objects]
    BY <1>2, <2>1, <2>2
  <2> QED
    BY <1>1, <1>2, <2>1, <2>3, <2>4 DEF HeapInv
<1>6. ASSUME NEW t \in Threads, Allocating(t)
      PROVE  HeapInv'
  <2>1. UNCHANGED <<roots, refs, cutOff>> /\ inUse' = inUse
    BY <1>6 DEF Allocating, heap, Step, Program, Malloc, LargeFail, Retry, LookAtCache, TakeFromSegreg,
      SegregEmpty, TakeEmpty, NoEmptyBlock, FillReadHead, FillZero, Fail, ScanFree, ScanMarked,
      CompareSet, CompareClear, LoadByte, StoreByte, ScanExhausted, history
  <2> QED
    BY <1>1, <1>2, <2>1 DEF HeapInv, Live
<1>7. ASSUME Mutate
      PROVE  HeapInv'
  <2>1. cutOff' = cutOff /\ inUse' = inUse
    BY <1>7 DEF Mutate, Store, Load, Overwrite, Forget, vars, history
  <2>2. roots' \subseteq Live /\ \A o \in Live : refs'[o] \subseteq Live
    BY <1>2, <1>3, <1>7 DEF Mutate, Store, Load, Overwrite, Forget
  <2>3. refs' \in [Objects -> SUBSET Objects]
    BY <1>2, <1>3, <1>7 DEF Mutate, Store, Load, Overwrite, Forget
  <2>4. Live' \subseteq Live
    BY <1>3, <1>4, <2>2
  <2> QED
    BY <1>1, <1>2, <1>3, <2>1, <2>2, <2>3, <2>4 DEF HeapInv
<1>8. ASSUME CollectGarbage
      PROVE  HeapInv'
  <2>1. PICK stray \in SUBSET Objects : Collect(Marked(Reached(stray)))
    BY <1>8 DEF CollectGarbage
  <2>2. /\ cutOff' = (cutOff \/ \E o \in Live : BitSet(o) /\ refs[o] # {})
        /\ UNCHANGED <<roots, refs>>
    BY <1>8 DEF CollectGarbage
  <2>3. ASSUME ~cutOff'
        PROVE  Live' \subseteq inUse'
    <3>1. Live' = Live /\ Live \subseteq inUse
      BY <1>2, <2>2, <2>3 DEF Live
    <3>2. Live \subseteq Markable
      BY <3>1 DEF HeapInv, LaidOut
    <3>3. Live \subseteq Reached(stray)
      <4> DEFINE edges == [o \in Objects |-> Found(Traversed(o))]
      <4>0. \A o \in Live : edges[o] = refs[o]
        BY <1>3, <2>2, <2>3, <3>2 DEF Traversed, Found
      <4>1. roots \subseteq Found(roots \cup stray)
        BY <1>3, <3>2 DEF Found
      <4> HIDE DEF edges
      <4>2. ASSUME NEW S \in SUBSET Objects, ClosedUnder(S, edges, Found(roots \cup stray))
            PROVE  Live \subseteq S
        <5>1. \A o \in S \cap Live : refs[o] \subseteq S
          BY <4>0, <4>2 DEF ClosedUnder
        <5>2. ClosedUnder(S \cap Live, refs, roots)
          BY <1>3, <4>1, <4>2, <5>1 DEF ClosedUnder
        <5>3. Live \subseteq S \cap Live
          BY <5>2, ReachedIsLeast DEF Live
        <5> QED
          BY <5>3
      <4>3. Live \subseteq ReachedBy(Objects, edges, Found(roots \cup stray))
        BY <1>3, <4>2 DEF ReachedBy
      <4> QED
        BY <4>3 DEF edges, Reached
    <3>4. ASSUME NEW m \in Live
          PROVE  m \in inUse'
      <4>1. m \in Markable /\ m[2] < Slots[objSize[m[1]]]
        BY <3>1, <3>4 DEF HeapInv, LaidOut
      <4>2. m \in Reached(stray)
        BY <3>3, <3>4
      <4>3. m[1] \in Blocks
        BY <1>3, <3>4 DEF Objects
      <4> HIDE DEF Reached
      <4>4. m[2] \in Marked(Reached(stray))[m[1]]
        BY <4>2, <4>3 DEF Marked
      <4> QED
        BY <2>1, <4>1, <4>4 DEF Collect, Sweep
    <3> QED
      BY <3>1, <3>4
  <2>4. cutOff' \in BOOLEAN
    BY <2>2
  <2> QED
    BY <1>1, <1>2, <2>2, <2>3, <2>4 DEF HeapInv
<1>9. CASE UNCHANGED collectorVars
  BY <1>1, <1>2, <1>9 DEF collectorVars, vars, heap, history, HeapInv, Live
<1> QED
  BY <1>5, <1>6, <1>7, <1>8, <1>9 DEF CollectorNext

LEMMA HeapInvariant == CollectorSpec => []HeapInv
<1>1. CollectorInit => HeapInv
  <2> SUFFICES ASSUME CollectorInit PROVE HeapInv
    OBVIOUS
  <2>1. ClosedUnder({}, refs, roots)
    BY DEF CollectorInit, ClosedUnder
  <2>2. Live = {}
    BY <2>1 DEF Live, ReachedBy
  <2>3. LaidOut
    BY DEF CollectorInit, Init, LaidOut
  <2> QED
    BY <2>2, <2>3 DEF CollectorInit, HeapInv
<1>2. IInv /\ SlotInv /\ HeapInv /\ [CollectorNext]_collectorVars => HeapInv'
  BY HeapInvKept
<1>3. CollectorSpec => [](IInv /\ SlotInv)
  BY CollectorImplementsAllocator, SmallAllocatorInvariant, SlotInvariant, PTL
<1> QED
  BY <1>1, <1>2, <1>3, PTL DEF CollectorSpec

(***************************************************************************)
(* For every program: while no set bit has stopped mark() early, memory that *)
(* the program can get at is not handed out again, except from blocks whose  *)
(* bits were thrown away (gc.c, 11-22; marking.c, 36-41).                    *)
(***************************************************************************)
THEOREM ReachableMemoryIsKept == CollectorSpec => []Intact
<1>1. HeapInv /\ FreshUnlessZeroed => Intact
  BY DEF HeapInv, FreshUnlessZeroed, Intact
<1>2. CollectorSpec => []FreshUnlessZeroed
  BY CollectorImplementsAllocator, SlotsAreFresh, PTL
<1> QED
  BY <1>1, <1>2, HeapInvariant, PTL

(***************************************************************************)
(* For every program, the variables of the composition keep their types.     *)
(***************************************************************************)
THEOREM CollectorTypes == CollectorSpec => []CollectorTypeOK
<1>1. HeapInv /\ TypeOK => CollectorTypeOK
  BY DEF HeapInv, CollectorTypeOK
<1>2. CollectorSpec => []TypeOK
  BY CollectorImplementsAllocator, SmallAllocatorTypes, PTL
<1> QED
  BY <1>1, <1>2, HeapInvariant, PTL

===============================================================================
