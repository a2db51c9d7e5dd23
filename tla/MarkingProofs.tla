---------------------------- MODULE MarkingProofs -----------------------------
(***************************************************************************)
(* Proofs about Marking, for every set of objects, every heap and every     *)
(* number of root segments.                                                 *)
(***************************************************************************)
EXTENDS Marking, SequenceTheorems, FiniteSetTheorems, TLAPS

OnStack == {stack[i] : i \in 1 .. Len(stack)}

\* Bits are only added; an object that left the stack has been read, but for
\* the words of the object in scan().
ScannedInv ==
  /\ stale \subseteq marked
  /\ \A o \in marked \ stale : o \in OnStack \/ refs[o] \subseteq marked \cup fields

\* The segments entered so far are read, but for the words left in todo.
RootsInv ==
  \A i \in SegmentIds : i <= seg => segments[i] \subseteq marked \cup todo

\* Only reachable objects get a bit.
SoundInv ==
  /\ marked \subseteq stale \cup Reached
  /\ todo \subseteq Reached
  /\ fields \subseteq Reached

FinishedInv == Done => SegmentDone

IInv ==
  /\ TypeOK
  /\ PushedOnce
  /\ ScannedInv
  /\ RootsInv
  /\ SoundInv
  /\ FinishedInv

-------------------------------------------------------------------------------

\* Reached holds every root, and the words of every object in it whose bit was
\* clear.
LEMMA ReachedClosed ==
  ASSUME TypeOK
  PROVE  /\ Reached \subseteq Objects
         /\ \A i \in SegmentIds : segments[i] \subseteq Reached
         /\ \A o \in Reached \ stale : refs[o] \subseteq Reached
<1>1. Reached \subseteq Objects
  BY DEF Reached, ReachedBy
<1>2. ASSUME NEW i \in SegmentIds, NEW o \in segments[i]
      PROVE  o \in Reached
  <2>1. o \in Objects /\ o \in Roots
    BY <1>2 DEF TypeOK, Roots
  <2>. QED
    BY <2>1 DEF Reached, ReachedBy, ClosedUnder
<1>3. ASSUME NEW o \in Reached, o \notin stale, NEW p \in refs[o]
      PROVE  p \in Reached
  <2>1. p \in Objects /\ o \in Objects /\ p \in Edges[o]
    BY <1>1, <1>3 DEF TypeOK, Edges
  <2>2. ASSUME NEW S \in SUBSET Objects, ClosedUnder(S, Edges, Roots)
        PROVE  p \in S
    <3>1. o \in S
      BY <1>3, <2>2 DEF Reached, ReachedBy
    <3>. QED
      BY <2>1, <2>2, <3>1 DEF ClosedUnder
  <2>. QED
    BY <2>1, <2>2 DEF Reached, ReachedBy
<1>. QED
  BY <1>1, <1>2, <1>3

\* Reached is the least such set.
LEMMA ReachedLeast ==
  ASSUME NEW S \in SUBSET Objects,
         \A i \in SegmentIds : segments[i] \subseteq S,
         \A o \in S : Edges[o] \subseteq S
  PROVE  Reached \subseteq S
<1>1. ClosedUnder(S, Edges, Roots)
  BY DEF ClosedUnder, Roots
<1>. QED
  BY <1>1 DEF Reached, ReachedBy

\* mark_and_push() keeps the stack duplicate-free and loses no object.
LEMMA PushPreserves ==
  ASSUME TypeOK, PushedOnce, ScannedInv,
         NEW o \in Objects, MarkAndPush(o), UNCHANGED <<refs, stale>>
  PROVE  /\ stack' \in Seq(Objects)
         /\ marked' = marked \cup {o}
         /\ PushedOnce'
         /\ OnStack' = OnStack \cup (marked' \ marked)
<1>1. CASE o \in marked
  BY <1>1 DEF MarkAndPush, PushedOnce, OnStack, TypeOK
<1>2. CASE o \notin marked
  <2>1. /\ marked' = marked \cup {o}
        /\ stack' = Append(stack, o)
    BY <1>2 DEF MarkAndPush
  <2>2. /\ stack' \in Seq(Objects)
        /\ Len(stack') = Len(stack) + 1
        /\ Len(stack) \in Nat
        /\ \A i \in 1 .. Len(stack) : stack'[i] = stack[i]
        /\ stack'[Len(stack) + 1] = o
    BY <2>1 DEF TypeOK
  <2>3. \A i \in 1 .. Len(stack) : stack[i] # o /\ stack[i] \in marked' \ stale
    BY <1>2, <2>1 DEF PushedOnce
  <2>4. o \in marked' \ stale
    BY <1>2, <2>1 DEF ScannedInv
  <2>5. PushedOnce'
    BY <2>2, <2>3, <2>4 DEF PushedOnce
  <2>6. OnStack' = OnStack \cup {o}
    BY <2>2 DEF OnStack
  <2>. QED
    BY <1>2, <2>1, <2>2, <2>5, <2>6
<1>. QED
  BY <1>1, <1>2

\* Taking the top off a stack without duplicates.
LEMMA PopPreserves ==
  ASSUME TypeOK, PushedOnce, stack # <<>>, stack' = Popped,
         UNCHANGED <<marked, stale>>
  PROVE  /\ stack' \in Seq(Objects) /\ Len(stack') = Len(stack) - 1
         /\ stack[Len(stack)] \in marked \ stale
         /\ PushedOnce'
         /\ OnStack \subseteq OnStack' \cup {stack[Len(stack)]}
<1>1. /\ Len(stack) \in Nat \ {0}
      /\ stack' \in Seq(Objects)
      /\ Len(stack') = Len(stack) - 1
      /\ \A i \in 1 .. Len(stack) - 1 : stack'[i] = stack[i]
  <2>1. Len(stack) \in Nat \ {0}
    BY EmptySeq DEF TypeOK
  <2>2. \A i \in 1 .. Len(stack) - 1 : stack[i] \in Objects
    BY <2>1 DEF TypeOK
  <2>. DEFINE n == Len(stack) - 1
  <2>3. /\ SubSeq(stack, 1, n) \in Seq(Objects)
        /\ Len(SubSeq(stack, 1, n)) = IF 1 <= n THEN n - 1 + 1 ELSE 0
        /\ \A i \in 1 .. n - 1 + 1 : SubSeq(stack, 1, n)[i] = stack[1 + i - 1]
    <3>1. 1 \in Int /\ n \in Int
      BY <2>1
    <3>. QED
      BY <2>2, <3>1, SubSeqProperties
  <2>4. stack' = SubSeq(stack, 1, n)
    BY DEF Popped
  <2>5. n \in Nat /\ Len(stack) = n + 1
    BY <2>1
  <2>. HIDE DEF n
  <2>6. stack' \in Seq(Objects) /\ Len(stack') = n
    BY <2>3, <2>4, <2>5
  <2>7. \A i \in 1 .. n : SubSeq(stack, 1, n)[i] = stack[i]
    BY <2>3, <2>5
  <2>. QED
    BY <2>1, <2>4, <2>6, <2>7 DEF n
<1>2. PushedOnce'
  BY <1>1 DEF PushedOnce
<1>3. stack[Len(stack)] \in marked \ stale
  BY <1>1 DEF PushedOnce
<1>4. OnStack \subseteq OnStack' \cup {stack[Len(stack)]}
  BY <1>1 DEF OnStack
<1>. QED
  BY <1>1, <1>2, <1>3, <1>4

-------------------------------------------------------------------------------

LEMMA InitIInv == Init => IInv
<1>. SUFFICES ASSUME Init PROVE IInv
  OBVIOUS
<1>1. TypeOK
  BY SegmentCountAssumption DEF Init, TypeOK
<1>2. PushedOnce /\ ScannedInv
  BY DEF Init, PushedOnce, ScannedInv
<1>3. RootsInv
  BY DEF Init, RootsInv, SegmentIds
<1>4. SoundInv
  BY DEF Init, SoundInv
<1>5. FinishedInv
  BY DEF Init, FinishedInv, Done, SegmentDone
<1>. QED
  BY <1>1, <1>2, <1>3, <1>4, <1>5 DEF IInv

\* Reached depends on the frozen heap only.
LEMMA ReachedUnchanged ==
  ASSUME UNCHANGED heap PROVE Reached' = Reached
BY DEF heap, Reached, Roots, Edges

LEMMA StepIInv == IInv /\ [Next]_vars => IInv'
<1>. SUFFICES ASSUME IInv, [Next]_vars PROVE IInv'
  OBVIOUS
<1>. USE DEF IInv
<1>1. CASE VisitRootWord
  <2>. PICK o \in todo :
         /\ MarkAndPush(o)
         /\ todo' = todo \ {o}
         /\ UNCHANGED <<heap, seg, fields>>
    BY <1>1 DEF VisitRootWord
  <2>1. o \in Objects
    BY DEF TypeOK
  <2>2. UNCHANGED <<refs, stale, segments>> /\ Reached' = Reached
    BY ReachedUnchanged DEF heap
  <2>3. /\ stack' \in Seq(Objects)
        /\ marked' = marked \cup {o}
        /\ PushedOnce'
        /\ OnStack' = OnStack \cup (marked' \ marked)
    BY <2>1, <2>2, PushPreserves
  <2>4. TypeOK'
    BY <2>1, <2>2, <2>3 DEF TypeOK
  <2>5. ScannedInv'
    BY <2>2, <2>3 DEF ScannedInv
  <2>6. RootsInv'
    BY <2>2, <2>3 DEF RootsInv
  <2>7. SoundInv'
    BY <2>2, <2>3 DEF SoundInv
  <2>8. FinishedInv'
    BY DEF FinishedInv, Done, SegmentDone
  <2>. QED
    BY <2>3, <2>4, <2>5, <2>6, <2>7, <2>8
<1>2. CASE PopAndScan
  <2>. DEFINE top == stack[Len(stack)]
  <2>1. UNCHANGED <<refs, stale, segments, marked, seg, todo>> /\ Reached' = Reached
    BY <1>2, ReachedUnchanged DEF PopAndScan, heap
  <2>2. /\ stack' \in Seq(Objects)
        /\ top \in marked \ stale
        /\ PushedOnce'
        /\ OnStack \subseteq OnStack' \cup {top}
    BY <1>2, <2>1, PopPreserves DEF PopAndScan
  <2>3. fields = {} /\ todo = {} /\ fields' = refs[top]
    BY <1>2 DEF PopAndScan
  <2>4. TypeOK'
    BY <2>1, <2>2, <2>3 DEF TypeOK
  <2>5. ScannedInv'
    BY <2>1, <2>2, <2>3 DEF ScannedInv
  <2>6. RootsInv'
    BY <2>1 DEF RootsInv
  <2>7. SoundInv'
    BY <2>1, <2>2, <2>3, ReachedClosed DEF SoundInv
  <2>8. FinishedInv'
    BY <1>2, <2>1 DEF FinishedInv, Done, SegmentDone, PopAndScan
  <2>. QED
    BY <2>2, <2>4, <2>5, <2>6, <2>7, <2>8
<1>3. CASE ScanWord
  <2>. PICK o \in fields :
         /\ MarkAndPush(o)
         /\ fields' = fields \ {o}
         /\ UNCHANGED <<heap, seg, todo>>
    BY <1>3 DEF ScanWord
  <2>1. o \in Objects
    BY DEF TypeOK
  <2>2. UNCHANGED <<refs, stale, segments>> /\ Reached' = Reached
    BY ReachedUnchanged DEF heap
  <2>3. /\ stack' \in Seq(Objects)
        /\ marked' = marked \cup {o}
        /\ PushedOnce'
        /\ OnStack' = OnStack \cup (marked' \ marked)
    BY <2>1, <2>2, PushPreserves
  <2>4. TypeOK'
    BY <2>1, <2>2, <2>3 DEF TypeOK
  <2>5. ScannedInv'
    BY <2>2, <2>3 DEF ScannedInv
  <2>6. RootsInv'
    BY <2>2, <2>3 DEF RootsInv
  <2>7. SoundInv'
    BY <2>2, <2>3 DEF SoundInv
  <2>8. FinishedInv'
    BY DEF FinishedInv, Done, SegmentDone
  <2>. QED
    BY <2>3, <2>4, <2>5, <2>6, <2>7, <2>8
<1>4. CASE NextSegment
  <2>1. UNCHANGED <<refs, stale, segments, marked, stack, fields>> /\ Reached' = Reached
    BY <1>4, ReachedUnchanged DEF NextSegment, heap
  <2>2. /\ todo = {} /\ fields = {} /\ stack = <<>>
        /\ seg' = seg + 1 /\ seg \in 0 .. SegmentCount
        /\ todo' = IF seg < SegmentCount THEN segments[seg + 1] ELSE {}
    BY <1>4, SegmentCountAssumption DEF NextSegment, SegmentDone, MoreSegments, TypeOK
  <2>3. seg < SegmentCount => seg + 1 \in SegmentIds
    BY <2>2, SegmentCountAssumption DEF SegmentIds
  <2>4. TypeOK'
    BY <2>1, <2>2, <2>3, SegmentCountAssumption DEF TypeOK
  <2>5. PushedOnce' /\ ScannedInv'
    BY <2>1 DEF PushedOnce, ScannedInv, OnStack
  <2>6. RootsInv'
    BY <2>1, <2>2, SegmentCountAssumption DEF RootsInv, SegmentIds
  <2>7. SoundInv'
    BY <2>1, <2>2, <2>3, ReachedClosed DEF SoundInv
  <2>8. FinishedInv'
    BY <2>1, <2>2, SegmentCountAssumption DEF FinishedInv, Done, SegmentDone
  <2>. QED
    BY <2>4, <2>5, <2>6, <2>7, <2>8
<1>5. CASE UNCHANGED vars
  <2>1. UNCHANGED <<refs, segments, stale, marked, stack, seg, todo, fields>>
        /\ Reached' = Reached
    BY <1>5, ReachedUnchanged DEF vars, heap
  <2>. QED
    BY <2>1 DEF TypeOK, PushedOnce, ScannedInv, OnStack, RootsInv, SoundInv,
                FinishedInv, Done, SegmentDone
<1>. QED
  BY <1>1, <1>2, <1>3, <1>4, <1>5 DEF Next

LEMMA IInvExact == IInv => MarkExact
<1>. SUFFICES ASSUME IInv, Done PROVE marked = stale \cup Reached
  BY DEF MarkExact
<1>1. todo = {} /\ fields = {} /\ stack = <<>>
  BY DEF IInv, FinishedInv, SegmentDone
<1>2. marked \in SUBSET Objects /\ stale \subseteq marked
  BY DEF IInv, TypeOK, ScannedInv
<1>3. \A i \in SegmentIds : segments[i] \subseteq marked
  BY <1>1, SegmentCountAssumption DEF IInv, RootsInv, Done, SegmentIds
<1>4. OnStack = {}
  BY <1>1 DEF OnStack
<1>5. \A o \in marked : Edges[o] \subseteq marked
  BY <1>1, <1>2, <1>4 DEF IInv, ScannedInv, Edges
<1>6. Reached \subseteq marked
  BY <1>2, <1>3, <1>5, ReachedLeast
<1>. QED
  BY <1>2, <1>6 DEF IInv, SoundInv

-------------------------------------------------------------------------------

(***************************************************************************)
(* The mark phase is exact on every heap (marker/marking.c, mark()): bits   *)
(* set at its end are the stale ones and those of the objects reachable     *)
(* from the root segments along objects without a stale bit.                *)
(***************************************************************************)
THEOREM MarkingExact == Spec => []MarkExact
<1>1. IInv => MarkExact
  BY IInvExact
<1>. QED
  BY <1>1, InitIInv, StepIInv, PTL DEF Spec

(***************************************************************************)
(* No object is on the mark stack twice (marker/stack.c never needs more    *)
(* room than there are objects).                                            *)
(***************************************************************************)
THEOREM MarkingPushedOnce == Spec => []PushedOnce
<1>1. IInv => PushedOnce
  BY DEF IInv
<1>. QED
  BY <1>1, InitIInv, StepIInv, PTL DEF Spec

(***************************************************************************)
(* Every variable keeps to its type (marker/marking.c, marker/stack.c).     *)
(***************************************************************************)
THEOREM MarkingTypes == Spec => []TypeOK
<1>1. IInv => TypeOK
  BY DEF IInv
<1>. QED
  BY <1>1, InitIInv, StepIInv, PTL DEF Spec

-------------------------------------------------------------------------------
(***************************************************************************)
(* mark() ends.                                                             *)
(***************************************************************************)

\* What the sets in Work count.
LEMMA ObjectSets ==
  ASSUME NEW S \in SUBSET Objects
  PROVE  /\ IsFiniteSet(S)
         /\ Cardinality(S) \in Nat
         /\ Cardinality(S) <= Cardinality(Objects)
         /\ \A o \in S : Cardinality(S \ {o}) = Cardinality(S) - 1
         /\ Cardinality({}) = 0
BY ObjectsAssumption, FS_Subset, FS_CardinalityType, FS_RemoveElement, FS_EmptySet

LEMMA OneLess ==
  ASSUME NEW a \in Nat, NEW b \in Nat, NEW n \in Nat, b < a
  PROVE  b * n + n <= a * n
<1>1. PICK d \in Nat : a = b + 1 + d
  <2>1. a - b - 1 \in Nat /\ a = b + 1 + (a - b - 1)
    OBVIOUS
  <2> QED
    BY <2>1
<1>2. a * n = b * n + n + d * n
  BY <1>1
<1>3. d * n \in Nat
  OBVIOUS
<1> QED
  BY <1>2, <1>3

\* Rounds left: what Work counts with a factor.
Rounds == (SegmentCount + 1 - seg) + Cardinality(Objects \ marked) + Len(stack)

WorkNatural ==
  /\ Rounds \in Nat /\ Work \in Nat
  /\ Work = Rounds * (Cardinality(Objects) + 1) + Cardinality(todo) + Cardinality(fields)

LEMMA WorkIsNatural == TypeOK => WorkNatural
<1>. SUFFICES ASSUME TypeOK PROVE WorkNatural
  OBVIOUS
<1>1. /\ Cardinality(Objects) \in Nat /\ Cardinality(Objects \ marked) \in Nat
      /\ Cardinality(todo) \in Nat /\ Cardinality(fields) \in Nat
  BY ObjectSets DEF TypeOK
<1>2. Len(stack) \in Nat /\ SegmentCount + 1 - seg \in Nat
  BY SegmentCountAssumption DEF TypeOK
<1>3. Rounds \in Nat
  BY <1>1, <1>2 DEF Rounds
<1>4. Rounds * (Cardinality(Objects) + 1) \in Nat
  BY <1>1, <1>3
<1>. QED
  BY <1>1, <1>3, <1>4 DEF WorkNatural, Work, Rounds

LEMMA WorkStaysNatural == TypeOK' => WorkNatural'
BY WorkIsNatural, PTL

\* A round less pays for the words of one object or segment.
LEMMA RoundPays ==
  ASSUME TypeOK, TypeOK', Rounds' < Rounds,
         Cardinality(todo)' + Cardinality(fields)' <= Cardinality(Objects)
  PROVE  Work' < Work
<1>1. Rounds' * (Cardinality(Objects) + 1) + (Cardinality(Objects) + 1)
        <= Rounds * (Cardinality(Objects) + 1)
  BY WorkIsNatural, WorkStaysNatural, ObjectSets, OneLess DEF WorkNatural
<1>2. /\ Rounds' * (Cardinality(Objects) + 1) \in Nat /\ Rounds * (Cardinality(Objects) + 1) \in Nat
      /\ Cardinality(Objects) \in Nat
  BY WorkIsNatural, WorkStaysNatural, ObjectSets DEF WorkNatural
<1>3. /\ Cardinality(todo) \in Nat /\ Cardinality(fields) \in Nat
      /\ Cardinality(todo)' \in Nat /\ Cardinality(fields)' \in Nat
  BY ObjectSets DEF TypeOK
<1>. QED
  BY <1>1, <1>2, <1>3, WorkIsNatural, WorkStaysNatural DEF WorkNatural

\* mark_and_push() takes from the objects without a bit what it puts on the stack.
LEMMA PushKeepsRounds ==
  ASSUME TypeOK, NEW o \in Objects, MarkAndPush(o), UNCHANGED seg
  PROVE  Rounds' = Rounds
<1>1. CASE o \in marked
  BY <1>1 DEF MarkAndPush, Rounds
<1>2. CASE o \notin marked
  <2>1. /\ Objects \ marked' = (Objects \ marked) \ {o}
        /\ Cardinality(Objects \ marked') = Cardinality(Objects \ marked) - 1
        /\ Cardinality(Objects \ marked) \in Nat
    BY <1>2, ObjectSets DEF MarkAndPush
  <2>2. Len(stack') = Len(stack) + 1 /\ Len(stack) \in Nat
    BY <1>2 DEF MarkAndPush, TypeOK
  <2>3. SegmentCount + 1 - seg \in Nat
    BY SegmentCountAssumption DEF TypeOK
  <2>. QED
    BY <2>1, <2>2, <2>3 DEF Rounds
<1>. QED
  BY <1>1, <1>2

\* A word read is a word less.
LEMMA WordPays ==
  ASSUME TypeOK, TypeOK', Rounds' = Rounds,
         Cardinality(todo)' + Cardinality(fields)' < Cardinality(todo) + Cardinality(fields)
  PROVE  Work' < Work
<1>1. Rounds * (Cardinality(Objects) + 1) \in Nat
  BY WorkIsNatural, ObjectSets DEF WorkNatural
<1>2. /\ Cardinality(todo) \in Nat /\ Cardinality(fields) \in Nat
      /\ Cardinality(todo)' \in Nat /\ Cardinality(fields)' \in Nat
  BY ObjectSets DEF TypeOK
<1>. QED
  BY <1>1, <1>2, WorkIsNatural, WorkStaysNatural DEF WorkNatural

(***************************************************************************)
(* For every heap, each iteration takes something from a natural number, so  *)
(* that mark() cannot go on for ever (marking.c, 34-134).                    *)
(***************************************************************************)
THEOREM MarkingGetsOn == Spec => WorkFalls /\ [](Work \in Nat)
<1>1. IInv => Work \in Nat
  BY WorkIsNatural DEF IInv, WorkNatural
<1>2. ASSUME IInv, IInv', [Next]_vars
      PROVE  [Work' < Work]_vars
  <2>1. TypeOK /\ TypeOK'
    BY <1>2 DEF IInv
  <2>2. CASE VisitRootWord
    <3>1. PICK o \in todo : MarkAndPush(o) /\ todo' = todo \ {o} /\ UNCHANGED <<heap, seg, fields>>
      BY <2>2 DEF VisitRootWord
    <3>2. Rounds' = Rounds
      BY <2>1, <3>1, PushKeepsRounds DEF TypeOK
    <3>3. /\ Cardinality(todo)' = Cardinality(todo) - 1 /\ Cardinality(fields)' = Cardinality(fields)
          /\ Cardinality(todo) \in Nat /\ Cardinality(fields) \in Nat
      BY <2>1, <3>1, ObjectSets DEF TypeOK
    <3>. QED
      BY <2>1, <3>2, <3>3, WordPays
  <2>3. CASE ScanWord
    <3>1. PICK o \in fields : MarkAndPush(o) /\ fields' = fields \ {o} /\ UNCHANGED <<heap, seg, todo>>
      BY <2>3 DEF ScanWord
    <3>2. Rounds' = Rounds
      BY <2>1, <3>1, PushKeepsRounds DEF TypeOK
    <3>3. /\ Cardinality(fields)' = Cardinality(fields) - 1 /\ Cardinality(todo)' = Cardinality(todo)
          /\ Cardinality(todo) \in Nat /\ Cardinality(fields) \in Nat
      BY <2>1, <3>1, ObjectSets DEF TypeOK
    <3>. QED
      BY <2>1, <3>2, <3>3, WordPays
  <2>4. CASE PopAndScan
    <3>1. /\ stack # <<>> /\ Len(stack) \in Nat /\ stack' = SubSeq(stack, 1, Len(stack) - 1)
          /\ UNCHANGED <<marked, seg>> /\ todo' = {}
      BY <2>1, <2>4 DEF PopAndScan, Popped, TypeOK
    <3>2. Len(stack') = Len(stack) - 1
      BY <1>2, <2>4, <3>1, PopPreserves DEF PopAndScan, heap, IInv
    <3>3. Rounds' < Rounds
      BY <2>1, <3>1, <3>2, ObjectSets, SegmentCountAssumption DEF Rounds, TypeOK
    <3>4. Cardinality(todo)' = 0 /\ Cardinality(fields)' \in Nat
          /\ Cardinality(fields)' <= Cardinality(Objects)
      BY <2>1, <3>1, ObjectSets DEF TypeOK
    <3>. QED
      BY <2>1, <3>3, <3>4, RoundPays
  <2>5. CASE NextSegment
    <3>1. /\ seg' = seg + 1 /\ fields' = {} /\ UNCHANGED <<marked, stack>>
      BY <2>5 DEF NextSegment, SegmentDone
    <3>2. Rounds' < Rounds
      <4>1. Cardinality(Objects \ marked) \in Nat /\ Len(stack) \in Nat /\ seg \in Nat
        BY <2>1, ObjectSets, SegmentCountAssumption DEF TypeOK
      <4>. QED
        BY <3>1, <4>1, SegmentCountAssumption DEF Rounds
    <3>3. Cardinality(fields)' = 0 /\ Cardinality(todo)' \in Nat
          /\ Cardinality(todo)' <= Cardinality(Objects)
      BY <2>1, <3>1, ObjectSets DEF TypeOK
    <3>. QED
      BY <2>1, <3>2, <3>3, RoundPays
  <2>. QED
    BY <1>2, <2>2, <2>3, <2>4, <2>5 DEF Next
<1>3. Spec => []IInv
  BY InitIInv, StepIInv, PTL DEF Spec
<1>. QED
  BY <1>1, <1>2, <1>3, PTL DEF Spec, WorkFalls

===============================================================================
