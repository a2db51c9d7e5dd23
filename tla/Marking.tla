------------------------------- MODULE Marking --------------------------------
(***************************************************************************)
(* The mark phase, marker/marking.c with its explicit stack marker/stack.c. *)
(* It runs in the service thread while every mutator is stopped, so the     *)
(* heap and the root segments do not change under it.                       *)
(*                                                                          *)
(* An object's words and a segment's words are abstracted to the set of     *)
(* objects that get_object() resolves them to: words that resolve to no     *)
(* object have no effect, and the order in which a segment is read is left  *)
(* open.                                                                    *)
(***************************************************************************)
EXTENDS Naturals, Sequences, FiniteSets, Reachability

CONSTANTS
  Objects,      \* what get_object() can return
  SegmentCount  \* stacks of the registered threads, then .data, then .bss

ASSUME SegmentCountAssumption == SegmentCount \in Nat
ASSUME ObjectsAssumption == IsFiniteSet(Objects)

VARIABLES
  refs,      \* refs[o]: objects that words inside o point to
  segments,  \* segments[i]: objects that words of root segment i point to
  stale,     \* mark bits already set when mark() is called
  marked,    \* mark bits (the small heap's bitmaps, isMarked in the large one)
  stack,     \* the global Stack* of marking.c, top at the end
  seg,       \* index of the segment being traversed
  todo,      \* words of that segment not read yet
  fields     \* words not read yet of the object in scan()

heap == <<refs, segments, stale>>
vars == <<refs, segments, stale, marked, stack, seg, todo, fields>>

SegmentIds == 1 .. SegmentCount

TypeOK ==
  /\ refs \in [Objects -> SUBSET Objects]
  /\ segments \in [SegmentIds -> SUBSET Objects]
  /\ stale \in SUBSET Objects
  /\ marked \in SUBSET Objects
  /\ stack \in Seq(Objects)
  /\ seg \in 0 .. SegmentCount + 1
  /\ todo \in SUBSET Objects
  /\ fields \in SUBSET Objects

Init ==
  /\ refs \in [Objects -> SUBSET Objects]
  /\ segments \in [SegmentIds -> SUBSET Objects]
  /\ stale \in SUBSET Objects
  /\ marked = stale
  /\ stack = <<>>
  /\ seg = 0
  /\ todo = {}
  /\ fields = {}

-------------------------------------------------------------------------------

\* Mutant of MarkAndPush: the mark bit is left to be set later.
MarkAndPushLate(o) ==
  IF o \in marked
  THEN UNCHANGED <<marked, stack>>
  ELSE /\ stack' = Append(stack, o)
       /\ UNCHANGED marked

\* Mutant of MarkAndPush: the mark bit is not looked at.
MarkAndPushAgain(o) ==
  /\ marked' = marked \cup {o}
  /\ stack' = Append(stack, o)

\* mark_and_push(): is_marked(), mark_object() and push().
MarkAndPush(o) ==
  IF o \in marked
  THEN UNCHANGED <<marked, stack>>
  ELSE /\ marked' = marked \cup {o}
       /\ stack' = Append(stack, o)

\* One iteration of the loop of segment_traverse().
VisitRootWord ==
  \E o \in todo :
    /\ MarkAndPush(o)
    /\ todo' = todo \ {o}
    /\ UNCHANGED <<heap, seg, fields>>

\* Mutant of Popped: the top is read but not removed.
Peeked == stack

\* What pop() leaves on the stack.
Popped == SubSeq(stack, 1, Len(stack) - 1)

\* One iteration of closure(): pop an object and enter scan() for it.
PopAndScan ==
  /\ todo = {}
  /\ fields = {}
  /\ stack # <<>>
  /\ fields' = refs[stack[Len(stack)]]
  /\ stack' = Popped
  /\ UNCHANGED <<heap, marked, seg, todo>>

\* One iteration of the loop of scan().
ScanWord ==
  \E o \in fields :
    /\ MarkAndPush(o)
    /\ fields' = fields \ {o}
    /\ UNCHANGED <<heap, seg, todo>>

\* Mutant of SegmentDone: closure() stops before the stack is empty.
SegmentDoneEarly == todo = {} /\ fields = {}

\* segment_traverse() returns once its closure() has emptied the stack.
SegmentDone == todo = {} /\ fields = {} /\ stack = <<>>

\* Mutant of MoreSegments: the end of the thread list is not checked.
MoreSegmentsUnchecked == TRUE

\* The loop condition of threads_stacks_marking() and the two calls after it.
MoreSegments == seg <= SegmentCount

\* threads_stacks_marking() and mark() go from one segment to the next.
NextSegment ==
  /\ SegmentDone
  /\ MoreSegments
  /\ seg' = seg + 1
  /\ todo' = IF seg < SegmentCount THEN segments[seg + 1] ELSE {}
  /\ UNCHANGED <<heap, marked, stack, fields>>

Next ==
  \/ VisitRootWord
  \/ PopAndScan
  \/ ScanWord
  \/ NextSegment

Spec == Init /\ [][Next]_vars

\* mark() is straight-line code of one thread that nothing blocks.
FairSpec == Spec /\ WF_vars(Next)

-------------------------------------------------------------------------------

Done == seg = SegmentCount + 1

Roots == UNION {segments[i] : i \in SegmentIds}

\* An object whose bit was set before mark() began is never pushed, so its
\* words are never read.
Edges == [o \in Objects |-> IF o \in stale THEN {} ELSE refs[o]]

Reached == ReachedBy(Objects, Edges, Roots)

(***************************************************************************)
(* What mark() promises sweep(): at its end the set bits are the bits that  *)
(* were set before it, and exactly the objects reachable from a stack, .data *)
(* or .bss along objects whose bit was clear.  With no bit set beforehand   *)
(* (stale = {}) that is reachability; a stale bit cuts the heap below it.   *)
(***************************************************************************)
MarkExact == Done => marked = stale \cup Reached

(***************************************************************************)
(* closure() pushes an object at most once per collection and only when it   *)
(* is marked: the stack never outgrows the number of objects, whatever the   *)
(* sharing and the cycles in the heap.                                      *)
(***************************************************************************)
PushedOnce ==
  /\ \A i, j \in 1 .. Len(stack) : stack[i] = stack[j] => i = j
  /\ \A i \in 1 .. Len(stack) : stack[i] \in marked \ stale

\* Iterations that mark() can still make, at most: a word per object in what is
\* being read, and as many again for each segment, each object on the stack and
\* each object without a bit.
Work ==
  ((SegmentCount + 1 - seg) + Cardinality(Objects \ marked) + Len(stack))
      * (Cardinality(Objects) + 1)
    + Cardinality(todo) + Cardinality(fields)

(***************************************************************************)
(* Every iteration of every loop of mark() brings its end nearer, also when  *)
(* it pushes an object or begins a segment: no heap, however linked, keeps   *)
(* the stopped world waiting for more than                                   *)
(* (objects + segments + 1) * (objects + 1) iterations (marking.c, 34-134).  *)
(***************************************************************************)
WorkFalls == [][Work' < Work]_vars

(***************************************************************************)
(* mark() returns for every heap, cyclic ones included: while the world is   *)
(* stopped nothing else would restart it.                                   *)
(***************************************************************************)
MarkTerminates == <>Done

===============================================================================
