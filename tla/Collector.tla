------------------------------ MODULE Collector -------------------------------
(***************************************************************************)
(* The small allocator with a program that keeps references to its objects,  *)
(* and collections that mark what the program can reach: SmallAllocator,     *)
(* whose collection marks any slots, composed with what Marking says of the  *)
(* end of mark() (MarkExact).                                               *)
(*                                                                          *)
(* References are those that the program has written and not overwritten.    *)
(* Words that only look like addresses of objects, among them what is left   *)
(* in a slot by the object it held before, are additional roots that each    *)
(* collection chooses.                                                      *)
(***************************************************************************)
EXTENDS SmallAllocator, FiniteSets, Reachability

CONSTANTS
  Fields  \* bound: references in an object

ASSUME FieldsAssumption == Fields \in Nat

VARIABLES
  roots,  \* objects that stacks, .data and .bss refer to
  refs,   \* refs[o]: objects that object o refers to
  cutOff  \* history: mark() has passed by an object that holds references,
          \* because its bit was set beforehand

heap == <<roots, refs, cutOff>>
collectorVars == <<vars, heap>>

Objects == Blocks \X Positions

CollectorTypeOK ==
  /\ TypeOK
  /\ roots \in SUBSET Objects
  /\ refs \in [Objects -> SUBSET Objects]
  /\ cutOff \in BOOLEAN

CollectorInit ==
  /\ Init
  /\ roots = {}
  /\ refs = [o \in Objects |-> {}]
  /\ cutOff = FALSE

\* What the program can get at.
Live == ReachedBy(Objects, refs, roots)

-------------------------------------------------------------------------------

\* gc_malloc() returns a slot: a register or the stack holds it.
Obtain(t) ==
  LET o == <<curr[t], slider[curr[t]]>> IN
  /\ Take(t)
  /\ roots' = roots \cup {o}
  /\ refs' = [refs EXCEPT ![o] = {}]
  /\ UNCHANGED cutOff

\* The other steps of gc_malloc().
Allocating(t) ==
  /\ \/ Step(t) /\ ~Take(t)
     \/ Program(t)
  /\ UNCHANGED heap

\* The program copies a reference it can get at into an object, or into a root,
\* or overwrites one.
Store(o, p) ==
  /\ o \in Live /\ p \in Live
  /\ Cardinality(refs[o]) < Fields
  /\ refs' = [refs EXCEPT ![o] = @ \cup {p}]
  /\ UNCHANGED <<vars, roots, cutOff>>

Load(p) ==
  /\ p \in Live
  /\ roots' = roots \cup {p}
  /\ UNCHANGED <<vars, refs, cutOff>>

Overwrite(o) ==
  /\ o \in Live
  /\ \E p \in refs[o] : refs' = [refs EXCEPT ![o] = @ \ {p}]
  /\ UNCHANGED <<vars, roots, cutOff>>

Forget(o) ==
  /\ o \in roots
  /\ roots' = roots \ {o}
  /\ UNCHANGED <<vars, refs, cutOff>>

\* By a thread that is in its own code.
Mutate ==
  /\ \E t \in Threads : pc[t] = "idle"
  /\ \/ \E o, p \in Objects : Store(o, p)
     \/ \E p \in Objects : Load(p) \/ Overwrite(p) \/ Forget(p)

BitSet(o) == o[2] \in bits[o[1]]

\* Mutant of Traversed: mark_and_push() marks an object and does not push it.
NotTraversed(o) == {}

\* mark_and_push() passes by an object whose bit is set.
Traversed(o) == IF BitSet(o) THEN {} ELSE refs[o]

\* get_object() accepts the words that lead to a slot.
Found(words) == words \cap Markable

\* mark(), when the roots hold stray words as well.
Reached(stray) ==
  ReachedBy(Objects, [o \in Objects |-> Found(Traversed(o))], Found(roots \cup stray))

CollectGarbage ==
  /\ \E stray \in SUBSET Objects : Collect(Marked(Reached(stray)))
  /\ cutOff' = (cutOff \/ \E o \in Live : BitSet(o) /\ refs[o] # {})
  /\ UNCHANGED <<roots, refs>>

CollectorNext ==
  \/ \E t \in Threads : Obtain(t) \/ Allocating(t)
  \/ Mutate
  \/ CollectGarbage

CollectorSpec == CollectorInit /\ [][CollectorNext]_collectorVars

-------------------------------------------------------------------------------

(***************************************************************************)
(* No object that the program can get at is handed out again, as long as no  *)
(* set bit has stopped mark() early and the block has kept its bits since the *)
(* sweep: what is reachable is marked, what is marked survives the sweep, and *)
(* what survives is passed over by every later search (gc.c, 11-22).         *)
(***************************************************************************)
Intact ==
  \A t \in Threads :
    pc[t] = "take" =>
      <<curr[t], slider[curr[t]]>> \notin Live \/ cutOff \/ curr[t] \in zeroed

(***************************************************************************)
(* The same when mark() may find bits set (README.md, 5).                    *)
(***************************************************************************)
IntactWhateverIsSet ==
  \A t \in Threads :
    pc[t] = "take" => <<curr[t], slider[curr[t]]>> \notin Live \/ curr[t] \in zeroed

===============================================================================
