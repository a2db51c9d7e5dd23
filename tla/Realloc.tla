------------------------------- MODULE Realloc --------------------------------
(***************************************************************************)
(* gc_realloc() of a large object, by one thread, while other threads        *)
(* allocate and collections run (gc.c, 38-54; object.c, 12-45).              *)
(*                                                                          *)
(* It looks the object up twice in the tree of occupied blocks, and holds    *)
(* neither global_lock nor allocation_lock: an insertion may happen between  *)
(* any two nodes that it visits, and so may a whole collection, which stops  *)
(* the thread there.  A visit reads the fields of a node in one step.        *)
(*                                                                          *)
(* An allocation or a sweep that is one of the two defects of LargeHeap ends *)
(* sound, and the model ends there.                                          *)
(***************************************************************************)
EXTENDS LargeHeap

VARIABLES
  pc,         \* where the thread is in gc_realloc()
  key,        \* the address it looks up: memblock, then the start of the object
  node,       \* the node that the search visits next
  wanted,     \* the size asked for
  new,        \* the block from gc_malloc()
  count,      \* what get_object_size() has returned
  old,        \* history: the block that memblock points into
  overtaken   \* history: a collection ran during the search

locals == <<pc, key, node, wanted, new, count, old, overtaken>>
reallocVars == <<heapVars, locals>>

Searching == {"lookup", "measure"}
NoBlock == <<0, 0>>

ReallocTypeOK ==
  /\ HeapTypeOK
  /\ pc \in Searching \cup {"idle", "malloc", "collect", "retry", "copy"}
  /\ key \in Addresses \cup {0}
  /\ node \in Nodes \cup {Null}
  /\ wanted \in Requests \cup {0}
  /\ {old, new} \subseteq (Addresses \X Requests) \cup {NoBlock}
  /\ count \in 0 .. HeapSize
  /\ overtaken \in BOOLEAN

ReallocInit ==
  /\ HeapInit
  /\ pc = "idle" /\ key = 0 /\ node = Null /\ wanted = 0 /\ new = NoBlock /\ count = 0
  /\ old = NoBlock /\ overtaken = FALSE

-------------------------------------------------------------------------------

\* A defect strikes.
Strike == sound' = FALSE /\ UNCHANGED <<heap, locals>>

Return ==
  /\ pc' = "idle" /\ key' = 0 /\ node' = Null /\ wanted' = 0 /\ new' = NoBlock /\ count' = 0
  /\ old' = NoBlock /\ overtaken' = FALSE

\* A search begins at occupied_root.
CallRealloc(b, memblock, s) ==
  /\ sound /\ pc = "idle"
  /\ pc' = "lookup"
  /\ key' = memblock /\ old' = b /\ wanted' = s
  /\ node' = occupied_root
  /\ UNCHANGED <<heapVars, new, count, overtaken>>

\* ext_search_bst() takes any address in a block, search_bst() its first.
Found(n) ==
  CASE pc = "lookup" -> addr[n] <= key /\ key < addr[n] + size[n]
    [] pc = "measure" -> addr[n] = key

Visit ==
  /\ sound /\ pc \in Searching /\ node # Null
  /\ ~Found(node)
  /\ node' = Onward(node, key)
  /\ UNCHANGED <<heapVars, pc, key, wanted, new, count, old, overtaken>>

\* get_object() gives the start of the object.
LookupEnds ==
  /\ sound /\ pc = "lookup" /\ node # Null
  /\ Found(node)
  /\ pc' = "malloc"
  /\ key' = addr[node] /\ node' = Null /\ overtaken' = FALSE
  /\ UNCHANGED <<heapVars, wanted, new, count, old>>

\* Without a node, get_object() returns INVALID_ADDRESS and gc_realloc() NULL,
\* and get_object_size() fails its assertion.
SearchFails ==
  /\ sound /\ pc \in Searching /\ node = Null
  /\ Return
  /\ UNCHANGED heapVars

\* gc_malloc(): one attempt, and another one after a collection.
Malloc ==
  LET a == Answer(wanted) IN
  /\ sound /\ pc \in {"malloc", "retry"}
  /\ \/ TakesInner(wanted) /\ Strike
     \/ /\ Allocate(wanted) /\ UNCHANGED sound
        /\ \/ /\ a # 0
              /\ pc' = "measure"
              /\ new' = <<a, wanted>> /\ node' = occupied_root'
              /\ UNCHANGED <<key, wanted, count, old, overtaken>>
           \/ /\ a = 0 /\ pc = "malloc"
              /\ pc' = "collect"
              /\ UNCHANGED <<key, node, wanted, new, count, old, overtaken>>
           \/ /\ a = 0 /\ pc = "retry"
              /\ Return

\* get_object_size()
MeasureEnds ==
  /\ sound /\ pc = "measure" /\ node # Null
  /\ Found(node)
  /\ pc' = "copy"
  /\ count' = size[node] /\ node' = Null /\ overtaken' = FALSE
  /\ UNCHANGED <<heapVars, key, wanted, new, old>>

\* Mutant of Written: gc_memcpy() copies whole chunks only.
WrittenInChunks(c) == 2 * ((c + 1) \div 2)

\* Units that gc_memcpy() writes: chunks of two, as long as they fit, and the rest.
Written(c) == (2 * (c \div 2)) + (c % 2)

Copy ==
  /\ sound /\ pc = "copy"
  /\ Return
  /\ UNCHANGED heapVars

\* Another thread allocates.
OthersAllocate ==
  /\ sound
  /\ \E s \in Requests :
       \/ TakesInner(s) /\ Strike
       \/ Allocate(s) /\ UNCHANGED <<sound, locals>>

\* A collection finds the thread's blocks on its stack.
CollectGarbage ==
  /\ sound
  /\ \E kept \in SUBSET used :
       /\ {old, new} \ {NoBlock} \subseteq {Block(n) : n \in kept}
       /\ \/ RemovesInner(kept) /\ Strike
          \/ /\ CollectKeeping(kept) /\ UNCHANGED sound
             /\ overtaken' = (overtaken \/ pc \in Searching)
             /\ pc' = IF pc = "collect" THEN "retry" ELSE pc
             /\ UNCHANGED <<key, node, wanted, new, count, old>>

Search == Visit \/ LookupEnds \/ MeasureEnds \/ SearchFails

ReallocNext ==
  \/ \E b \in live : \E memblock \in b[1] .. (b[1] + b[2] - 1), s \in Requests :
       CallRealloc(b, memblock, s)
  \/ Search
  \/ Malloc
  \/ Copy
  \/ OthersAllocate
  \/ CollectGarbage

\* The scheduler lets a thread that searches go on.
ReallocSpec ==
  /\ ReallocInit /\ [][ReallocNext]_reallocVars
  /\ WF_reallocVars(Search)

-------------------------------------------------------------------------------

(***************************************************************************)
(* Until a defect strikes, insertions of other threads do not mislead a       *)
(* search without locks: it finds the node of the object, unless a           *)
(* collection has rebuilt the trees under it; and even then it never ends at *)
(* another object (binary-search-tree.c, 4-35; object.c, 26-45).             *)
(***************************************************************************)
SearchFinds ==
  sound =>
  /\ pc \in Searching /\ node = Null => overtaken
  /\ pc \in {"malloc", "collect", "retry", "measure", "copy"} => key = old[1]
  /\ pc = "copy" => count = old[2]

(***************************************************************************)
(* Until a defect strikes, gc_realloc() to a size that is not smaller writes  *)
(* no object but the new one, whatever insertions and sweeps happened        *)
(* between its steps (gc.c, 43-51; gc_mem.c, 19-35).                         *)
(***************************************************************************)
CopyStaysInside ==
  sound /\ pc = "copy" /\ wanted >= old[2] =>
    /\ new \in live /\ new # old
    /\ \A b \in live \ {new} : Units(<<new[1], Written(count)>>) \cap Units(b) = {}

\* Visits that a search can still make, at most, if no sweep frees anything: the
\* nodes below the one it visits, and as many again for each insertion to come.
Ahead ==
  (NodeCount - Cardinality(used)) * (NodeCount + 1)
    + (IF node = Null THEN 0 ELSE Cardinality(Below(node)) + 1)

(***************************************************************************)
(* Until a defect strikes, every visit brings the end of the search nearer,   *)
(* and nothing takes it away again but a sweep that frees an object: wherever *)
(* such sweeps have left the search, in a tree or in the pool, it makes no    *)
(* more than (nodes + 1) * (nodes + 1) visits before the next one (object.c, *)
(* 26-45; binary-search-tree.c, 15-35).                                      *)
(***************************************************************************)
SearchFalls ==
  [][sound' =>
     /\ Visit => Ahead' < Ahead
     /\ pc \in Searching /\ pc' \in Searching /\ used \subseteq used' => Ahead' <= Ahead]_reallocVars

\* Sweeps that free something come again and again.
SweepsForEver == []<><<used' \subseteq used /\ used' # used>>_used

(***************************************************************************)
(* A search does not go round in the trees and the pool for ever, though     *)
(* nodes are linked anew under it, unless sweeps keep doing so or a defect    *)
(* strikes (object.c, 26-45; binary-search-tree.c, 15-35).                   *)
(***************************************************************************)
SearchEnds == SweepsForEver \/ (pc \in Searching ~> pc \notin Searching \/ ~sound)

===============================================================================
