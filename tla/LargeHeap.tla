------------------------------- MODULE LargeHeap ------------------------------
(***************************************************************************)
(* What the large-object allocator promises: which TreeNode holds which      *)
(* block, and which nodes lie below which in the treap of free blocks, in    *)
(* the search tree of occupied ones and in the pool, and at which steps the    *)
(* code ceases to promise it.  LargeAllocator is the code, link by link, and *)
(* implements this specification.                                           *)
(*                                                                          *)
(* Two steps of the code are defects: a block is taken from the treap whose   *)
(* node has children, and a sweep removes a node with two children.  Either  *)
(* ends sound; nothing is said of the heap from then on, and each property   *)
(* names sound as its premise.                                              *)
(*                                                                          *)
(* A tree of nodes with addresses is its relation "lies below": a child link *)
(* leads to the topmost node below on that side.                            *)
(***************************************************************************)
EXTENDS Naturals, FiniteSets

CONSTANTS
  NodeCount,  \* TREENODE_COUNT
  HeapSize,   \* HEAP_SIZE
  Requests    \* aligned sizes that programs ask for

ASSUME HeapAssumption == NodeCount \in Nat \ {0} /\ HeapSize \in Nat \ {0}
ASSUME SizesAssumption == Requests \subseteq 1 .. HeapSize

VARIABLES
  addr, size,  \* block.addr and block.size of each TreeNode
  used,        \* the nodes of the tree of occupied blocks
  pool,        \* the nodes that hold no block
  above,       \* <<n, p>>: p lies below n in the occupied tree, or in the pool
  sound        \* history: neither defect has struck

heap == <<addr, size, used, pool, above>>
heapVars == <<heap, sound>>

Nodes == 1 .. NodeCount
Null == 0
Addresses == 1 .. HeapSize
FreeNodes == Nodes \ (used \cup pool)

Block(n) == <<addr[n], size[n]>>
Units(b) == b[1] .. (b[1] + b[2] - 1)
live == {Block(n) : n \in used}

HeapTypeOK ==
  /\ sound \in BOOLEAN
  /\ sound =>
       /\ addr \in [Nodes -> 0 .. HeapSize] /\ size \in [Nodes -> 0 .. HeapSize]
       /\ used \subseteq Nodes /\ pool \subseteq Nodes
       /\ above \subseteq Nodes \X Nodes
       /\ live \subseteq Addresses \X Requests

\* __init_large_allocator(): one free block; the other nodes are in the pool.
HeapInit ==
  /\ addr = [n \in Nodes |-> IF n = 1 THEN 1 ELSE 0]
  /\ size = [n \in Nodes |-> IF n = 1 THEN HeapSize ELSE 0]
  /\ used = {} /\ pool = Nodes \ {1}
  /\ above = {e \in pool \X pool : e[1] < e[2]}
  /\ sound = TRUE

-------------------------------------------------------------------------------

\* a lies from b to c.
Between(a, b, c) == (b <= a /\ a <= c) \/ (c <= a /\ a <= b)

\* Mutant of Smaller: the smaller block goes to the top.
Greater(n, p) == size[n] > size[p] \/ (size[n] = size[p] /\ addr[n] < addr[p])

\* merge_treap() puts p above n.
Smaller(n, p) == size[n] < size[p] \/ (size[n] = size[p] /\ addr[n] < addr[p])

\* split_treap() and merge_treap() keep below a block the smaller ones that no
\* larger one separates from it.
BelowInTreap(n) ==
  {p \in FreeNodes \ {n} : \A q \in FreeNodes \ {n} :
     Between(addr[q], addr[p], addr[n]) => Smaller(q, n)}

Below(n) == IF n \in FreeNodes THEN BelowInTreap(n) ELSE {e[2] : e \in {e \in above : e[1] = n}}

\* The node of S that lies below no other, if there is one.
Topmost(S) ==
  LET tops == S \ UNION {Below(n) : n \in S}
  IN  IF tops = {} THEN Null ELSE CHOOSE n \in tops : TRUE

free_root == Topmost(FreeNodes)
occupied_root == Topmost(used)
list_head == Topmost(pool)

Left(n) == Topmost({p \in Below(n) : addr[p] < addr[n]})
Right(n) == Topmost({p \in Below(n) : addr[p] >= addr[n]})

-------------------------------------------------------------------------------

\* first_fit_search() looks at the root only.
FirstFit(s) == IF FreeNodes # {} /\ size[free_root] >= s THEN free_root ELSE Null

\* allocate_large_object() returns an address, or 0 for NULL.
Answer(s) ==
  LET n == FirstFit(s)
  IN  IF n = Null \/ (size[n] > s /\ pool = {}) THEN 0 ELSE addr[n]

\* remove_treap() leaves the node it takes its children, free blocks, and
\* insert_bst(), or insert_treap() when no node is left for the rest, hangs it
\* with them into a tree: the first defect.
TakesInner(s) == FirstFit(s) # Null /\ Below(FirstFit(s)) # {}

\* Mutant of Passed: insert_bst() does not go on from the root.
PassedRoot(a) == used \cap {occupied_root}

\* The nodes that insert_bst() passes on its way to an address, with a node that
\* has no children: between them and it are only nodes below them.
Passed(a) ==
  {n \in used : {q \in used \ {n} : Between(addr[q], a, addr[n])} \subseteq Below(n)}

\* The whole block of a node without children is taken.
Take(s) ==
  LET n == FirstFit(s) IN
  /\ ~TakesInner(s)
  /\ Answer(s) # 0 /\ size[n] = s
  /\ used' = used \cup {n}
  /\ above' = above \cup (Passed(addr[n]) \X {n})
  /\ UNCHANGED <<addr, size, pool>>

\* Mutant of Remainder: the new free block keeps the size of the old one.
RemainderUncut(n, s) == size[n]

\* Size of what is left of a block.
Remainder(n, s) == size[n] - s

\* A node from the pool takes the rest of the block, whose node has no children.
Cut(s) ==
  LET n == FirstFit(s)
      rest == list_head
  IN  /\ ~TakesInner(s)
      /\ Answer(s) # 0 /\ size[n] > s
      /\ addr' = [addr EXCEPT ![rest] = addr[n] + s]
      /\ size' = [size EXCEPT ![rest] = Remainder(n, s), ![n] = s]
      /\ used' = used \cup {n}
      /\ pool' = pool \ {rest}
      /\ above' = {e \in above : e[1] # rest} \cup (Passed(addr[n]) \X {n})

Refuse(s) == ~TakesInner(s) /\ Answer(s) = 0 /\ UNCHANGED heap

Allocate(s) == Take(s) \/ Cut(s) \/ Refuse(s)

\* Mutant of Run: a block is joined with the one behind it only.
RunBehind(U, a) == {b \in U : a .. b \subseteq U /\ a <= b}

\* The free block that insert_treap() makes of a unit and those it touches.
Run(U, a) == {b \in U : (a .. b) \cup (b .. a) \subseteq U}
First(R) == CHOOSE a \in R : \A b \in R : a <= b

\* The orders in which nodes can come to lie in the pool.
Stacks(S) ==
  {{e \in S \X S : rank[e[1]] < rank[e[2]]} :
     rank \in {f \in [S -> S] : \A n, p \in S : f[n] = f[p] => n = p}}

\* The blocks that stay below n lie on one side of it.
OneSided(n, kept) ==
  ~ \E p, q \in kept \cap Below(n) : addr[p] < addr[n] /\ addr[n] < addr[q]

\* remove_bst() takes a node out that has two children, and gives back another
\* one, with a block in use: the second defect.
RemovesInner(kept) == \E n \in used \ kept : ~OneSided(n, kept)

(***************************************************************************)
(* sweep_large_heap() after a collection has reached the objects of kept,    *)
(* when it removes no node with two children.  The others go to the treap,   *)
(* each with the free blocks it touches; of the nodes of a free block that    *)
(* of the last one released remains, the others go to the pool.             *)
(***************************************************************************)
CollectKeeping(kept) ==
  LET gone == used \ kept
      free == gone \cup FreeNodes
      idle == Addresses \ UNION {Units(Block(n)) : n \in kept}
      block(n) == Run(idle, addr[n])
  IN
  /\ ~RemovesInner(kept)
  /\ used' = kept
  /\ \E rest \in SUBSET free :
       LET back == free \ rest IN
       /\ \A n \in free : \E h \in rest : addr[h] \in block(n)
       /\ \A h \in rest : \A p \in (rest \cup gone) \ {h} :
            addr[h] \in block(p) => h \in gone /\ p \notin rest
       /\ pool' = pool \cup back
       /\ addr' = [n \in Nodes |-> IF n \in rest THEN First(block(n))
                                   ELSE IF n \in back THEN 0 ELSE addr[n]]
       /\ size' = [n \in Nodes |-> IF n \in rest THEN Cardinality(block(n))
                                   ELSE IF n \in back THEN 0 ELSE size[n]]
       /\ \E stack \in Stacks(back) :
            above' = (above \cap ((kept \X kept) \cup (pool \X pool)))
                     \cup (back \X pool) \cup stack

Collect == \E kept \in SUBSET used : CollectKeeping(kept)

\* A step of the code that is a defect.
Strikes ==
  \/ \E s \in Requests : TakesInner(s)
  \/ \E kept \in SUBSET used : RemovesInner(kept)

HeapNext ==
  \/ sound /\ UNCHANGED sound /\ (Collect \/ \E s \in Requests : Allocate(s))
  \/ sound /\ sound' = FALSE /\ Strikes
  \/ ~sound /\ UNCHANGED sound

HeapSpec == HeapInit /\ [][HeapNext]_heapVars

-------------------------------------------------------------------------------

(***************************************************************************)
(* Until a defect strikes, the occupied blocks and the free ones make up the  *)
(* heap, without overlap, and no two free blocks lie side by side            *)
(* (large-allocator.c, 121-144; treap.c, 84-101; binary-search-tree.c,       *)
(* 90-98).                                                                  *)
(***************************************************************************)
HeapPartitioned ==
  LET holders == used \cup FreeNodes IN
  sound =>
  /\ \A n, p \in holders : n # p => Units(Block(n)) \cap Units(Block(p)) = {}
  /\ UNION {Units(Block(n)) : n \in holders} = Addresses
  /\ \A n \in holders : size[n] # 0
  /\ \A n, p \in FreeNodes : addr[n] + size[n] # addr[p]

(***************************************************************************)
(* Until a defect strikes, an allocation fails only when no free block is     *)
(* large enough or no node is left: looking at the root suffices, for the    *)
(* largest block is there (treap.c, 34-40 and 54-64).                       *)
(***************************************************************************)
FirstFitSuffices ==
  sound => \A s \in Requests : FirstFit(s) = Null => \A n \in FreeNodes : size[n] < s

\* Mutants of Onward: the search turns the wrong way, or does not go on.
Astray(n, a) == IF a < addr[n] THEN Right(n) ELSE Left(n)
Staying(n, a) == n

\* Where search_bst() and ext_search_bst() go from n.
Onward(n, a) == IF a < addr[n] THEN Left(n) ELSE Right(n)

\* S holds what ext_search_bst() visits in its search for an address: the root,
\* and from a node without the address where the search goes on.
Searched(a, S) ==
  /\ occupied_root \in S
  /\ \A n \in S \ {Null} : a \notin Units(Block(n)) => Onward(n, a) \in S

(***************************************************************************)
(* Until a defect strikes, a search for any address visits occupied nodes     *)
(* only; it comes to the node whose block holds the address, and without one *)
(* to a NULL link (binary-search-tree.c, 26-35; object.c, 40).              *)
(***************************************************************************)
LookupFinds ==
  sound => \A a \in Addresses :
    /\ Searched(a, used \cup {Null})
    /\ \A S \in SUBSET (Nodes \cup {Null}) :
         Searched(a, S) =>
           IF \E m \in used : a \in Units(Block(m))
           THEN \E m \in used \cap S : a \in Units(Block(m))
           ELSE Null \in S

\* Of all links a step sets but one, which was NULL, to n, and n is a leaf.
Linked(n) ==
  /\ used' = used \cup {n} /\ Left(n)' = Null /\ Right(n)' = Null
  /\ \E p \in used \cup {Null} :
       /\ IF used = {} THEN p = Null ELSE p # Null /\ Onward(p, addr'[n]) = Null
       /\ occupied_root' = IF p = Null THEN n ELSE occupied_root
       /\ \A m \in used :
            /\ Left(m)' = IF m = p /\ addr'[n] < addr[m] THEN n ELSE Left(m)
            /\ Right(m)' = IF m = p /\ addr'[n] >= addr[m] THEN n ELSE Right(m)

(***************************************************************************)
(* An allocation that takes a node without children sets one link of the     *)
(* occupied tree, and that one was NULL: the new node hangs where a search    *)
(* for its address falls off, and no search that other threads make at that  *)
(* time, without a lock, is led elsewhere (binary-search-tree.c, 4-13; gc.c, *)
(* 44).                                                                     *)
(***************************************************************************)
SetsOneLink == [][sound' => \A n \in used' \ used : Linked(n)]_heapVars

===============================================================================
