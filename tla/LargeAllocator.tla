---------------------------- MODULE LargeAllocator ----------------------------
(***************************************************************************)
(* The large-object allocator: allocator/large-allocator.c with the treap of *)
(* free blocks (treap.c) and the search tree of occupied ones                *)
(* (binary-search-tree.c), both linked through the same TreeNodes.           *)
(*                                                                          *)
(* allocate_large_object() is one step, for it runs under global_lock; so is *)
(* sweep_large_heap(), for the world is stopped.  Addresses and sizes count  *)
(* units of the heap, from 1.                                               *)
(***************************************************************************)
EXTENDS Naturals, FiniteSets

CONSTANTS
  NodeCount,  \* TREENODE_COUNT
  HeapSize,   \* HEAP_SIZE
  Requests    \* aligned sizes that programs ask for

ASSUME CountsAssumption == NodeCount \in Nat \ {0} /\ HeapSize \in Nat \ {0}
ASSUME RequestsAssumption == Requests \subseteq 1 .. HeapSize

VARIABLES
  mem,        \* the TreeNodes and the heads of the three structures
  live,       \* history: blocks handed out and not found dead since
  innerTaken  \* history: allocate_large_object() took a node with children

vars == <<mem, live, innerTaken>>

Nodes == 1 .. NodeCount
Null == 0
Addresses == 1 .. HeapSize

\* inner and hung are history: remove_bst() removed a node with two children; a
\* recursion began on links that have a cycle, and the model ends there.
Memory == [addr : [Nodes -> Addresses \cup {0}], size : [Nodes -> 0 .. HeapSize],
           marked : [Nodes -> BOOLEAN],
           left : [Nodes -> Nodes \cup {Null}], right : [Nodes -> Nodes \cup {Null}],
           pool : Nodes \cup {Null}, free : Nodes \cup {Null},
           occupied : Nodes \cup {Null}, inner : BOOLEAN, hung : BOOLEAN]

Block(m, n) == <<m.addr[n], m.size[n]>>

TypeOK ==
  /\ mem \in Memory
  /\ \A n \in Nodes : mem.addr[n] + mem.size[n] <= HeapSize + 1
  /\ live \subseteq Addresses \X Requests
  /\ innerTaken \in BOOLEAN

\* __init_large_allocator(): one free block; the other nodes are in the pool.
Init ==
  /\ mem = [addr |-> [n \in Nodes |-> IF n = 1 THEN 1 ELSE 0],
            size |-> [n \in Nodes |-> IF n = 1 THEN HeapSize ELSE 0],
            marked |-> [n \in Nodes |-> FALSE],
            left |-> [n \in Nodes |-> Null],
            right |-> [n \in Nodes |-> IF n \in {1, NodeCount} THEN Null ELSE n + 1],
            pool |-> IF NodeCount = 1 THEN Null ELSE 2,
            free |-> 1, occupied |-> Null, inner |-> FALSE,
            hung |-> FALSE]
  /\ live = {}
  /\ innerTaken = FALSE

-------------------------------------------------------------------------------
(***************************************************************************)
(* Operations on the linked nodes.  One that returns a node gives a record   *)
(* of the memory after it, m, and the node, n.                               *)
(***************************************************************************)

\* The paths down from n have at most k nodes.
RECURSIVE PathsEnd(_, _, _)
PathsEnd(m, n, k) ==
  IF n = Null THEN TRUE
  ELSE k > 0 /\ PathsEnd(m, m.left[n], k - 1) /\ PathsEnd(m, m.right[n], k - 1)

Bounded(m, n) == PathsEnd(m, n, NodeCount)
Hang(m) == [m EXCEPT !.hung = TRUE]

\* get_new_tree_node(), when the pool is not empty.
NewNode(m) ==
  [m |-> [m EXCEPT !.pool = m.right[m.pool], !.left[m.pool] = Null, !.right[m.pool] = Null],
   n |-> m.pool]

\* Mutant of FreeNode: the node is cleared but not given back.
LoseNode(m, n) ==
  [m EXCEPT !.addr[n] = 0, !.size[n] = 0, !.marked[n] = FALSE, !.left[n] = Null,
            !.right[n] = Null]

\* free_tree_node()
FreeNode(m, n) ==
  IF n = Null THEN m ELSE
  [m EXCEPT !.addr[n] = 0, !.size[n] = 0, !.marked[n] = FALSE, !.left[n] = Null,
            !.right[n] = m.pool, !.pool = n]

\* Mutant of BeforeInBst: insert_bst() goes the wrong way.
AfterInBst(m, n, root) == m.addr[n] > m.addr[root]

BeforeInBst(m, n, root) == m.addr[n] < m.addr[root]

\* insert_bst()
RECURSIVE InsertBst(_, _, _)
InsertBst(m, root, node) ==
  IF root = Null THEN [m |-> m, n |-> node]
  ELSE IF BeforeInBst(m, node, root)
  THEN LET s == InsertBst(m, m.left[root], node)
       IN  [m |-> [s.m EXCEPT !.left[root] = s.n], n |-> root]
  ELSE LET s == InsertBst(m, m.right[root], node)
       IN  [m |-> [s.m EXCEPT !.right[root] = s.n], n |-> root]

\* ext_search_bst(): the node whose block holds an address.
RECURSIVE ExtSearchBst(_, _, _)
ExtSearchBst(m, root, a) ==
  IF root = Null THEN Null
  ELSE IF m.addr[root] <= a /\ a < m.addr[root] + m.size[root] THEN root
  ELSE ExtSearchBst(m, IF a < m.addr[root] THEN m.left[root] ELSE m.right[root], a)

\* The leftmost node below n, and the rightmost: find_leftmost(),
\* find_rightmost() and the loop of remove_bst().
RECURSIVE Leftmost(_, _)
Leftmost(m, n) == IF n = Null \/ m.left[n] = Null THEN n ELSE Leftmost(m, m.left[n])

RECURSIVE Rightmost(_, _)
Rightmost(m, n) == IF n = Null \/ m.right[n] = Null THEN n ELSE Rightmost(m, m.right[n])

\* Take a node out that has at most one child.
Unlink(m, n) ==
  [m |-> [m EXCEPT !.left[n] = Null, !.right[n] = Null],
   n |-> IF m.left[n] = Null THEN m.right[n] ELSE m.left[n],
   removed |-> n]

\* Unlink the leftmost node below n from where its parent holds it.
RECURSIVE UnlinkLeftmost(_, _)
UnlinkLeftmost(m, n) ==
  IF m.left[n] = Null THEN Unlink(m, n)
  ELSE LET s == UnlinkLeftmost(m, m.left[n])
       IN  [s EXCEPT !.m.left[n] = s.n, !.n = n]

\* remove_bst().  Of a node with two children it overwrites the block with that
\* of the successor and gives back the successor's node, block included.
RECURSIVE RemoveBst(_, _, _)
RemoveBst(m, root, a) ==
  IF root = Null THEN [m |-> m, n |-> Null, removed |-> Null]
  ELSE IF a < m.addr[root]
  THEN LET s == RemoveBst(m, m.left[root], a)
       IN  [s EXCEPT !.m.left[root] = s.n, !.n = root]
  ELSE IF a > m.addr[root]
  THEN LET s == RemoveBst(m, m.right[root], a)
       IN  [s EXCEPT !.m.right[root] = s.n, !.n = root]
  ELSE IF m.left[root] = Null \/ m.right[root] = Null
  THEN Unlink(m, root)
  ELSE LET min == Leftmost(m, m.right[root])
           over == [m EXCEPT !.addr[root] = m.addr[min], !.size[root] = m.size[min],
                             !.marked[root] = m.marked[min], !.inner = TRUE]
           s == UnlinkLeftmost(over, m.right[root])
       IN  [s EXCEPT !.m.right[root] = s.n, !.n = root]

\* split_treap(): the nodes below an address, l, and the others, r.
RECURSIVE SplitTreap(_, _, _)
SplitTreap(m, t, a) ==
  IF t = Null THEN [m |-> m, l |-> Null, r |-> Null]
  ELSE IF a < m.addr[t]
  THEN LET s == SplitTreap(m, m.left[t], a)
       IN  [s EXCEPT !.m.left[t] = s.r, !.r = t]
  ELSE LET s == SplitTreap(m, m.right[t], a)
       IN  [s EXCEPT !.m.right[t] = s.l, !.l = t]

\* Mutant of Above: the smaller block goes to the top.
Below(m, l, r) == m.size[l] < m.size[r]

Above(m, l, r) == m.size[l] > m.size[r]

\* merge_treap()
RECURSIVE MergeTreap(_, _, _)
MergeTreap(m, l, r) ==
  IF l = Null \/ r = Null THEN [m |-> m, n |-> IF l # Null THEN l ELSE r]
  ELSE IF Above(m, l, r)
  THEN LET s == MergeTreap(m, m.right[l], r)
       IN  [m |-> [s.m EXCEPT !.right[l] = s.n], n |-> l]
  ELSE LET s == MergeTreap(m, l, m.left[r])
       IN  [m |-> [s.m EXCEPT !.left[r] = s.n], n |-> r]

Merge(m, l, r) ==
  IF Bounded(m, l) /\ Bounded(m, r) THEN MergeTreap(m, l, r) ELSE [m |-> Hang(m), n |-> l]

\* remove_treap()
RECURSIVE RemoveTreap(_, _, _)
RemoveTreap(m, t, a) ==
  IF t = Null THEN [m |-> m, n |-> Null, removed |-> Null]
  ELSE IF m.addr[t] = a
  THEN LET s == Merge(m, m.left[t], m.right[t])
       IN  [m |-> s.m, n |-> s.n, removed |-> t]
  ELSE IF a < m.addr[t]
  THEN LET s == RemoveTreap(m, m.left[t], a)
       IN  [s EXCEPT !.m.left[t] = s.n, !.n = t]
  ELSE LET s == RemoveTreap(m, m.right[t], a)
       IN  [s EXCEPT !.m.right[t] = s.n, !.n = t]

\* Mutant of Adjacent: neighbours are never joined.
NeverAdjacent(m, n, p) == FALSE

\* Block n ends where block p begins.
Adjacent(m, n, p) == n # Null /\ p # Null /\ m.addr[n] + m.size[n] = m.addr[p]

\* The tree t without the block near, which new takes in.
Absorb(m, t, near, new) ==
  LET grown == [m EXCEPT !.addr[new] = IF m.addr[near] < @ THEN m.addr[near] ELSE @,
                         !.size[new] = @ + m.size[near]]
      s == RemoveBst(grown, t, grown.addr[near])
  IN  [m |-> FreeNode(s.m, s.removed), n |-> s.n]

JoinBefore(m, t, new) ==
  IF ~Bounded(m, t) THEN [m |-> Hang(m), n |-> t]
  ELSE LET near == Rightmost(m, t)
       IN  IF Adjacent(m, near, new) THEN Absorb(m, t, near, new) ELSE [m |-> m, n |-> t]

JoinAfter(m, t, new) ==
  IF ~Bounded(m, t) THEN [m |-> Hang(m), n |-> t]
  ELSE LET near == Leftmost(m, t)
       IN  IF Adjacent(m, new, near) THEN Absorb(m, t, near, new) ELSE [m |-> m, n |-> t]

\* insert_treap(): join the new block with the free blocks it touches.
InsertTreap(m, root, new) ==
  LET split == SplitTreap(m, root, m.addr[new])
      before == JoinBefore(split.m, split.l, new)
      after == JoinAfter(before.m, split.r, new)
      low == Merge(after.m, before.n, new)
  IN  IF ~Bounded(m, root) THEN [m |-> Hang(m), n |-> root]
      ELSE Merge(low.m, low.n, after.n)

-------------------------------------------------------------------------------

\* first_fit_search() looks at the root only.
FirstFit(m, size) == IF m.free # Null /\ m.size[m.free] >= size THEN m.free ELSE Null

\* Mutant of Rest: the new free block keeps the size of the old one.
RestUncut(m, n, size) == m.size[n]

\* Size of what is left of a block.
Rest(m, n, size) == m.size[n] - size

ToOccupied(m, n) ==
  LET s == InsertBst(m, m.occupied, n)
  IN  IF Bounded(m, m.occupied) THEN [s.m EXCEPT !.occupied = s.n] ELSE Hang(m)

ToFree(m, n) ==
  LET s == InsertTreap(m, m.free, n) IN [s.m EXCEPT !.free = s.n]

\* allocate_large_object(): the memory after it and the address, 0 for NULL.
AllocateLarge(m, size) ==
  LET fit == FirstFit(m, size)
      cut == RemoveTreap(m, m.free, m.addr[fit])
      out == [cut.m EXCEPT !.free = cut.n]
      n == cut.removed
      new == NewNode(out)
      sized == [new.m EXCEPT !.addr[new.n] = m.addr[n] + size,
                             !.size[new.n] = Rest(m, n, size), !.size[n] = size]
  IN  IF fit = Null THEN [m |-> m, a |-> 0]
      ELSE IF m.size[n] = size THEN [m |-> ToOccupied(out, n), a |-> m.addr[n]]
      ELSE IF out.pool = Null THEN [m |-> ToFree(out, n), a |-> 0]
      ELSE [m |-> ToFree(ToOccupied(sized, n), new.n), a |-> m.addr[n]]

\* A TreeNode**: a child link of a node, or occupied_root.
Link(n, side) == [node |-> n, side |-> side]
OccupiedRoot == Link(Null, "left")

Deref(m, link) == IF link.node = Null THEN m.occupied ELSE m[link.side][link.node]

SetLink(m, link, n) ==
  IF link.node = Null THEN [m EXCEPT !.occupied = n] ELSE [m EXCEPT ![link.side][link.node] = n]

\* cleanup_bst(), k levels deep.  It reads *root anew after each of its calls; a
\* link that has become NULL by then is where the program ends.
RECURSIVE CleanupBst(_, _, _)
CleanupBst(m, link, k) ==
  IF Deref(m, link) = Null THEN m
  ELSE IF k = 0 THEN Hang(m)
  ELSE LET l == CleanupBst(m, Link(Deref(m, link), "left"), k - 1)
           r == CleanupBst(l, Link(Deref(l, link), "right"), k - 1)
           root == Deref(r, link)
           s == RemoveBst(r, root, r.addr[root])
       IN  IF Deref(l, link) = Null THEN Hang(l)
           ELSE IF root = Null \/ ~Bounded(r, root) THEN Hang(r)
           ELSE IF r.marked[root] THEN [r EXCEPT !.marked[root] = FALSE]
           ELSE ToFree(SetLink(s.m, link, s.n), s.removed)

\* get_object() and mark_object() for every address that is reached.
MarkLarge(m, addresses) ==
  LET found == {ExtSearchBst(m, m.occupied, a) : a \in addresses}
  IN  IF ~Bounded(m, m.occupied) THEN Hang(m)
      ELSE [m EXCEPT !.marked = [n \in Nodes |-> m.marked[n] \/ n \in found]]

\* sweep_large_heap()
SweepLarge(m) == IF m.hung THEN m ELSE CleanupBst(m, OccupiedRoot, NodeCount)

\* Nodes below n.  (A set, so that it is defined for any links.)
RECURSIVE Spread(_, _)
Spread(m, S) ==
  LET T == S \cup {m.left[n] : n \in S \ {Null}} \cup {m.right[n] : n \in S \ {Null}}
  IN  IF T = S THEN S ELSE Spread(m, T)

FreeNodes == Spread(mem, {mem.free}) \ {Null}
OccupiedNodes == Spread(mem, {mem.occupied}) \ {Null}
PoolNodes == Spread(mem, {mem.pool}) \ {Null}

Allocate(size) ==
  /\ ~mem.hung
  /\ LET s == AllocateLarge(mem, size)
     IN  /\ mem' = s.m
         /\ live' = IF s.a = 0 THEN live ELSE live \cup {<<s.a, size>>}
  /\ innerTaken' = (innerTaken \/ /\ FirstFit(mem, size) # Null
                                  /\ \/ mem.left[mem.free] # Null
                                     \/ mem.right[mem.free] # Null)

\* A collection that reaches the objects in kept.
CollectKeeping(kept) ==
  /\ ~mem.hung
  /\ mem' = SweepLarge(MarkLarge(mem, {b[1] : b \in kept}))
  /\ live' = kept
  /\ UNCHANGED innerTaken

Collect == \E kept \in SUBSET live : CollectKeeping(kept)

Next ==
  \/ \E size \in Requests : Allocate(size)
  \/ Collect

Spec == Init /\ [][Next]_vars

-------------------------------------------------------------------------------

Units(b) == b[1] .. (b[1] + b[2] - 1)

\* Neither a node with children was taken from the treap (treap.c, 112-115) nor
\* a node with two children removed from the tree (binary-search-tree.c, 58-76).
Sound == ~innerTaken /\ ~mem.inner

(***************************************************************************)
(* get_object() finds the object an address lies in, and nothing for free    *)
(* memory: both trees stay search trees (object.c, 40; binary-search-tree.c, *)
(* 26-35).                                                                  *)
(***************************************************************************)
LookupExact ==
  Sound => \A a \in Addresses :
    LET n == ExtSearchBst(mem, mem.occupied, a)
    IN  IF \E b \in live : a \in Units(b)
        THEN n # Null /\ Block(mem, n) \in live
        ELSE n = Null

\* Nodes whose block is in use, and nodes without a block.
UsedNodes == {n \in Nodes : Block(mem, n) \in live}
EmptyNodes == {n \in Nodes : mem.size[n] = 0}

\* What can be reached along the links of the occupied tree, and of the pool.
LinkedBelow ==
  UNION {{n} \X (Spread(mem, {mem.left[n], mem.right[n]}) \ {Null}) :
           n \in UsedNodes \cup EmptyNodes}

Heap == INSTANCE LargeHeap
        WITH addr <- mem.addr, size <- mem.size, used <- UsedNodes, pool <- EmptyNodes,
             above <- LinkedBelow, sound <- Sound

(***************************************************************************)
(* Until a defect strikes, every node is in exactly one of the three          *)
(* structures, the one its block calls for, and every link and every head is  *)
(* the one that the blocks determine: the treap is ordered by address and by  *)
(* size, and no node is lost on the way (large-allocator.c, 24-44; treap.c,  *)
(* 42-104; binary-search-tree.c, 4-13 and 37-88).                            *)
(***************************************************************************)
LinksExact ==
  Sound =>
    /\ ~mem.hung
    /\ FreeNodes = Heap!FreeNodes /\ OccupiedNodes = UsedNodes /\ PoolNodes = EmptyNodes
    /\ live = Heap!live
    /\ mem.free = Heap!free_root /\ mem.occupied = Heap!occupied_root
    /\ mem.pool = Heap!list_head
    /\ \A n \in Nodes : mem.left[n] = Heap!Left(n) /\ mem.right[n] = Heap!Right(n)

(***************************************************************************)
(* Every allocation and every sweep, link by link, is a step of LargeHeap,    *)
(* and a defect strikes only where LargeHeap says so: what is proved of the   *)
(* heap there holds here until then (large-allocator.c, 106-152; treap.c,     *)
(* 77-115; binary-search-tree.c, 37-99).                                     *)
(***************************************************************************)
ImplementsHeap == Heap!HeapSpec

\* The block the next allocation returns is not in use.
NextIsFresh ==
  ~mem.hung =>
    \A size \in Requests :
      LET a == AllocateLarge(mem, size).a
      IN  a # 0 => \A b \in live : Units(<<a, size>>) \cap Units(b) = {}

(***************************************************************************)
(* No two objects have one address (testing_system/mt-large-alloc-test.c, 47),*)
(* whatever a sweep does to the tree of occupied blocks                      *)
(* (binary-search-tree.c, 58-76 and 90-98).                                  *)
(***************************************************************************)
FreshAfterSweep == ~innerTaken => NextIsFresh

===============================================================================
