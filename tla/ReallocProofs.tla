---------------------------- MODULE ReallocProofs -----------------------------
(***************************************************************************)
(* Proofs about the large-object heap (LargeHeap) and the reallocation of a  *)
(* block in it (Realloc), for every number of nodes, heap size and set of    *)
(* requests.  Like the properties they establish, the invariants claim        *)
(* nothing once one of the two defects of the code has struck (~sound).       *)
(***************************************************************************)
EXTENDS Realloc, FiniteSetTheorems, WellFoundedInduction, TLAPS

\* A set of naturals has a least element.
LEMMA LeastExists ==
  ASSUME NEW S \in SUBSET Nat, S # {}
  PROVE  \E a \in S : \A b \in S : a <= b
<1>1. PICK a \in S : \A b \in S : ~ (<<b, a>> \in OpToRel(<, Nat))
  BY NatLessThanWellFounded, WFMin
<1>2. \A b \in S : ~ (b < a)
  BY <1>1 DEF OpToRel
<1> QED
  BY <1>2

LEMMA NodesFinite == IsFiniteSet(Nodes)
<1>1. NodeCount \in Int /\ 1 \in Int
  BY HeapAssumption
<1> QED
  BY <1>1, FS_Interval DEF Nodes

\* A strict order on some nodes leaves one of them below no other.
LEMMA HighestExists ==
  ASSUME NEW S \in SUBSET Nodes, S # {}, NEW R,
         \A n \in S : <<n, n>> \notin R,
         \A n, p, q \in S : <<n, p>> \in R /\ <<p, q>> \in R => <<n, q>> \in R
  PROVE  \E n \in S : \A p \in S : <<p, n>> \notin R
<1> DEFINE over == [n \in S |-> {p \in S : <<p, n>> \in R}]
           depth == [n \in S |-> Cardinality(over[n])]
           depths == {depth[n] : n \in S}
<1>1. \A n \in S : /\ over[n] \in SUBSET S
                   /\ \A p \in S : p \in over[n] <=> <<p, n>> \in R
  OBVIOUS
<1>2. \A n \in S : depth[n] = Cardinality(over[n])
  OBVIOUS
<1> HIDE DEF over
<1>3. \A n \in S : IsFiniteSet(over[n]) /\ Cardinality(over[n]) \in Nat
  <2>1. IsFiniteSet(S)
    BY NodesFinite, FS_Subset
  <2> QED
    BY <1>1, <2>1, FS_Subset, FS_CardinalityType
<1> HIDE DEF depth
<1>4. PICK d \in depths : \A e \in depths : d <= e
  <2>1. depths \in SUBSET Nat /\ depths # {}
    BY <1>2, <1>3
  <2> HIDE DEF depths
  <2> QED
    BY <2>1, LeastExists
<1>5. PICK n \in S : d = depth[n]
  BY <1>4
<1>6. SUFFICES ASSUME NEW p \in S, <<p, n>> \in R PROVE FALSE
  OBVIOUS
<1>7. over[p] \in SUBSET over[n] /\ over[p] # over[n]
  BY <1>1, <1>6
<1>8. Cardinality(over[p]) < Cardinality(over[n])
  BY <1>3, <1>7, FS_Subset
<1>9. depth[n] <= depth[p]
  BY <1>4, <1>5
<1> QED
  BY <1>2, <1>3, <1>8, <1>9

-------------------------------------------------------------------------------
(***************************************************************************)
(* The inductive invariant of the heap.                                     *)
(***************************************************************************)

\* Who holds a block, and where the blocks lie.
Shape ==
  /\ used \cap pool = {}
  /\ \A n \in pool : addr[n] = 0 /\ size[n] = 0
  /\ \A n \in Nodes \ pool :
       1 <= addr[n] /\ 1 <= size[n] /\ addr[n] + size[n] <= HeapSize + 1
  /\ \A n \in used : size[n] \in Requests

Holds(n, a) == addr[n] <= a /\ a < addr[n] + size[n]

Partition ==
  /\ \A n, p \in Nodes \ pool :
       n # p => addr[n] + size[n] <= addr[p] \/ addr[p] + size[p] <= addr[n]
  /\ \A a \in Addresses : \E n \in Nodes \ pool : Holds(n, a)
  /\ \A n, p \in FreeNodes : addr[n] + size[n] # addr[p]

\* The occupied tree and the pool are strict orders, apart from each other.
Ordered ==
  /\ \A n, p \in Nodes : <<n, p>> \in above =>
       n # p /\ ((n \in used /\ p \in used) \/ (n \in pool /\ p \in pool))
  /\ \A n, p, q \in Nodes : <<n, p>> \in above /\ <<p, q>> \in above => <<n, q>> \in above

\* What lies below a node has no gaps, and two nodes that are not one below the
\* other lie on either side of a node above both.
SearchTree ==
  /\ \A n, p, q \in used :
       <<n, p>> \in above /\ Between(addr[q], addr[p], addr[n]) /\ q # n => <<n, q>> \in above
  /\ \A p, q \in used :
       p = q \/ <<p, q>> \in above \/ <<q, p>> \in above
       \/ \E r \in used : /\ <<r, p>> \in above /\ <<r, q>> \in above
                          /\ Between(addr[r], addr[p], addr[q])

Types ==
  /\ addr \in [Nodes -> 0 .. HeapSize] /\ size \in [Nodes -> 0 .. HeapSize]
  /\ used \subseteq Nodes /\ pool \subseteq Nodes
  /\ above \subseteq Nodes \X Nodes

HeapInv == Types /\ Shape /\ Partition /\ Ordered /\ SearchTree

LEMMA Constants ==
  /\ NodeCount \in Nat /\ NodeCount > 0 /\ HeapSize \in Nat /\ HeapSize > 0
  /\ \A s \in Requests : s \in Nat /\ 1 <= s /\ s <= HeapSize
  /\ \A n \in Nodes : n \in Nat /\ n # Null
BY HeapAssumption, SizesAssumption DEF Nodes, Null

LEMMA Numbers ==
  ASSUME Types
  PROVE  \A n \in Nodes : addr[n] \in Nat /\ size[n] \in Nat
                          /\ addr[n] <= HeapSize /\ size[n] <= HeapSize
BY Constants DEF Types

LEMMA UnitsAre ==
  ASSUME Types, NEW n \in Nodes
  PROVE  /\ Units(Block(n)) = addr[n] .. (addr[n] + size[n] - 1)
         /\ \A a : a \in Units(Block(n)) <=> a \in Nat /\ Holds(n, a)
<1>1. addr[n] \in Nat /\ size[n] \in Nat
  BY Numbers
<1>2. Units(Block(n)) = addr[n] .. (addr[n] + size[n] - 1)
  BY DEF Units, Block
<1>3. ASSUME NEW a
      PROVE  a \in addr[n] .. (addr[n] + size[n] - 1) <=> a \in Nat /\ Holds(n, a)
  BY <1>1 DEF Holds
<1> QED
  BY <1>2, <1>3

LiveTyped == live \subseteq Addresses \X Requests

LEMMA InvLive == HeapInv => LiveTyped
<1> SUFFICES ASSUME HeapInv PROVE LiveTyped
  OBVIOUS
<1>1. \A n \in used : addr[n] \in Addresses /\ size[n] \in Requests
  BY Numbers, Constants DEF HeapInv, Shape, Types, Addresses
<1> QED
  BY <1>1 DEF LiveTyped, live, Block

LEMMA InvPartitioned == HeapInv => HeapPartitioned
<1> SUFFICES ASSUME HeapInv PROVE HeapPartitioned
  OBVIOUS
<1> USE DEF HeapInv
<1>1. used \cup FreeNodes = Nodes \ pool
  BY DEF FreeNodes, Shape, Types
<1>2. ASSUME NEW n \in Nodes \ pool, NEW p \in Nodes \ pool, n # p
      PROVE  Units(Block(n)) \cap Units(Block(p)) = {}
  <2>1. addr[n] + size[n] <= addr[p] \/ addr[p] + size[p] <= addr[n]
    BY <1>2 DEF Partition
  <2> QED
    BY <2>1, Numbers, UnitsAre DEF Holds
<1>3. UNION {Units(Block(n)) : n \in Nodes \ pool} = Addresses
  <2>1. ASSUME NEW n \in Nodes \ pool, NEW a \in Units(Block(n)) PROVE a \in Addresses
    BY UnitsAre, Numbers, Constants DEF Shape, Holds, Addresses
  <2>2. ASSUME NEW a \in Addresses PROVE \E n \in Nodes \ pool : a \in Units(Block(n))
    <3>1. PICK n \in Nodes \ pool : Holds(n, a)
      BY DEF Partition
    <3> QED
      BY <3>1, UnitsAre, Constants DEF Addresses
  <2> QED
    BY <2>1, <2>2
<1>4. \A n \in Nodes \ pool : size[n] # 0
  BY DEF Shape
<1> QED
  BY <1>1, <1>2, <1>3, <1>4 DEF HeapPartitioned, Partition

-------------------------------------------------------------------------------
(***************************************************************************)
(* The trees that "lies below" describes.                                   *)
(***************************************************************************)

\* Below nodes of the occupied tree and of the pool.
LEMMA BelowLinked ==
  ASSUME Types, NEW n \in used \cup pool
  PROVE  /\ \A p : p \in Below(n) <=> <<n, p>> \in above
         /\ Below(n) \subseteq Nodes
<1>1. Below(n) = {e[2] : e \in {e \in above : e[1] = n}}
  BY DEF Below, FreeNodes
<1>2. \A e \in above : e = <<e[1], e[2]>> /\ e[2] \in Nodes
  BY DEF Types
<1> QED
  BY <1>1, <1>2

LEMMA TopmostIn ==
  ASSUME NEW S \in SUBSET Nodes, S # {},
         \A n \in S : n \notin Below(n),
         \A n, p, q \in S : p \in Below(n) /\ q \in Below(p) => q \in Below(n)
  PROVE  Topmost(S) \in S /\ \A n \in S : Topmost(S) \notin Below(n)
<1> DEFINE R == {e \in S \X S : e[2] \in Below(e[1])}
           tops == S \ UNION {Below(n) : n \in S}
<1>1. \A n, p \in S : <<n, p>> \in R <=> p \in Below(n)
  OBVIOUS
<1> HIDE DEF R
<1>2. PICK t \in S : \A p \in S : <<p, t>> \notin R
  <2>1. /\ \A n \in S : <<n, n>> \notin R
        /\ \A n, p, q \in S : <<n, p>> \in R /\ <<p, q>> \in R => <<n, q>> \in R
    BY <1>1
  <2> QED
    BY <2>1, HighestExists
<1>3. t \in tops
  <2>1. \A p \in S : t \notin Below(p)
    BY <1>1, <1>2
  <2> QED
    BY <2>1
<1>4. Topmost(S) = CHOOSE n \in tops : TRUE
  BY <1>3 DEF Topmost
<1>5. Topmost(S) \in tops
  BY <1>3, <1>4
<1> QED
  BY <1>5

\* "Lies below" is a strict order of the free blocks.
LEMMA TreapOrder ==
  ASSUME HeapInv
  PROVE  /\ \A n \in FreeNodes : n \notin Below(n)
         /\ \A n, p, q \in FreeNodes : p \in Below(n) /\ q \in Below(p) => q \in Below(n)
<1> USE DEF HeapInv
<1>1. FreeNodes \in SUBSET Nodes
  BY DEF FreeNodes
<1>2. \A n \in FreeNodes : n \notin Below(n)
  BY DEF Below, BelowInTreap
<1>3. ASSUME NEW n \in FreeNodes, NEW p \in FreeNodes, NEW q \in FreeNodes,
             p \in Below(n), q \in Below(p)
      PROVE  q \in Below(n)
  <2>1. /\ p # n /\ \A r \in FreeNodes \ {n} : Between(addr[r], addr[p], addr[n]) => Smaller(r, n)
        /\ q # p /\ \A r \in FreeNodes \ {p} : Between(addr[r], addr[q], addr[p]) => Smaller(r, p)
    BY <1>3 DEF Below, BelowInTreap
  <2>2. Smaller(p, n)
    BY <1>1, <2>1, Numbers DEF Between
  <2>3. Smaller(q, p)
    BY <1>1, <2>1, Numbers DEF Between
  <2>4. q # n
    BY <1>1, <2>2, <2>3, Numbers DEF Smaller
  <2>5. ASSUME NEW r \in FreeNodes \ {n}, Between(addr[r], addr[q], addr[n])
        PROVE  Smaller(r, n)
    <3>1. Between(addr[r], addr[q], addr[p]) \/ Between(addr[r], addr[p], addr[n])
      BY <1>1, <2>5, Numbers DEF Between
    <3>2. CASE Between(addr[r], addr[p], addr[n])
      BY <2>1, <3>2
    <3>3. CASE r = p
      BY <2>2, <3>3
    <3>4. CASE r # p /\ Between(addr[r], addr[q], addr[p])
      BY <1>1, <2>1, <2>2, <3>4, Numbers DEF Smaller
    <3> QED
      BY <3>1, <3>2, <3>3, <3>4
  <2> QED
    BY <2>4, <2>5 DEF Below, BelowInTreap
<1> QED
  BY <1>2, <1>3

\* The treap's root is above every other free block.
LEMMA TreapRoot ==
  ASSUME HeapInv, FreeNodes # {}
  PROVE  free_root \in FreeNodes /\ \A n \in FreeNodes \ {free_root} : Smaller(n, free_root)
<1> USE DEF HeapInv
<1> DEFINE R == {e \in FreeNodes \X FreeNodes : Smaller(e[2], e[1])}
<1>1. FreeNodes \in SUBSET Nodes /\ FreeNodes \subseteq Nodes \ pool
  BY DEF FreeNodes
<1>2. \A n, p \in FreeNodes : n # p => Smaller(n, p) \/ Smaller(p, n)
  <2>1. \A n, p \in FreeNodes : n # p => addr[n] # addr[p]
    BY <1>1, Numbers DEF Partition, Shape
  <2> QED
    BY <1>1, <2>1, Numbers DEF Smaller
<1>3. \A n, p \in FreeNodes : <<n, p>> \in R <=> Smaller(p, n)
  OBVIOUS
<1> HIDE DEF R
<1>4. PICK t \in FreeNodes : \A n \in FreeNodes : ~ Smaller(t, n)
  <2>1. /\ \A n \in FreeNodes : <<n, n>> \notin R
        /\ \A n, p, q \in FreeNodes : <<n, p>> \in R /\ <<p, q>> \in R => <<n, q>> \in R
    BY <1>1, <1>3, Numbers DEF Smaller
  <2> QED
    BY <1>1, <1>3, <2>1, HighestExists
<1>5. \A n \in FreeNodes \ {t} : Smaller(n, t)
  BY <1>2, <1>4
<1>6. \A n \in FreeNodes \ {t} : n \in Below(t)
  BY <1>5 DEF Below, BelowInTreap
<1>7. /\ \A n \in FreeNodes : n \notin Below(n)
      /\ \A n, p, q \in FreeNodes : p \in Below(n) /\ q \in Below(p) => q \in Below(n)
  BY TreapOrder
<1>9. free_root \in FreeNodes /\ \A n \in FreeNodes : free_root \notin Below(n)
  BY <1>1, <1>7, TopmostIn DEF free_root
<1> QED
  BY <1>5, <1>6, <1>9

\* The root of the treap holds the largest free block.
LEMMA InvFirstFit == HeapInv => FirstFitSuffices
<1> SUFFICES ASSUME HeapInv, sound, NEW s \in Requests, FirstFit(s) = Null, NEW n \in FreeNodes
             PROVE  size[n] < s
  BY DEF FirstFitSuffices
<1>1. free_root \in FreeNodes /\ \A p \in FreeNodes \ {free_root} : Smaller(p, free_root)
  BY TreapRoot
<1>2. free_root \in Nodes /\ n \in Nodes
  BY <1>1 DEF FreeNodes
<1>3. size[free_root] \in Nat /\ size[n] \in Nat /\ s \in Nat
  BY <1>2, Numbers, Constants DEF HeapInv
<1>4. size[free_root] < s
  BY <1>2, <1>3, Constants DEF FirstFit
<1> QED
  BY <1>1, <1>3, <1>4 DEF Smaller

LEMMA AddrDiffer ==
  ASSUME HeapInv
  PROVE  \A n, p \in Nodes \ pool : n # p => addr[n] # addr[p]
BY Numbers DEF HeapInv, Partition, Shape

\* Blocks with different nodes lie in the same order as their addresses.
LEMMA UsedApart ==
  ASSUME HeapInv, NEW n \in Nodes \ pool, NEW p \in Nodes \ pool, n # p, NEW a \in Nat, Holds(p, a)
  PROVE  /\ addr[n] # addr[p]
         /\ a < addr[n] <=> addr[p] < addr[n]
         /\ ~ Holds(n, a)
<1>1. addr[n] + size[n] <= addr[p] \/ addr[p] + size[p] <= addr[n]
  BY DEF HeapInv, Partition
<1> QED
  BY <1>1, Numbers DEF HeapInv, Shape, Holds

\* From a set of used nodes without gaps, its topmost is above every other.
LEMMA TopmostAbove ==
  ASSUME HeapInv, NEW S \in SUBSET used, NEW m \in S,
         \A p, q \in S, r \in used :
           Between(addr[r], addr[p], addr[q]) /\ <<r, p>> \in above /\ <<r, q>> \in above => r \in S
  PROVE  Topmost(S) = m \/ <<Topmost(S), m>> \in above
<1> DEFINE t == Topmost(S)
<1> USE DEF HeapInv
<1>1. used \subseteq Nodes
  BY DEF Types
<1>2. \A n \in S : \A p : p \in Below(n) <=> <<n, p>> \in above
  BY BelowLinked
<1>3. t \in S /\ \A n \in S : <<n, t>> \notin above
  <2>1. \A n \in S : n \notin Below(n)
    BY <1>1, <1>2 DEF Ordered
  <2>2. \A n, p, q \in S : p \in Below(n) /\ q \in Below(p) => q \in Below(n)
    BY <1>1, <1>2 DEF Ordered
  <2>3. t \in S /\ \A n \in S : t \notin Below(n)
    BY <1>1, <2>1, <2>2, TopmostIn
  <2> QED
    BY <1>2, <2>3
<1> HIDE DEF t
<1>4. ASSUME NEW r \in used, <<r, t>> \in above, <<r, m>> \in above,
             Between(addr[r], addr[t], addr[m])
      PROVE  FALSE
  BY <1>3, <1>4
<1> QED
  BY <1>3, <1>4 DEF SearchTree, t

\* The child on the side of an address is above the node that holds it.
LEMMA ChildLeads ==
  ASSUME HeapInv, NEW n \in used, NEW m \in used, <<n, m>> \in above,
         NEW a \in Nat, Holds(m, a)
  PROVE  Onward(n, a) = m \/ <<Onward(n, a), m>> \in above
<1> USE DEF HeapInv
<1>1. used \subseteq Nodes \ pool /\ used \subseteq Nodes
  BY DEF Types, Shape
<1>2. n # m
  BY <1>1 DEF Ordered
<1>3. a < addr[n] <=> addr[m] < addr[n]
  BY <1>1, <1>2, UsedApart
<1>4. \A p : p \in Below(n) <=> <<n, p>> \in above
  BY BelowLinked
<1>5. \A p : <<n, p>> \in above => p \in used /\ p # n
  BY <1>1, BelowLinked, <1>4 DEF Ordered, Shape
<1> DEFINE lower == {p \in Below(n) : addr[p] < addr[n]}
           upper == {p \in Below(n) : addr[p] >= addr[n]}
<1>6. lower \in SUBSET used /\ upper \in SUBSET used
  BY <1>4, <1>5
<1>7. \A x \in Nodes : addr[x] \in Nat
  BY Numbers
<1>8. ASSUME NEW p, NEW q, <<n, p>> \in above, <<n, q>> \in above, NEW r \in used,
             Between(addr[r], addr[p], addr[q]),
             (addr[p] < addr[n] /\ addr[q] < addr[n]) \/ (addr[p] >= addr[n] /\ addr[q] >= addr[n]),
             <<r, p>> \in above
      PROVE  <<n, r>> \in above /\ (addr[r] < addr[n] <=> addr[p] < addr[n])
  <2>1. p \in used /\ q \in used
    BY <1>5, <1>8
  <2>2. addr[r] < addr[n] <=> addr[p] < addr[n]
    BY <1>1, <1>7, <1>8, <2>1 DEF Between
  <2>3. Between(addr[r], addr[p], addr[n]) \/ Between(addr[r], addr[q], addr[n])
    BY <1>1, <1>7, <1>8, <2>1 DEF Between
  <2>4. r # n
    <3>1. addr[p] # addr[n] /\ addr[q] # addr[n]
      BY <1>1, <1>5, <1>8, AddrDiffer
    <3> QED
      BY <1>1, <1>7, <1>8, <2>1, <3>1 DEF Between
  <2> QED
    BY <1>8, <2>1, <2>2, <2>3, <2>4 DEF SearchTree
<1>9. CASE a < addr[n]
  <2>1. m \in lower
    BY <1>3, <1>4, <1>9
  <2>2. \A p, q \in lower, r \in used :
          Between(addr[r], addr[p], addr[q]) /\ <<r, p>> \in above /\ <<r, q>> \in above => r \in lower
    BY <1>4, <1>8
  <2> HIDE DEF lower
  <2>3. Topmost(lower) = m \/ <<Topmost(lower), m>> \in above
    BY <1>6, <2>1, <2>2, TopmostAbove
  <2> QED
    BY <1>9, <2>3 DEF Onward, Left, lower
<1>10. CASE ~ (a < addr[n])
  <2>1. m \in upper
    BY <1>1, <1>3, <1>4, <1>7, <1>10
  <2>2. \A p, q \in upper, r \in used :
          Between(addr[r], addr[p], addr[q]) /\ <<r, p>> \in above /\ <<r, q>> \in above => r \in upper
    <3> SUFFICES ASSUME NEW p \in upper, NEW q \in upper, NEW r \in used,
                        Between(addr[r], addr[p], addr[q]), <<r, p>> \in above
                 PROVE  r \in upper
      OBVIOUS
    <3>1. <<n, p>> \in above /\ <<n, q>> \in above /\ p \in Nodes
          /\ addr[p] >= addr[n] /\ addr[q] >= addr[n]
      BY <1>1, <1>4, <1>5
    <3>2. <<n, r>> \in above /\ (addr[r] < addr[n] <=> addr[p] < addr[n])
      BY <1>8, <3>1
    <3> QED
      BY <1>1, <1>4, <1>7, <3>1, <3>2
  <2> HIDE DEF upper
  <2>3. Topmost(upper) = m \/ <<Topmost(upper), m>> \in above
    BY <1>6, <2>1, <2>2, TopmostAbove
  <2> QED
    BY <1>10, <2>3 DEF Onward, Right, upper
<1> QED
  BY <1>9, <1>10

\* From the root, and from any node above it, a search for an address in a block
\* leads to its node or to one above it.
LookupLeads ==
  \A m \in used : \A a \in Units(Block(m)) :
    /\ occupied_root = m \/ <<occupied_root, m>> \in above
    /\ \A n \in used : <<n, m>> \in above =>
         Onward(n, a) = m \/ <<Onward(n, a), m>> \in above

LEMMA InvLookup == HeapInv => LookupLeads
<1> SUFFICES ASSUME HeapInv, NEW m \in used, NEW a \in Units(Block(m))
             PROVE  /\ occupied_root = m \/ <<occupied_root, m>> \in above
                    /\ \A n \in used : <<n, m>> \in above =>
                         Onward(n, a) = m \/ <<Onward(n, a), m>> \in above
  BY DEF LookupLeads
<1>1. a \in Nat /\ Holds(m, a)
  BY UnitsAre DEF HeapInv, Types
<1>2. occupied_root = m \/ <<occupied_root, m>> \in above
  BY TopmostAbove DEF occupied_root
<1> QED
  BY <1>1, <1>2, ChildLeads

LEMMA PassedAre ==
  ASSUME Types, NEW a, NEW n
  PROVE  n \in Passed(a) <=>
           n \in used /\ \A q \in used \ {n} : Between(addr[q], a, addr[n]) => <<n, q>> \in above
BY BelowLinked DEF Passed

\* The order R on the used nodes and n puts n below the nodes that its address passes.
Inserted(n, R) ==
  \A x, y \in used \cup {n} :
    <<x, y>> \in R <=> <<x, y>> \in above \/ (x \in Passed(addr[n]) /\ y = n)

\* The order R on the nodes of S makes a search tree of them.
TreeOn(S, R) ==
  /\ \A x, y \in S : <<x, y>> \in R => x # y
  /\ \A x, y, z \in S : <<x, y>> \in R /\ <<y, z>> \in R => <<x, z>> \in R
  /\ \A x, y, z \in S :
       <<x, y>> \in R /\ Between(addr[z], addr[y], addr[x]) /\ z # x => <<x, z>> \in R
  /\ \A x, y \in S :
       x = y \/ <<x, y>> \in R \/ <<y, x>> \in R
       \/ \E z \in S : /\ <<z, x>> \in R /\ <<z, y>> \in R
                       /\ Between(addr[z], addr[x], addr[y])

\* insert_bst() leaves a search tree.
LEMMA InsertTree ==
  ASSUME HeapInv, NEW n \in FreeNodes, NEW A, Inserted(n, A)
  PROVE  TreeOn(used \cup {n}, A)
<1> USE DEF HeapInv
<1>0. \A x, y \in used \cup {n} :
        <<x, y>> \in A <=> <<x, y>> \in above \/ (x \in Passed(addr[n]) /\ y = n)
  BY DEF Inserted
<1> DEFINE a == addr[n]
           P(x) == \A q \in used \ {x} : Between(addr[q], a, addr[x]) => <<x, q>> \in above
<1>1. used \cup {n} \subseteq Nodes \ pool /\ n \notin used /\ used \subseteq Nodes
  BY DEF FreeNodes, Types, Shape
<1>2. \A x \in Nodes : addr[x] \in Nat
  BY Numbers
<1>3. \A x, y \in used \cup {n} : x # y => addr[x] # addr[y]
  BY <1>1, AddrDiffer
<1>4. \A x \in used : <<x, n>> \notin above /\ <<n, x>> \notin above
  BY <1>1 DEF Ordered, FreeNodes
<1>5. <<n, n>> \notin above /\ \A x \in used : <<x, x>> \notin above
  BY <1>1 DEF Ordered, FreeNodes
<1>6. \A x, y \in used : <<x, y>> \in A <=> <<x, y>> \in above
  <2> SUFFICES ASSUME NEW x \in used, NEW y \in used
               PROVE  <<x, y>> \in A <=> <<x, y>> \in above
    OBVIOUS
  <2>1. x \in used \cup {n} /\ y \in used \cup {n} /\ y # n
    BY <1>1
  <2> QED
    BY <1>0, <2>1
<1>7. \A x \in used : <<x, n>> \in A <=> P(x)
  BY <1>0, <1>4, PassedAre
<1>8. \A x \in used \cup {n} : <<n, x>> \notin A
  BY <1>0, <1>1, <1>4, <1>5, PassedAre
<1>9. \A x, y, z \in used : <<x, y>> \in above /\ <<y, z>> \in above => <<x, z>> \in above
  BY <1>1 DEF Ordered
<1>10. \A x, y, z \in used :
         <<x, y>> \in above /\ Between(addr[z], addr[y], addr[x]) /\ z # x => <<x, z>> \in above
  BY DEF SearchTree
<1>11. ASSUME NEW x \in used, NEW y \in used, <<x, y>> \in above, P(y) PROVE P(x)
  <2> SUFFICES ASSUME NEW q \in used \ {x}, Between(addr[q], a, addr[x])
               PROVE  <<x, q>> \in above
    OBVIOUS
  <2>1. ~ Between(addr[x], a, addr[y])
    BY <1>5, <1>9, <1>11
  <2>2. Between(addr[q], a, addr[y]) \/ Between(addr[q], addr[y], addr[x])
    BY <1>1, <1>2, <2>1 DEF Between
  <2>3. CASE q = y
    BY <1>11, <2>3
  <2>4. CASE q # y /\ Between(addr[q], a, addr[y])
    BY <1>9, <1>11, <2>4
  <2>5. CASE Between(addr[q], addr[y], addr[x])
    BY <1>10, <1>11, <2>5
  <2> QED
    BY <2>2, <2>3, <2>4, <2>5
<1>12. ASSUME NEW x \in used, NEW y \in used, <<x, y>> \in above, Between(a, addr[y], addr[x])
       PROVE  P(x)
  BY <1>1, <1>2, <1>10, <1>12 DEF Between
<1>13. ASSUME NEW x \in used, ~ P(x)
       PROVE  \E z \in used : /\ <<z, x>> \in above /\ P(z)
                              /\ Between(addr[z], a, addr[x])
  <2> DEFINE T == {z \in used : <<z, x>> \in above /\ Between(addr[z], a, addr[x])}
  <2>1. PICK q \in used \ {x} : Between(addr[q], a, addr[x]) /\ <<x, q>> \notin above
    BY <1>13
  <2>2. T # {}
    <3>1. CASE <<q, x>> \in above
      BY <2>1, <3>1
    <3>2. CASE <<q, x>> \notin above
      <4>1. PICK r \in used : <<r, q>> \in above /\ <<r, x>> \in above
                              /\ Between(addr[r], addr[q], addr[x])
        BY <2>1, <3>2 DEF SearchTree
      <4>2. Between(addr[r], a, addr[x])
        BY <1>1, <1>2, <2>1, <4>1 DEF Between
      <4> QED
        BY <4>1, <4>2
    <3> QED
      BY <3>1, <3>2
  <2>3. PICK t \in T : \A z \in T : <<z, t>> \notin above
    <3>1. T \in SUBSET Nodes
      BY <1>1
    <3>2. /\ \A u \in T : <<u, u>> \notin above
          /\ \A u, v, w \in T : <<u, v>> \in above /\ <<v, w>> \in above => <<u, w>> \in above
      BY <1>5, <1>9
    <3> QED
      BY <2>2, <3>1, <3>2, HighestExists
  <2>4. t \in used /\ <<t, x>> \in above /\ Between(addr[t], a, addr[x])
    BY <2>3
  <2>5. ASSUME NEW w \in used \ {t}, Between(addr[w], a, addr[t]) PROVE <<t, w>> \in above
    <3>1. Between(addr[w], a, addr[x])
      BY <1>1, <1>2, <2>4, <2>5 DEF Between
    <3>2. ASSUME <<w, t>> \in above PROVE FALSE
      BY <1>9, <2>3, <2>4, <3>1, <3>2
    <3>3. ASSUME NEW v \in used, <<v, w>> \in above, <<v, t>> \in above,
                 Between(addr[v], addr[w], addr[t])
          PROVE  FALSE
      <4>1. Between(addr[v], a, addr[x])
        BY <1>1, <1>2, <2>4, <2>5, <3>3 DEF Between
      <4> QED
        BY <1>9, <2>3, <2>4, <3>3, <4>1
    <3> QED
      BY <2>4, <3>2, <3>3 DEF SearchTree
  <2> QED
    BY <2>4, <2>5
<1> HIDE DEF P
<1>14. ASSUME NEW x \in used \cup {n}, NEW y \in used \cup {n}, NEW z \in used \cup {n},
              <<x, y>> \in A, <<y, z>> \in A
       PROVE  <<x, z>> \in A
  <2>1. x \in used /\ y \in used
    BY <1>8, <1>14
  <2>2. CASE z = n
    BY <1>6, <1>7, <1>11, <1>14, <2>1, <2>2
  <2>3. CASE z \in used
    BY <1>6, <1>9, <1>14, <2>1, <2>3
  <2> QED
    BY <2>2, <2>3
<1>15. ASSUME NEW x \in used \cup {n}, NEW y \in used \cup {n}, NEW z \in used \cup {n},
              <<x, y>> \in A, Between(addr[z], addr[y], addr[x]), z # x
       PROVE  <<x, z>> \in A
  <2>1. x \in used
    BY <1>8, <1>15
  <2>2. CASE y \in used /\ z \in used
    BY <1>6, <1>10, <1>15, <2>1, <2>2
  <2>3. CASE y \in used /\ z = n
    BY <1>6, <1>7, <1>12, <1>15, <2>1, <2>3
  <2>4. CASE y = n /\ z \in used
    BY <1>6, <1>7, <1>15, <2>1, <2>4 DEF P
  <2>5. CASE y = n /\ z = n
    BY <1>15, <2>5
  <2> QED
    BY <2>2, <2>3, <2>4, <2>5
<1>16. ASSUME NEW x \in used
       PROVE  <<x, n>> \in A \/ \E z \in used : /\ <<z, x>> \in A /\ <<z, n>> \in A
                                                /\ Between(addr[z], addr[x], addr[n])
                                                /\ Between(addr[z], addr[n], addr[x])
  <2>1. CASE P(x)
    BY <1>7, <2>1
  <2>2. CASE ~ P(x)
    <3>1. PICK z \in used : <<z, x>> \in above /\ P(z) /\ Between(addr[z], a, addr[x])
      BY <1>13, <2>2
    <3> QED
      BY <1>6, <1>7, <3>1 DEF Between
  <2> QED
    BY <2>1, <2>2
<1>17. ASSUME NEW x \in used \cup {n}, NEW y \in used \cup {n}
       PROVE  x = y \/ <<x, y>> \in A \/ <<y, x>> \in A
              \/ \E z \in used \cup {n} : /\ <<z, x>> \in A /\ <<z, y>> \in A
                                          /\ Between(addr[z], addr[x], addr[y])
  <2>1. CASE x \in used /\ y \in used
    BY <1>6, <2>1 DEF SearchTree
  <2>2. CASE x = n /\ y = n
    BY <2>2
  <2>3. CASE x \in used /\ y = n
    BY <1>16, <2>3
  <2>4. CASE x = n /\ y \in used
    BY <1>16, <2>4
  <2> QED
    BY <2>1, <2>2, <2>3, <2>4
<1>18. \A x, y \in used \cup {n} : <<x, y>> \in A => x # y
  BY <1>5, <1>6, <1>8
<1> QED
  BY <1>14, <1>15, <1>17, <1>18 DEF TreeOn

-------------------------------------------------------------------------------
(***************************************************************************)
(* The steps of the heap keep its invariant.                                *)
(***************************************************************************)

LEMMA InitInv == HeapInit => HeapInv
<1> SUFFICES ASSUME HeapInit PROVE HeapInv
  OBVIOUS
<1> USE DEF HeapInit
<1>1. 1 \in Nodes /\ Nodes \subseteq Nat
  BY HeapAssumption DEF Nodes
<1>2. Types
  <2>1. \A e \in above : e = <<e[1], e[2]>> /\ e[1] \in pool /\ e[2] \in pool
    OBVIOUS
  <2>2. addr \in [Nodes -> 0 .. HeapSize] /\ size \in [Nodes -> 0 .. HeapSize]
    BY Constants
  <2> QED
    BY <1>1, <2>1, <2>2 DEF Types
<1>3. Shape
  BY <1>1, Constants DEF Shape
<1>4. Nodes \ pool = {1} /\ FreeNodes = {1} /\ addr[1] = 1 /\ size[1] = HeapSize
  BY <1>1 DEF FreeNodes
<1>5. Partition
  BY <1>4, Constants DEF Partition, Holds, Addresses
<1>6. Ordered
  <2>1. \A n, p : <<n, p>> \in above <=> n \in pool /\ p \in pool /\ n < p
    OBVIOUS
  <2>2. \A n \in pool : n \in Nat
    BY <1>1
  <2> QED
    BY <2>1, <2>2 DEF Ordered
<1>7. SearchTree
  BY DEF SearchTree
<1> QED
  BY <1>2, <1>3, <1>5, <1>6, <1>7 DEF HeapInv

\* The block that an allocation takes.
LEMMA FitFacts ==
  ASSUME HeapInv, NEW s \in Requests, Answer(s) # 0
  PROVE  /\ FirstFit(s) = free_root /\ free_root \in FreeNodes
         /\ Answer(s) = addr[free_root]
         /\ s <= size[free_root]
         /\ size[free_root] > s => pool # {}
<1>1. FirstFit(s) # Null /\ Answer(s) = addr[FirstFit(s)]
      /\ ~ (size[FirstFit(s)] > s /\ pool = {})
  BY DEF Answer
<1>2. FreeNodes # {} /\ FirstFit(s) = free_root /\ size[free_root] >= s
  BY <1>1 DEF FirstFit
<1>3. free_root \in FreeNodes /\ free_root \in Nodes
  BY <1>2, TreapRoot DEF FreeNodes
<1> QED
  BY <1>1, <1>2, <1>3, Numbers, Constants DEF HeapInv

LEMMA PoolHead ==
  ASSUME HeapInv, pool # {}
  PROVE  list_head \in pool /\ \A n \in Nodes : <<n, list_head>> \notin above
<1> USE DEF HeapInv
<1>1. pool \in SUBSET Nodes
  BY DEF Types
<1>2. \A n \in pool : \A p : p \in Below(n) <=> <<n, p>> \in above
  BY BelowLinked
<1>3. list_head \in pool /\ \A n \in pool : list_head \notin Below(n)
  BY <1>1, <1>2, TopmostIn DEF list_head, Ordered
<1>4. list_head \notin used
  BY <1>3 DEF Shape
<1> QED
  BY <1>1, <1>2, <1>3, <1>4 DEF Ordered

\* A search tree of the next state, whose nodes have kept their addresses.
LEMMA TreeStays ==
  ASSUME TreeOn(used', above'), \A x \in used' : addr'[x] = addr[x]
  PROVE  SearchTree'
<1>1. ASSUME NEW x \in used', NEW y \in used', NEW z \in used'
      PROVE  Between(addr'[z], addr'[y], addr'[x]) <=> Between(addr[z], addr[y], addr[x])
  BY DEF Between
<1>2. \A x, y, z \in used' :
        <<x, y>> \in above' /\ Between(addr'[z], addr'[y], addr'[x]) /\ z # x => <<x, z>> \in above'
  BY <1>1 DEF TreeOn
<1>3. \A x, y \in used' :
        x = y \/ <<x, y>> \in above' \/ <<y, x>> \in above'
        \/ \E z \in used' : /\ <<z, x>> \in above' /\ <<z, y>> \in above'
                            /\ Between(addr'[z], addr'[x], addr'[y])
  <2> SUFFICES ASSUME NEW x \in used', NEW y \in used', x # y,
                      <<x, y>> \notin above', <<y, x>> \notin above'
               PROVE  \E z \in used' : /\ <<z, x>> \in above' /\ <<z, y>> \in above'
                                       /\ Between(addr'[z], addr'[x], addr'[y])
    OBVIOUS
  <2>1. PICK z \in used' : /\ <<z, x>> \in above' /\ <<z, y>> \in above'
                          /\ Between(addr[z], addr[x], addr[y])
    BY DEF TreeOn
  <2> QED
    BY <1>1, <2>1
<1> QED
  BY <1>2, <1>3 DEF SearchTree, Between

LEMMA TakeInv ==
  ASSUME HeapInv, NEW s \in Requests, Take(s)
  PROVE  HeapInv'
<1> USE DEF HeapInv
<1> DEFINE n == free_root
<1>1. /\ FirstFit(s) = n /\ n \in FreeNodes /\ size[n] = s
      /\ used' = used \cup {n} /\ above' = above \cup (Passed(addr[n]) \X {n})
      /\ UNCHANGED <<addr, size, pool>>
  BY FitFacts DEF Take
<1> HIDE DEF n
<1>2. n \in Nodes /\ n \notin used /\ n \notin pool
  BY <1>1 DEF FreeNodes
<1>3. Passed(addr[n]) \subseteq used
  BY DEF Passed
<1>4. \A x, y : <<x, y>> \in above' <=> <<x, y>> \in above \/ (x \in Passed(addr[n]) /\ y = n)
  BY <1>1
<1>5. Types'
  <2>1. \A e \in Passed(addr[n]) \X {n} : e \in Nodes \X Nodes
    BY <1>2, <1>3 DEF Types
  <2> QED
    BY <1>1, <1>2, <2>1 DEF Types
<1>6. Shape'
  BY <1>1, <1>2 DEF Shape
<1>7. Partition'
  BY <1>1 DEF Partition, FreeNodes, Holds
<1>8. /\ \A x, y \in used' : <<x, y>> \in above' => x # y
      /\ \A x, y, z \in used' : <<x, y>> \in above' /\ <<y, z>> \in above' => <<x, z>> \in above'
      /\ SearchTree'
  <2>1. Inserted(n, above')
    <3> SUFFICES ASSUME NEW x \in used \cup {n}, NEW y \in used \cup {n}
                 PROVE  <<x, y>> \in above' <=> <<x, y>> \in above \/ (x \in Passed(addr[n]) /\ y = n)
      BY DEF Inserted
    <3> QED
      BY <1>4
  <2>2. TreeOn(used', above')
    BY <1>1, <2>1, InsertTree
  <2>3. SearchTree'
    BY <1>1, <2>2, TreeStays
  <2> QED
    BY <2>2, <2>3 DEF TreeOn
<1>9. Ordered'
  <2>1. ASSUME NEW x \in Nodes, NEW y \in Nodes, <<x, y>> \in above'
        PROVE  x # y /\ ((x \in used' /\ y \in used') \/ (x \in pool' /\ y \in pool'))
    BY <1>1, <1>3, <1>4, <1>8, <2>1 DEF Ordered
  <2>2. ASSUME NEW x \in Nodes, NEW y \in Nodes, NEW z \in Nodes,
               <<x, y>> \in above', <<y, z>> \in above'
        PROVE  <<x, z>> \in above'
    <3>1. CASE y \in used'
      BY <1>1, <1>6, <1>8, <2>1, <2>2, <3>1 DEF Shape
    <3>2. CASE y \notin used'
      BY <1>1, <1>3, <1>4, <2>2, <3>2 DEF Ordered
    <3> QED
      BY <3>1, <3>2
  <2> QED
    BY <2>1, <2>2 DEF Ordered
<1> QED
  BY <1>5, <1>6, <1>7, <1>8, <1>9

LEMMA CutInv ==
  ASSUME HeapInv, NEW s \in Requests, Cut(s)
  PROVE  HeapInv'
<1> USE DEF HeapInv
<1> DEFINE n == free_root
           rest == list_head
<1>1. /\ FirstFit(s) = n /\ n \in FreeNodes /\ size[n] > s /\ pool # {}
      /\ addr' = [addr EXCEPT ![rest] = addr[n] + s]
      /\ size' = [size EXCEPT ![rest] = size[n] - s, ![n] = s]
      /\ used' = used \cup {n} /\ pool' = pool \ {rest}
      /\ above' = {e \in above : e[1] # rest} \cup (Passed(addr[n]) \X {n})
  BY FitFacts DEF Cut, Remainder
<1>2. rest \in pool /\ \A x \in Nodes : <<x, rest>> \notin above
  BY <1>1, PoolHead
<1> HIDE DEF n, rest
<1>3. n \in Nodes /\ n \notin used /\ n \notin pool /\ rest \in Nodes /\ rest \notin used /\ rest # n
  BY <1>1, <1>2 DEF FreeNodes, Shape, Types
<1>4. /\ addr[n] \in Nat /\ size[n] \in Nat /\ s \in Nat /\ 1 <= s
      /\ 1 <= addr[n] /\ addr[n] + size[n] <= HeapSize + 1 /\ s < size[n]
  BY <1>1, <1>3, Numbers, Constants DEF Shape
<1>5. /\ addr'[rest] = addr[n] + s /\ size'[rest] = size[n] - s
      /\ addr'[n] = addr[n] /\ size'[n] = s
      /\ \A x \in Nodes \ {n, rest} : addr'[x] = addr[x] /\ size'[x] = size[x]
      /\ \A x \in used \cup {n} : addr'[x] = addr[x]
  BY <1>1, <1>3 DEF Types
<1>6. Passed(addr[n]) \subseteq used
  BY DEF Passed
<1>7. \A x, y \in Nodes :
        <<x, y>> \in above' <=> (<<x, y>> \in above /\ x # rest) \/ (x \in Passed(addr[n]) /\ y = n)
  BY <1>1
<1>8. Types'
  <2>1. \A e \in Passed(addr[n]) \X {n} : e \in Nodes \X Nodes
    BY <1>3, <1>6 DEF Types
  <2>2. addr[n] + s \in 0 .. HeapSize /\ size[n] - s \in 0 .. HeapSize /\ s \in 0 .. HeapSize
    BY <1>1, <1>4, Constants
  <2> QED
    BY <1>1, <1>3, <2>1, <2>2 DEF Types
<1>9. (Nodes \ pool)' = (Nodes \ pool) \cup {rest}
  BY <1>1, <1>2, <1>3
<1>10. Shape'
  <2>1. \A x \in pool' : addr'[x] = 0 /\ size'[x] = 0
    BY <1>1, <1>3, <1>5 DEF Shape, Types
  <2>2. \A x \in Nodes \ pool' :
          1 <= addr'[x] /\ 1 <= size'[x] /\ addr'[x] + size'[x] <= HeapSize + 1
    <3> SUFFICES ASSUME NEW x \in Nodes \ pool'
                 PROVE  1 <= addr'[x] /\ 1 <= size'[x] /\ addr'[x] + size'[x] <= HeapSize + 1
      OBVIOUS
    <3>1. CASE x = n
      BY <1>1, <1>4, <1>5, <3>1, Constants
    <3>2. CASE x = rest
      BY <1>1, <1>4, <1>5, <3>2, Constants
    <3>3. CASE x \notin {n, rest}
      BY <1>5, <1>9, <3>3 DEF Shape
    <3> QED
      BY <3>1, <3>2, <3>3
  <2>3. \A x \in used' : size'[x] \in Requests
    BY <1>1, <1>3, <1>5 DEF Shape, Types
  <2>4. used' \cap pool' = {}
    BY <1>1, <1>3 DEF Shape
  <2> QED
    BY <2>1, <2>2, <2>3, <2>4 DEF Shape
<1>11. \A x \in Nodes : addr[x] \in Nat /\ size[x] \in Nat
  BY Numbers
<1>12. ASSUME NEW x \in Nodes \ pool, x # n
       PROVE  /\ x \in Nodes \ {n, rest}
              /\ addr[x] + size[x] <= addr[n] \/ addr[n] + size[n] <= addr[x]
              /\ 1 <= size[x]
              /\ addr'[x] = addr[x] /\ size'[x] = size[x]
  BY <1>2, <1>3, <1>5, <1>12 DEF Partition, Shape
<1>13. Partition'
  <2>1. ASSUME NEW x \in Nodes \ pool', NEW y \in Nodes \ pool', x # y
        PROVE  addr'[x] + size'[x] <= addr'[y] \/ addr'[y] + size'[y] <= addr'[x]
    <3>1. CASE x \notin {n, rest} /\ y \notin {n, rest}
      BY <1>5, <1>9, <2>1, <3>1 DEF Partition
    <3>2. CASE x \in {n, rest} /\ y \in {n, rest}
      BY <1>4, <1>5, <2>1, <3>2
    <3>3. ASSUME NEW z \in Nodes \ pool, z # n
          PROVE  /\ addr'[z] + size'[z] <= addr'[n] \/ addr'[n] + size'[n] <= addr'[z]
                 /\ addr'[z] + size'[z] <= addr'[rest] \/ addr'[rest] + size'[rest] <= addr'[z]
      <4> DEFINE a == addr[z]
                 k == size[z]
      <4>1. /\ a \in Nat /\ k \in Nat /\ (a + k <= addr[n] \/ addr[n] + size[n] <= a)
            /\ addr'[z] = a /\ size'[z] = k
        BY <1>11, <1>12, <3>3
      <4> HIDE DEF a, k
      <4> QED
        BY <1>4, <1>5, <4>1
    <3>4. CASE x \in {n, rest} /\ y \notin {n, rest}
      BY <1>9, <2>1, <3>3, <3>4
    <3>5. CASE x \notin {n, rest} /\ y \in {n, rest}
      BY <1>9, <2>1, <3>3, <3>5
    <3> QED
      BY <3>1, <3>2, <3>4, <3>5
  <2>2. ASSUME NEW a \in Addresses
        PROVE  \E x \in Nodes \ pool' : addr'[x] <= a /\ a < addr'[x] + size'[x]
    <3>1. PICK x \in Nodes \ pool : addr[x] <= a /\ a < addr[x] + size[x]
      BY DEF Partition, Holds
    <3>2. CASE x # n
      BY <1>5, <1>9, <1>12, <3>1, <3>2
    <3>3. CASE x = n /\ a < addr[n] + s
      BY <1>3, <1>5, <1>9, <3>1, <3>3
    <3>4. CASE x = n /\ ~ (a < addr[n] + s)
      <4>1. a \in Nat
        BY Constants DEF Addresses
      <4>2. addr'[rest] <= a /\ a < addr'[rest] + size'[rest]
        BY <1>4, <1>5, <3>1, <3>4, <4>1
      <4> QED
        BY <1>9, <4>2
    <3> QED
      BY <3>2, <3>3, <3>4
  <2>3. FreeNodes' = (FreeNodes \ {n}) \cup {rest}
    BY <1>1, <1>2, <1>3 DEF FreeNodes
  <2>4. FreeNodes \subseteq Nodes \ pool
    BY DEF FreeNodes
  <2>5. ASSUME NEW x \in FreeNodes', NEW y \in FreeNodes' PROVE addr'[x] + size'[x] # addr'[y]
    <3>1. CASE x # rest /\ y # rest
      BY <1>5, <1>12, <2>3, <2>4, <2>5, <3>1 DEF Partition
    <3>2. CASE x = rest /\ y = rest
      BY <1>1, <1>4, <1>5, <3>2
    <3>3. CASE x = rest /\ y # rest
      <4>1. y \in FreeNodes /\ y # n /\ addr[n] + size[n] # addr[y]
        BY <1>1, <2>3, <3>3 DEF Partition
      <4>2. addr'[y] = addr[y] /\ addr'[rest] + size'[rest] = addr[n] + size[n]
        BY <1>4, <1>5, <1>12, <2>4, <4>1
      <4> QED
        BY <3>3, <4>1, <4>2
    <3>4. CASE x # rest /\ y = rest
      <4>1. x \in FreeNodes /\ x # n /\ addr[x] + size[x] # addr[n]
        BY <1>1, <2>3, <3>4 DEF Partition
      <4>2. /\ addr'[x] = addr[x] /\ size'[x] = size[x]
            /\ addr[x] + size[x] <= addr[n] \/ addr[n] + size[n] <= addr[x]
            /\ addr[x] \in Nat /\ size[x] \in Nat
        BY <1>11, <1>12, <2>4, <4>1
      <4>3. addr[x] + size[x] # addr[n] + s
        BY <1>4, <4>2
      <4> QED
        BY <1>5, <3>4, <4>2, <4>3
    <3> QED
      BY <3>1, <3>2, <3>3, <3>4
  <2> QED
    BY <2>1, <2>2, <2>5 DEF Partition, Holds
<1>14. /\ \A x, y \in used' : <<x, y>> \in above' => x # y
       /\ \A x, y, z \in used' : <<x, y>> \in above' /\ <<y, z>> \in above' => <<x, z>> \in above'
       /\ SearchTree'
  <2>1. Inserted(n, above')
    <3> SUFFICES ASSUME NEW x \in used \cup {n}, NEW y \in used \cup {n}
                 PROVE  <<x, y>> \in above' <=> <<x, y>> \in above \/ (x \in Passed(addr[n]) /\ y = n)
      BY DEF Inserted
    <3>1. x \in Nodes /\ y \in Nodes /\ x # rest
      BY <1>3 DEF Types
    <3> QED
      BY <1>7, <3>1
  <2>2. TreeOn(used', above')
    BY <1>1, <2>1, InsertTree
  <2>3. \A x \in used' : addr'[x] = addr[x]
    BY <1>1, <1>5
  <2>4. SearchTree'
    BY <2>2, <2>3, TreeStays
  <2> QED
    BY <2>2, <2>4 DEF TreeOn
<1>15. Ordered'
  <2>1. ASSUME NEW x \in Nodes, NEW y \in Nodes, <<x, y>> \in above'
        PROVE  x # y /\ ((x \in used' /\ y \in used') \/ (x \in pool' /\ y \in pool'))
    BY <1>1, <1>2, <1>6, <1>7, <1>14, <2>1 DEF Ordered
  <2>2. ASSUME NEW x \in Nodes, NEW y \in Nodes, NEW z \in Nodes,
               <<x, y>> \in above', <<y, z>> \in above'
        PROVE  <<x, z>> \in above'
    <3>1. CASE y \in used'
      BY <1>10, <1>14, <2>1, <2>2, <3>1 DEF Shape
    <3>2. CASE y \notin used'
      BY <1>1, <1>6, <1>7, <2>2, <3>2 DEF Ordered
    <3> QED
      BY <3>1, <3>2
  <2> QED
    BY <2>1, <2>2 DEF Ordered
<1> QED
  BY <1>8, <1>10, <1>13, <1>14, <1>15

-------------------------------------------------------------------------------
(***************************************************************************)
(* What insert_treap() makes of the released blocks: a run is an interval    *)
(* that cannot be extended.                                                 *)
(***************************************************************************)

LEMMA LastExists ==
  ASSUME NEW S \in SUBSET Addresses, S # {}
  PROVE  \E a \in S : \A b \in S : b <= a
<1> DEFINE T == {HeapSize - b : b \in S}
<1>1. \A b \in S : b \in Nat /\ b <= HeapSize /\ HeapSize - b \in Nat
  BY Constants DEF Addresses
<1>2. T \in SUBSET Nat /\ T # {}
  BY <1>1
<1> HIDE DEF T
<1>3. PICK c \in T : \A d \in T : c <= d
  BY <1>2, LeastExists
<1>4. PICK a \in S : c = HeapSize - a
  BY <1>3 DEF T
<1>5. \A b \in S : HeapSize - a <= HeapSize - b
  BY <1>3, <1>4 DEF T
<1> QED
  BY <1>1, <1>4, <1>5, Constants

LEMMA RunBetween ==
  ASSUME NEW U \in SUBSET Addresses, NEW a \in U
  PROVE  \A b : b \in Run(U, a) <=> b \in U /\ \A c \in Addresses : Between(c, a, b) => c \in U
<1> SUFFICES ASSUME NEW b \in U
             PROVE  (a .. b) \cup (b .. a) \subseteq U
                    <=> \A c \in Addresses : Between(c, a, b) => c \in U
  BY DEF Run
<1>1. \A c : c \in Addresses <=> c \in Nat /\ 1 <= c /\ c <= HeapSize
  BY Constants DEF Addresses
<1>2. \A c \in Addresses : c \in (a .. b) \cup (b .. a) <=> Between(c, a, b)
  BY <1>1 DEF Between
<1>3. a \in Addresses /\ b \in Addresses
  OBVIOUS
<1>4. ASSUME NEW c \in (a .. b) \cup (b .. a) PROVE c \in Addresses
  <2>1. a \in Nat /\ b \in Nat /\ 1 <= a /\ 1 <= b /\ a <= HeapSize /\ b <= HeapSize
    BY <1>1, <1>3
  <2>2. c \in Nat /\ 1 <= c /\ c <= HeapSize
    BY <2>1, Constants
  <2> QED
    BY <1>1, <2>2
<1> QED
  BY <1>2, <1>4

LEMMA RunIs ==
  ASSUME NEW U \in SUBSET Addresses, NEW a \in U
  PROVE  LET f == First(Run(U, a))
             k == Cardinality(Run(U, a))
         IN  /\ f \in Nat /\ k \in Nat /\ 1 <= f /\ f <= a /\ a < f + k /\ f + k <= HeapSize + 1
             /\ \A b : b \in Run(U, a) <=> b \in Nat /\ f <= b /\ b < f + k
             /\ Run(U, a) \subseteq U
             /\ f - 1 \notin U /\ f + k \notin U
<1> DEFINE R == Run(U, a)
<1>1. \A b \in Addresses : b \in Nat /\ 1 <= b /\ b <= HeapSize
  BY Constants DEF Addresses
<1>2. \A b : b \in R <=> b \in U /\ \A c \in Addresses : Between(c, a, b) => c \in U
  BY RunBetween
<1>3. a \in R /\ R \in SUBSET Addresses /\ R \in SUBSET Nat /\ R \subseteq U
  BY <1>1, <1>2 DEF Between
<1> HIDE DEF R
<1>4. PICK f \in R : \A b \in R : f <= b
  BY <1>3, LeastExists
<1>5. PICK l \in R : \A b \in R : b <= l
  BY <1>3, LastExists
<1>6. /\ f \in Nat /\ l \in Nat /\ a \in Nat /\ 1 <= f /\ f <= a /\ a <= l /\ l <= HeapSize
      /\ f \in U /\ l \in U
      /\ \A b \in R : b \in Nat
  BY <1>1, <1>3, <1>4, <1>5
<1>7. First(R) = f
  <2> DEFINE g == First(R)
  <2>1. g \in R /\ \A b \in R : g <= b
    BY <1>4 DEF First
  <2> HIDE DEF g
  <2>2. g <= f /\ f <= g /\ g \in Nat
    BY <1>4, <1>6, <2>1
  <2> QED
    BY <1>6, <2>2 DEF g
<1>8. ASSUME NEW b \in Nat, f <= b, b <= l PROVE b \in R
  <2>1. b \in Addresses
    BY <1>6, <1>8, Constants DEF Addresses
  <2>2. ASSUME NEW c \in Addresses, Between(c, a, b) PROVE c \in U
    <3>1. Between(c, a, f) \/ Between(c, a, l)
      BY <1>1, <1>6, <1>8, <2>2 DEF Between
    <3> QED
      BY <1>2, <1>4, <1>5, <3>1
  <2>3. b \in U
    BY <1>1, <1>6, <2>1, <2>2 DEF Between
  <2> QED
    BY <1>2, <2>2, <2>3
<1>9. \A b : b \in R <=> b \in Nat /\ f <= b /\ b < l + 1
  <2>1. \A b \in R : b \in Nat /\ f <= b /\ b < l + 1
    BY <1>4, <1>5, <1>6
  <2>2. \A b \in Nat : f <= b /\ b < l + 1 => b \in R
    BY <1>6, <1>8
  <2> QED
    BY <2>1, <2>2
<1>10. Cardinality(R) = (l - f) + 1
  <2>1. f \in Int /\ l \in Int /\ ~ (f > l)
    BY <1>6
  <2>2. \A b : b \in R <=> b \in f .. l
    BY <1>6, <1>9
  <2>3. R = f .. l
    BY <2>2
  <2> QED
    BY <2>1, <2>3, FS_Interval
<1>11. f - 1 \notin U
  <2> SUFFICES ASSUME f - 1 \in U PROVE FALSE
    OBVIOUS
  <2>1. f - 1 \in Nat
    BY <1>1
  <2>2. ASSUME NEW c \in Addresses, Between(c, a, f - 1) PROVE c \in U
    <3>1. c = f - 1 \/ Between(c, a, f)
      BY <1>1, <1>6, <2>2 DEF Between
    <3> QED
      BY <1>2, <1>4, <3>1
  <2>3. f - 1 \in R
    BY <1>2, <2>2
  <2> QED
    BY <1>4, <1>6, <2>3
<1>12. l + 1 \notin U
  <2> SUFFICES ASSUME l + 1 \in U PROVE FALSE
    OBVIOUS
  <2>1. ASSUME NEW c \in Addresses, Between(c, a, l + 1) PROVE c \in U
    <3>1. c = l + 1 \/ Between(c, a, l)
      BY <1>1, <1>6, <2>1 DEF Between
    <3> QED
      BY <1>2, <1>5, <3>1
  <2>2. l + 1 \in R
    BY <1>2, <2>1
  <2> QED
    BY <1>5, <1>6, <2>2
<1>13. f + Cardinality(R) = l + 1 /\ Cardinality(R) \in Nat
  BY <1>6, <1>10
<1> DEFINE k == Cardinality(R)
<1>14. /\ f \in Nat /\ k \in Nat /\ 1 <= f /\ f <= a /\ a < f + k /\ f + k <= HeapSize + 1
       /\ \A b : b \in R <=> b \in Nat /\ f <= b /\ b < f + k
       /\ R \subseteq U
       /\ f - 1 \notin U /\ f + k \notin U
  <2> HIDE DEF k
  <2> QED
    BY <1>3, <1>6, <1>9, <1>11, <1>12, <1>13, Constants DEF k
<1> QED
  BY <1>7, <1>14 DEF R

\* Two runs that meet are one.
LEMMA RunsMeet ==
  ASSUME NEW U \in SUBSET Addresses, NEW a \in U, NEW b \in U, NEW x,
         x \in Run(U, a), x \in Run(U, b)
  PROVE  Run(U, a) = Run(U, b)
<1> DEFINE f == First(Run(U, a))
           k == Cardinality(Run(U, a))
           g == First(Run(U, b))
           m == Cardinality(Run(U, b))
<1>1. /\ f \in Nat /\ k \in Nat /\ f - 1 \notin U /\ f + k \notin U
      /\ \A c : c \in Run(U, a) <=> c \in Nat /\ f <= c /\ c < f + k
      /\ Run(U, a) \subseteq U
  BY RunIs
<1>2. /\ g \in Nat /\ m \in Nat /\ g - 1 \notin U /\ g + m \notin U
      /\ \A c : c \in Run(U, b) <=> c \in Nat /\ g <= c /\ c < g + m
      /\ Run(U, b) \subseteq U
  BY RunIs
<1> HIDE DEF f, k, g, m
<1>3. x \in Nat /\ f <= x /\ x < f + k /\ g <= x /\ x < g + m
  BY <1>1, <1>2
<1>4. f = g
  <2>1. ASSUME f < g PROVE FALSE
    <3>1. g - 1 \in Run(U, a)
      BY <1>1, <1>2, <1>3, <2>1
    <3> QED
      BY <1>1, <1>2, <3>1
  <2>2. ASSUME g < f PROVE FALSE
    <3>1. f - 1 \in Run(U, b)
      BY <1>1, <1>2, <1>3, <2>2
    <3> QED
      BY <1>1, <1>2, <3>1
  <2> QED
    BY <1>1, <1>2, <2>1, <2>2
<1>5. f + k = g + m
  <2>1. ASSUME f + k < g + m PROVE FALSE
    <3>1. f + k \in Run(U, b)
      BY <1>1, <1>2, <1>4, <2>1
    <3> QED
      BY <1>1, <1>2, <3>1
  <2>2. ASSUME g + m < f + k PROVE FALSE
    <3>1. g + m \in Run(U, a)
      BY <1>1, <1>2, <1>4, <2>2
    <3> QED
      BY <1>1, <1>2, <3>1
  <2> QED
    BY <1>1, <1>2, <2>1, <2>2
<1>6. \A c : c \in Run(U, a) <=> c \in Run(U, b)
  BY <1>1, <1>2, <1>4, <1>5
<1> QED
  BY <1>6

\* Intervals without a common number lie one before the other.
LEMMA IntervalsApart ==
  ASSUME NEW a \in Nat, NEW k \in Nat, NEW b \in Nat, NEW m \in Nat, 1 <= k, 1 <= m,
         \A c \in Nat : ~ (a <= c /\ c < a + k /\ b <= c /\ c < b + m)
  PROVE  a + k <= b \/ b + m <= a
<1>1. ~ (b <= a /\ a < b + m) /\ ~ (a <= b /\ b < a + k)
  OBVIOUS
<1> QED
  BY <1>1

LEMMA StacksAre ==
  ASSUME NEW S \in SUBSET Nodes, NEW stack \in Stacks(S)
  PROVE  /\ stack \subseteq S \X S
         /\ \A n, p : <<n, p>> \in stack => n # p
         /\ \A n, p, q : <<n, p>> \in stack /\ <<p, q>> \in stack => <<n, q>> \in stack
<1>1. PICK rank \in [S -> S] : stack = {e \in S \X S : rank[e[1]] < rank[e[2]]}
  BY DEF Stacks
<1>2. \A n, p : <<n, p>> \in stack <=> n \in S /\ p \in S /\ rank[n] < rank[p]
  BY <1>1
<1>3. \A n \in S : rank[n] \in Int
  BY Constants
<1> QED
  BY <1>1, <1>2, <1>3

(***************************************************************************)
(* A collection keeps the heap's invariant.                                 *)
(***************************************************************************)
LEMMA CollectInv ==
  ASSUME HeapInv, NEW kept \in SUBSET used, CollectKeeping(kept)
  PROVE  HeapInv'
<1> DEFINE gone == used \ kept
           free == gone \cup FreeNodes
           idle == Addresses \ UNION {Units(Block(n)) : n \in kept}
           block(n) == Run(idle, addr[n])
           start(n) == First(block(n))
           length(n) == Cardinality(block(n))
<1> USE DEF HeapInv
<1>1. PICK rest \in SUBSET free :
        /\ \A n \in free : \E h \in rest : addr[h] \in block(n)
        /\ \A h \in rest : \A p \in (rest \cup gone) \ {h} :
             addr[h] \in block(p) => h \in gone /\ p \notin rest
        /\ pool' = pool \cup (free \ rest)
        /\ addr' = [n \in Nodes |-> IF n \in rest THEN start(n)
                                    ELSE IF n \in free \ rest THEN 0 ELSE addr[n]]
        /\ size' = [n \in Nodes |-> IF n \in rest THEN length(n)
                                    ELSE IF n \in free \ rest THEN 0 ELSE size[n]]
        /\ \E stack \in Stacks(free \ rest) :
             above' = (above \cap ((kept \X kept) \cup (pool \X pool)))
                      \cup ((free \ rest) \X pool) \cup stack
  BY DEF CollectKeeping
<1>2. used' = kept /\ \A n \in gone : OneSided(n, kept)
  BY DEF CollectKeeping, RemovesInner
<1> DEFINE back == free \ rest
<1>3. PICK stack \in Stacks(back) :
        above' = (above \cap ((kept \X kept) \cup (pool \X pool))) \cup (back \X pool) \cup stack
  BY <1>1
<1>4. /\ Nodes \ pool = kept \cup free /\ kept \cap free = {} /\ kept \cap pool = {}
      /\ kept \subseteq Nodes /\ free \subseteq Nodes /\ back \subseteq Nodes
      /\ free \cap pool = {} /\ rest \subseteq free /\ back \cap rest = {}
  BY DEF Types, Shape, FreeNodes
<1>5. Nodes \ pool' = kept \cup rest /\ FreeNodes' = rest
  BY <1>1, <1>2, <1>4 DEF FreeNodes, Nodes
<1>6. idle \in SUBSET Addresses /\ \A a \in Addresses : a \in idle <=> \A n \in kept : ~ Holds(n, a)
  <2>1. \A a \in Addresses : a \in Nat
    BY Constants DEF Addresses
  <2> QED
    BY <1>4, <2>1, UnitsAre
<1> HIDE DEF idle
<1>7. ASSUME NEW n \in free, NEW a \in Nat, Holds(n, a)
      PROVE  a \in idle
  <2>1. a \in Addresses
    BY <1>4, <1>7, Numbers, Constants DEF Shape, Holds, Addresses
  <2>2. \A p \in kept : ~ Holds(p, a)
    BY <1>4, <1>7, UsedApart
  <2> QED
    BY <1>6, <2>1, <2>2
<1>8. \A n \in free : addr[n] \in idle
  <2>1. \A n \in free : addr[n] \in Nat /\ Holds(n, addr[n])
    BY <1>4, Numbers DEF Shape, Holds
  <2> QED
    BY <1>7, <2>1
<1>9. ASSUME NEW n \in free
      PROVE  /\ start(n) \in Nat /\ length(n) \in Nat /\ 1 <= start(n) /\ 1 <= length(n)
             /\ start(n) + length(n) <= HeapSize + 1
             /\ \A b : b \in block(n) <=> b \in Nat /\ start(n) <= b /\ b < start(n) + length(n)
             /\ block(n) \subseteq idle
             /\ start(n) + length(n) \notin idle
             /\ addr[n] \in block(n)
             /\ start(n) \in block(n)
  <2>1. idle \in SUBSET Addresses /\ addr[n] \in idle
    BY <1>6, <1>8
  <2> DEFINE f == First(Run(idle, addr[n]))
             k == Cardinality(Run(idle, addr[n]))
             a == addr[n]
             B == Run(idle, addr[n])
  <2>2. /\ f \in Nat /\ k \in Nat /\ 1 <= f /\ f <= a /\ a < f + k /\ f + k <= HeapSize + 1
        /\ \A b : b \in B <=> b \in Nat /\ f <= b /\ b < f + k
        /\ B \subseteq idle
        /\ f - 1 \notin idle /\ f + k \notin idle
    BY <2>1, RunIs
  <2>3. a \in Nat
    BY <1>4, Numbers
  <2>4. /\ f \in Nat /\ k \in Nat /\ 1 <= f /\ 1 <= k /\ f + k <= HeapSize + 1
        /\ \A b : b \in B <=> b \in Nat /\ f <= b /\ b < f + k
        /\ B \subseteq idle
        /\ f + k \notin idle
        /\ a \in B /\ f \in B
    <3> HIDE DEF f, k, a, B
    <3> QED
      BY <2>2, <2>3
  <2> QED
    BY <2>4
<1>10. ASSUME NEW x \in free, NEW y \in free, NEW c, c \in block(x), c \in block(y)
       PROVE  block(x) = block(y)
  BY <1>6, <1>8, <1>10, RunsMeet
<1>11. ASSUME NEW n \in free, NEW a \in Addresses, Holds(n, a) PROVE a \in block(n)
  <2>1. a \in Nat /\ addr[n] \in Nat /\ size[n] \in Nat /\ \A c \in Addresses : c \in Nat
    BY <1>4, Numbers, Constants DEF Addresses
  <2>2. ASSUME NEW c \in Addresses, Between(c, addr[n], a) PROVE c \in idle
    BY <1>7, <1>11, <2>1, <2>2 DEF Between, Holds
  <2>3. a \in idle
    BY <1>7, <1>11, <2>1
  <2> QED
    BY <1>6, <1>8, <2>2, <2>3, RunBetween
<1> HIDE DEF block, start, length
<1>12. /\ \A n \in kept : addr'[n] = addr[n] /\ size'[n] = size[n]
       /\ \A n \in rest : addr'[n] = start(n) /\ size'[n] = length(n)
       /\ \A n \in pool' : addr'[n] = 0 /\ size'[n] = 0
  <2>1. \A n \in pool : addr[n] = 0 /\ size[n] = 0 /\ n \in Nodes
    BY DEF Shape, Types
  <2> QED
    BY <1>1, <1>4, <2>1
<1>13. \A n \in rest : n \in free
  BY <1>1
<1>14. Types'
  <2>1. /\ \A n \in rest : start(n) \in 0 .. HeapSize /\ length(n) \in 0 .. HeapSize
        /\ 0 \in 0 .. HeapSize
    <3> SUFFICES ASSUME NEW n \in rest
                 PROVE  start(n) \in 0 .. HeapSize /\ length(n) \in 0 .. HeapSize
      BY Constants
    <3> DEFINE f == start(n)
               k == length(n)
    <3>1. f \in Nat /\ k \in Nat /\ 1 <= f /\ 1 <= k /\ f + k <= HeapSize + 1
      BY <1>9, <1>13
    <3> HIDE DEF f, k
    <3>2. f \in 0 .. HeapSize /\ k \in 0 .. HeapSize
      BY <3>1, Constants
    <3> QED
      BY <3>2 DEF f, k
  <2>2. addr' \in [Nodes -> 0 .. HeapSize] /\ size' \in [Nodes -> 0 .. HeapSize]
    BY <1>1, <2>1 DEF Types
  <2>3. above' \subseteq Nodes \X Nodes
    BY <1>3, <1>4, StacksAre DEF Types
  <2>4. used' \subseteq Nodes /\ pool' \subseteq Nodes
    BY <1>1, <1>2, <1>4 DEF Types
  <2> QED
    BY <2>2, <2>3, <2>4 DEF Types
<1>15. Shape'
  <2>1. \A n \in Nodes \ pool' :
          1 <= addr'[n] /\ 1 <= size'[n] /\ addr'[n] + size'[n] <= HeapSize + 1
    <3>1. \A n \in kept :
            1 <= addr'[n] /\ 1 <= size'[n] /\ addr'[n] + size'[n] <= HeapSize + 1
      BY <1>4, <1>12 DEF Shape
    <3>2. \A n \in rest :
            1 <= addr'[n] /\ 1 <= size'[n] /\ addr'[n] + size'[n] <= HeapSize + 1
      BY <1>9, <1>12, <1>13
    <3> QED
      BY <1>5, <3>1, <3>2
  <2>2. \A n \in used' : size'[n] \in Requests
    BY <1>2, <1>4, <1>12 DEF Shape
  <2>3. used' \cap pool' = {}
    BY <1>1, <1>2, <1>4
  <2> QED
    BY <1>12, <2>1, <2>2, <2>3 DEF Shape
<1>16. ASSUME NEW x \in Nodes \ pool', NEW y \in Nodes \ pool', x # y
       PROVE  addr'[x] + size'[x] <= addr'[y] \/ addr'[y] + size'[y] <= addr'[x]
  <2>1. CASE x \in kept /\ y \in kept
    BY <1>4, <1>12, <1>16, <2>1 DEF Partition
  <2>2. ASSUME NEW n \in kept, NEW p \in rest
        PROVE  addr'[n] + size'[n] <= addr'[p] \/ addr'[p] + size'[p] <= addr'[n]
    <3> DEFINE a == addr[n]
               k == size[n]
               b == start(p)
               m == length(p)
    <3>1. a \in Nat /\ k \in Nat /\ b \in Nat /\ m \in Nat /\ 1 <= k /\ 1 <= m
      BY <1>4, <1>9, <1>13, Numbers DEF Shape
    <3>2. ASSUME NEW c \in Nat, a <= c, c < a + k, b <= c, c < b + m PROVE FALSE
      <4>1. c \in idle /\ Holds(n, c)
        BY <1>9, <1>13, <3>2 DEF Holds
      <4> QED
        BY <1>6, <4>1
    <3>3. a + k <= b \/ b + m <= a
      <4> HIDE DEF a, k, b, m
      <4> QED
        BY <3>1, <3>2, IntervalsApart
    <3> QED
      BY <1>12, <3>3
  <2>3. CASE x \in rest /\ y \in rest
    <3> DEFINE a == start(x)
               k == length(x)
               b == start(y)
               m == length(y)
    <3>1. a \in Nat /\ k \in Nat /\ b \in Nat /\ m \in Nat /\ 1 <= k /\ 1 <= m
      BY <1>9, <1>13, <2>3
    <3>2. ASSUME NEW c \in Nat, a <= c, c < a + k, b <= c, c < b + m PROVE FALSE
      <4>1. c \in block(x) /\ c \in block(y)
        BY <1>9, <1>13, <2>3, <3>2
      <4>2. block(x) = block(y)
        BY <1>10, <1>13, <2>3, <4>1
      <4>3. addr[x] \in block(y)
        BY <1>9, <1>13, <2>3, <4>2
      <4> QED
        BY <1>1, <1>16, <2>3, <4>3
    <3>3. a + k <= b \/ b + m <= a
      <4> HIDE DEF a, k, b, m
      <4> QED
        BY <3>1, <3>2, IntervalsApart
    <3> QED
      BY <1>12, <2>3, <3>3
  <2> QED
    BY <1>5, <1>16, <2>1, <2>2, <2>3
<1>17. ASSUME NEW a \in Addresses
       PROVE  \E n \in Nodes \ pool' : addr'[n] <= a /\ a < addr'[n] + size'[n]
  <2>1. PICK n \in kept \cup free : Holds(n, a)
    BY <1>4 DEF Partition
  <2>2. CASE n \in kept
    BY <1>5, <1>12, <2>1, <2>2 DEF Holds
  <2>3. CASE n \in free
    <3>1. PICK h \in rest : addr[h] \in block(n)
      BY <1>1, <2>3
    <3>2. h \in free /\ block(h) = block(n)
      BY <1>9, <1>10, <1>13, <2>3, <3>1
    <3>3. a \in block(h)
      BY <1>11, <2>1, <2>3, <3>2
    <3>4. start(h) <= a /\ a < start(h) + length(h)
      BY <1>9, <3>2, <3>3
    <3> QED
      BY <1>5, <1>12, <3>4
  <2> QED
    BY <2>1, <2>2, <2>3
<1>18. ASSUME NEW x \in FreeNodes', NEW y \in FreeNodes' PROVE addr'[x] + size'[x] # addr'[y]
  <2>1. x \in rest /\ y \in rest
    BY <1>5, <1>18
  <2>2. start(x) + length(x) \notin idle /\ start(y) \in idle
    BY <1>9, <1>13, <2>1
  <2> QED
    BY <1>12, <2>1, <2>2
<1>19. Partition'
  BY <1>16, <1>17, <1>18 DEF Partition, Holds
<1>20. /\ \A n, p : <<n, p>> \in above' <=>
            \/ <<n, p>> \in above /\ n \in kept /\ p \in kept
            \/ <<n, p>> \in above /\ n \in pool /\ p \in pool
            \/ n \in back /\ p \in pool
            \/ <<n, p>> \in stack
       /\ \A n, p : <<n, p>> \in stack => n \in back /\ p \in back /\ n # p
       /\ \A n, p, q : <<n, p>> \in stack /\ <<p, q>> \in stack => <<n, q>> \in stack
  <2>1. /\ stack \subseteq back \X back
        /\ \A n, p : <<n, p>> \in stack => n # p
        /\ \A n, p, q : <<n, p>> \in stack /\ <<p, q>> \in stack => <<n, q>> \in stack
    BY <1>4, StacksAre
  <2> QED
    BY <1>3, <2>1
<1>21. used' = kept /\ pool' = pool \cup back /\ back \cap pool = {} /\ back \cap kept = {}
  BY <1>1, <1>2, <1>4
<1>22. Ordered'
  <2>1. ASSUME NEW n \in Nodes, NEW p \in Nodes, <<n, p>> \in above'
        PROVE  n # p /\ ((n \in used' /\ p \in used') \/ (n \in pool' /\ p \in pool'))
    BY <1>20, <1>21, <2>1 DEF Ordered
  <2>2. ASSUME NEW n \in Nodes, NEW p \in Nodes, NEW q \in Nodes,
               <<n, p>> \in above', <<p, q>> \in above'
        PROVE  <<n, q>> \in above'
    BY <1>4, <1>20, <1>21, <2>2 DEF Ordered
  <2> QED
    BY <2>1, <2>2 DEF Ordered
<1>23. SearchTree'
  <2>1. \A n, p \in kept : <<n, p>> \in above' <=> <<n, p>> \in above
    BY <1>4, <1>20, <1>21
  <2>2. ASSUME NEW n \in kept, NEW p \in kept, NEW q \in kept, <<n, p>> \in above',
               Between(addr'[q], addr'[p], addr'[n]), q # n
        PROVE  <<n, q>> \in above'
    BY <1>12, <2>1, <2>2 DEF SearchTree
  <2>3. ASSUME NEW p \in kept, NEW q \in kept,
               p # q, <<p, q>> \notin above', <<q, p>> \notin above'
        PROVE  \E r \in kept : /\ <<r, p>> \in above' /\ <<r, q>> \in above'
                               /\ Between(addr'[r], addr'[p], addr'[q])
    <3>1. PICK r \in used : /\ <<r, p>> \in above /\ <<r, q>> \in above
                            /\ Between(addr[r], addr[p], addr[q])
      BY <2>1, <2>3 DEF SearchTree
    <3>2. r \in kept
      <4> SUFFICES ASSUME r \notin kept PROVE FALSE
        OBVIOUS
      <4>1. r \in gone /\ r \in used \cup pool
        BY <3>1
      <4>2. p \in kept \cap Below(r) /\ q \in kept \cap Below(r)
        BY <3>1, <4>1, BelowLinked
      <4>3. addr[r] # addr[p] /\ addr[r] # addr[q]
        BY <1>4, <4>1, AddrDiffer
      <4>4. addr[r] \in Nat /\ addr[p] \in Nat /\ addr[q] \in Nat
        BY <1>4, <3>1, Numbers
      <4>5. \/ addr[p] < addr[r] /\ addr[r] < addr[q]
            \/ addr[q] < addr[r] /\ addr[r] < addr[p]
        BY <3>1, <4>3, <4>4 DEF Between
      <4> QED
        BY <1>2, <4>1, <4>2, <4>5 DEF OneSided
    <3> QED
      BY <1>12, <2>1, <3>1, <3>2
  <2> QED
    BY <1>2, <2>2, <2>3 DEF SearchTree
<1> QED
  BY <1>14, <1>15, <1>19, <1>22, <1>23

-------------------------------------------------------------------------------
(***************************************************************************)
(* The heap's invariant is inductive.                                       *)
(***************************************************************************)

LEMMA UnchangedInv ==
  ASSUME HeapInv, UNCHANGED heap
  PROVE  HeapInv'
<1>1. UNCHANGED <<addr, size, used, pool, above>>
  BY DEF heap
<1>2. FreeNodes' = FreeNodes
  BY <1>1 DEF FreeNodes
<1>3. Types' /\ Shape' /\ Ordered'
  BY <1>1 DEF HeapInv, Types, Shape, Ordered
<1>4. Partition'
  BY <1>1, <1>2 DEF HeapInv, Partition, Holds
<1>5. SearchTree'
  BY <1>1 DEF HeapInv, SearchTree
<1> QED
  BY <1>3, <1>4, <1>5 DEF HeapInv

\* What an allocation does to the occupied blocks.
LEMMA AllocateKeeps ==
  ASSUME HeapInv, NEW s \in Requests, Allocate(s)
  PROVE  /\ HeapInv'
         /\ \A n \in used : n \in used' /\ Block(n)' = Block(n)
         /\ \A n, p \in used : <<n, p>> \in above => <<n, p>> \in above'
         /\ Answer(s) # 0 =>
              /\ \E n \in used' : Block(n)' = <<Answer(s), s>>
              /\ \A n \in used : addr[n] # Answer(s)
<1> USE DEF HeapInv
<1>1. CASE Refuse(s)
  <2>1. UNCHANGED <<addr, size, used, pool, above>> /\ Answer(s) = 0
    BY <1>1 DEF Refuse, heap
  <2> QED
    BY <1>1, <2>1, UnchangedInv DEF Refuse, Block
<1>2. ASSUME Answer(s) # 0
      PROVE  /\ free_root \in Nodes /\ Answer(s) = addr[free_root] /\ FirstFit(s) = free_root
             /\ free_root \notin pool
             /\ \A n \in used : n \in Nodes /\ n \notin pool /\ addr[n] # Answer(s)
  <2>1. FirstFit(s) = free_root /\ free_root \in FreeNodes /\ Answer(s) = addr[free_root]
    BY <1>2, FitFacts
  <2>2. free_root \in Nodes \ pool /\ free_root \notin used
    BY <2>1 DEF FreeNodes
  <2>3. \A n \in used : n \in Nodes \ pool
    BY DEF Types, Shape
  <2> QED
    BY <2>1, <2>2, <2>3, AddrDiffer
<1>3. CASE Take(s)
  <2>1. /\ Answer(s) # 0 /\ size[FirstFit(s)] = s
        /\ used' = used \cup {FirstFit(s)} /\ above \subseteq above'
        /\ UNCHANGED <<addr, size>>
    BY <1>3 DEF Take
  <2> QED
    BY <1>2, <1>3, <2>1, TakeInv DEF Block
<1>4. CASE Cut(s)
  <2> DEFINE rest == list_head
             n == free_root
  <2>1. /\ Answer(s) # 0 /\ size[FirstFit(s)] > s
        /\ addr' = [addr EXCEPT ![rest] = addr[FirstFit(s)] + s]
        /\ size' = [size EXCEPT ![rest] = Remainder(FirstFit(s), s), ![FirstFit(s)] = s]
        /\ used' = used \cup {FirstFit(s)}
        /\ above' = {e \in above : e[1] # rest} \cup (Passed(addr[FirstFit(s)]) \X {FirstFit(s)})
    BY <1>4 DEF Cut
  <2>2. rest \in pool
    BY <2>1, FitFacts, PoolHead, <1>2
  <2>3. rest \in Nodes /\ rest # n /\ \A p \in used : p # rest /\ p # n
    BY <1>2, <2>1, <2>2, FitFacts DEF Types, FreeNodes
  <2>4. addr'[n] = addr[n] /\ size'[n] = s
    BY <1>2, <2>1, <2>3 DEF Types
  <2>5. \A p \in used : addr'[p] = addr[p] /\ size'[p] = size[p]
    BY <1>2, <2>1, <2>3 DEF Types
  <2>6. \A p, q \in used : <<p, q>> \in above => <<p, q>> \in above'
    BY <2>1, <2>3
  <2> QED
    BY <1>2, <1>4, <2>1, <2>4, <2>5, <2>6, CutInv DEF Block
<1> QED
  BY <1>1, <1>3, <1>4 DEF Allocate

\* What a collection does to those it keeps.
LEMMA CollectKeeps ==
  ASSUME HeapInv, NEW kept \in SUBSET used, CollectKeeping(kept)
  PROVE  used' = kept /\ \A n \in kept : Block(n)' = Block(n)
<1> DEFINE gone == used \ kept
           idle == Addresses \ UNION {Units(Block(n)) : n \in kept}
           block(n) == Run(idle, addr[n])
<1>1. used' = kept
  BY DEF CollectKeeping
<1>2. PICK rest \in SUBSET (gone \cup FreeNodes) :
        LET back == (gone \cup FreeNodes) \ rest IN
        /\ addr' = [n \in Nodes |-> IF n \in rest THEN First(block(n))
                                    ELSE IF n \in back THEN 0 ELSE addr[n]]
        /\ size' = [n \in Nodes |-> IF n \in rest THEN Cardinality(block(n))
                                    ELSE IF n \in back THEN 0 ELSE size[n]]
  BY DEF CollectKeeping
<1>3. \A n \in kept : n \in Nodes /\ n \notin gone \cup FreeNodes
  BY DEF HeapInv, Types, FreeNodes
<1> HIDE DEF block, gone
<1>4. \A n \in kept : addr'[n] = addr[n] /\ size'[n] = size[n]
  BY <1>2, <1>3
<1> QED
  BY <1>1, <1>4 DEF Block

\* What holds whatever has struck.
SoundHeap == sound \in BOOLEAN /\ (sound => HeapInv)

LEMMA HeapStep == SoundHeap /\ [HeapNext]_heapVars => SoundHeap'
<1> SUFFICES ASSUME SoundHeap, [HeapNext]_heapVars PROVE SoundHeap'
  OBVIOUS
<1>1. ASSUME sound, sound' = sound, Collect PROVE SoundHeap'
  BY <1>1, CollectInv DEF Collect, SoundHeap
<1>2. ASSUME sound, sound' = sound, NEW s \in Requests, Allocate(s) PROVE SoundHeap'
  BY <1>2, AllocateKeeps DEF SoundHeap
<1>3. CASE sound' = FALSE
  BY <1>3 DEF SoundHeap
<1>4. CASE ~sound /\ UNCHANGED sound
  BY <1>4 DEF SoundHeap
<1>5. CASE UNCHANGED heapVars
  BY <1>5, UnchangedInv DEF heapVars, SoundHeap
<1> QED
  BY <1>1, <1>2, <1>3, <1>4, <1>5 DEF HeapNext

(***************************************************************************)
(* The inductive invariant: until a defect strikes, every node holds what    *)
(* its place calls for, the blocks make up the heap, and the trees are        *)
(* ordered (large-allocator.c, 106-149; treap.c, 78-104;                     *)
(* binary-search-tree.c, 82-99).                                            *)
(***************************************************************************)
THEOREM HeapInvariant == HeapSpec => []SoundHeap
<1>1. HeapInit => SoundHeap
  BY InitInv DEF HeapInit, SoundHeap
<1> QED
  BY <1>1, HeapStep, PTL DEF HeapSpec

LEMMA TypesHold == SoundHeap => HeapTypeOK
BY InvLive DEF SoundHeap, HeapTypeOK, HeapInv, Types, LiveTyped

(***************************************************************************)
(* Until a defect strikes, the fields of the nodes keep their types, and     *)
(* every occupied block is one that was asked for (large-allocator.c, 46-89  *)
(* and 106-152).                                                            *)
(***************************************************************************)
THEOREM HeapTypes == HeapSpec => []HeapTypeOK
BY HeapInvariant, TypesHold, PTL

(***************************************************************************)
(* For every heap size and number of nodes, and until a defect strikes,      *)
(* cutting, taking and joining of blocks never lose a unit, give one out     *)
(* twice or leave two free blocks side by side (large-allocator.c, 121-144;  *)
(* treap.c, 84-101).                                                        *)
(***************************************************************************)
THEOREM HeapKeepsPartitioned == HeapSpec => []HeapPartitioned
<1>1. SoundHeap => HeapPartitioned
  BY InvPartitioned DEF SoundHeap, HeapPartitioned
<1> QED
  BY <1>1, HeapInvariant, PTL

(***************************************************************************)
(* Until a defect strikes, the root of the treap holds the largest free      *)
(* block, so that a search that looks at it alone misses none (treap.c,      *)
(* 34-40).                                                                  *)
(***************************************************************************)
THEOREM RootSuffices == HeapSpec => []FirstFitSuffices
<1>1. SoundHeap => FirstFitSuffices
  BY InvFirstFit DEF SoundHeap, FirstFitSuffices
<1> QED
  BY <1>1, HeapInvariant, PTL

-------------------------------------------------------------------------------
(***************************************************************************)
(* How a search goes down.                                                  *)
(***************************************************************************)

\* What lies below a node are nodes of its tree, and more than lie below each of them.
LEMMA BelowFalls ==
  ASSUME HeapInv, NEW n \in Nodes
  PROVE  /\ Below(n) \in SUBSET Nodes
         /\ n \in used => Below(n) \subseteq used
         /\ \A p \in Below(n) : Below(p) \subseteq Below(n) /\ p \notin Below(p)
<1> USE DEF HeapInv
<1>1. CASE n \in FreeNodes
  <2>1. \A p \in FreeNodes : Below(p) \subseteq FreeNodes
    BY DEF Below, BelowInTreap
  <2> QED
    BY <1>1, <2>1, TreapOrder DEF FreeNodes
<1>2. CASE n \in used \cup pool
  <2>1. \A p \in used \cup pool : /\ \A q : q \in Below(p) <=> <<p, q>> \in above
                                  /\ Below(p) \subseteq Nodes
    BY BelowLinked
  <2>2. \A q \in Below(n) : q \in Nodes /\ <<n, q>> \in above /\ q \in used \cup pool
                             /\ (n \in used => q \in used)
    BY <1>2, <2>1 DEF Ordered, Shape
  <2> QED
    BY <1>2, <2>1, <2>2 DEF Ordered
<1> QED
  BY <1>1, <1>2 DEF FreeNodes

\* A search goes on to a node below, or ends.
LEMMA OnwardBelow ==
  ASSUME NEW n, NEW a
  PROVE  Onward(n, a) \in Below(n) \cup {Null}
<1>1. ASSUME NEW S PROVE Topmost(S) \in S \cup {Null}
  BY DEF Topmost
<1>2. Left(n) \in Below(n) \cup {Null} /\ Right(n) \in Below(n) \cup {Null}
  BY <1>1 DEF Left, Right
<1> QED
  BY <1>2 DEF Onward

\* Some node of a set has none of the set below it.
LEMMA LowestExists ==
  ASSUME HeapInv, NEW S \in SUBSET used, S # {}
  PROVE  \E n \in S : Below(n) \cap S = {}
<1> DEFINE R == {e \in S \X S : e[1] \in Below(e[2])}
<1>1. used \subseteq Nodes
  BY DEF HeapInv, Types
<1>2. \A n, p \in S : <<n, p>> \in R <=> n \in Below(p)
  OBVIOUS
<1> HIDE DEF R
<1>3. /\ \A n \in S : <<n, n>> \notin R
      /\ \A n, p, q \in S : <<n, p>> \in R /\ <<p, q>> \in R => <<n, q>> \in R
  <2>1. \A n \in S : \A p \in Below(n) : Below(p) \subseteq Below(n) /\ p \notin Below(p)
    BY <1>1, BelowFalls
  <2> QED
    BY <1>2, <2>1
<1>4. PICK n \in S : \A p \in S : <<p, n>> \notin R
  <2>1. S \in SUBSET Nodes
    BY <1>1
  <2> QED
    BY <1>3, <2>1, HighestExists
<1> QED
  BY <1>2, <1>4

LEMMA InvFinds == HeapInv => LookupFinds
<1> SUFFICES ASSUME HeapInv, sound, NEW a \in Addresses
             PROVE  /\ Searched(a, used \cup {Null})
                    /\ \A S \in SUBSET (Nodes \cup {Null}) :
                         Searched(a, S) =>
                           IF \E m \in used : a \in Units(Block(m))
                           THEN \E m \in used \cap S : a \in Units(Block(m))
                           ELSE Null \in S
  BY DEF LookupFinds
<1>1. used \subseteq Nodes /\ \A n \in Nodes : n # Null
  BY Constants DEF HeapInv, Types
<1>2. \A n \in used : Onward(n, a) \in used \cup {Null}
  BY <1>1, BelowFalls, OnwardBelow
<1>3. occupied_root \in used \cup {Null}
  BY DEF occupied_root, Topmost
<1>4. Searched(a, used \cup {Null})
  BY <1>2, <1>3 DEF Searched
<1>5. ASSUME NEW S, Searched(a, S), ~ \E m \in used \cap S : a \in Units(Block(m)), Null \notin S
      PROVE  FALSE
  <2> DEFINE T == used \cap S
  <2>1. occupied_root \in T
    BY <1>3, <1>5 DEF Searched
  <2>2. T \in SUBSET used /\ T # {}
    BY <2>1
  <2>3. PICK n \in T : Below(n) \cap T = {}
    BY <2>2, LowestExists
  <2>4. Onward(n, a) \in S
    BY <1>1, <1>5, <2>3 DEF Searched
  <2> QED
    BY <1>2, <1>5, <2>3, <2>4, OnwardBelow
<1>6. ASSUME NEW m \in used, a \in Units(Block(m)), NEW S, Searched(a, S),
             ~ \E p \in used \cap S : a \in Units(Block(p))
      PROVE  FALSE
  <2> DEFINE T == {n \in used \cap S : <<n, m>> \in above}
  <2>1. m \notin S
    BY <1>6
  <2>2. /\ occupied_root = m \/ <<occupied_root, m>> \in above
        /\ \A n \in used : <<n, m>> \in above =>
             Onward(n, a) = m \/ <<Onward(n, a), m>> \in above
    BY <1>6, InvLookup DEF LookupLeads
  <2>3. \A n : <<n, m>> \in above => n \in used
    BY <1>6 DEF HeapInv, Types, Ordered, Shape
  <2>4. occupied_root \in T
    BY <1>6, <2>1, <2>2, <2>3 DEF Searched
  <2>5. PICK n \in T : Below(n) \cap T = {}
    BY <2>4, LowestExists
  <2>6. Onward(n, a) \in S
    BY <1>1, <1>6, <2>5 DEF Searched
  <2>7. Onward(n, a) \in T
    BY <2>1, <2>2, <2>3, <2>5, <2>6
  <2>8. Onward(n, a) # Null
    BY <1>1, <2>7
  <2> QED
    BY <2>5, <2>7, <2>8, OnwardBelow
<1> QED
  BY <1>4, <1>5, <1>6

(***************************************************************************)
(* Until a defect strikes, get_object() finds the object that an address     *)
(* lies in, and nothing for free memory, in every heap of any size           *)
(* (binary-search-tree.c, 26-35; object.c, 40).                              *)
(***************************************************************************)
THEOREM LookupsFind == HeapSpec => []LookupFinds
<1>1. SoundHeap => LookupFinds
  BY InvFinds DEF SoundHeap, LookupFinds
<1> QED
  BY <1>1, HeapInvariant, PTL

-------------------------------------------------------------------------------
(***************************************************************************)
(* Where a new node is linked.                                              *)
(***************************************************************************)

\* What lies below a node on the side of an address.
Side(n, a) == {p \in Below(n) : addr[p] < addr[n] <=> a < addr[n]}

LEMMA OnwardIs ==
  ASSUME HeapInv, NEW n \in used, NEW a \in Nat
  PROVE  /\ a < addr[n] => Onward(n, a) = Left(n) /\ Left(n) = Topmost(Side(n, a))
         /\ a >= addr[n] => Onward(n, a) = Right(n) /\ Right(n) = Topmost(Side(n, a))
<1>1. \A p \in Below(n) : addr[p] \in Nat
  BY BelowFalls, Numbers DEF HeapInv, Types
<1>2. addr[n] \in Nat
  BY Numbers DEF HeapInv, Types
<1>3. ASSUME a < addr[n] PROVE {p \in Below(n) : addr[p] < addr[n]} = Side(n, a)
  BY <1>3 DEF Side
<1>4. ASSUME a >= addr[n] PROVE {p \in Below(n) : addr[p] >= addr[n]} = Side(n, a)
  <2>1. ~ (a < addr[n])
    BY <1>2, <1>4
  <2>2. \A p \in Below(n) : addr[p] >= addr[n] <=> ~ (addr[p] < addr[n])
    BY <1>1, <1>2
  <2> QED
    BY <2>1, <2>2 DEF Side
<1>5. a >= addr[n] => ~ (a < addr[n])
  BY <1>2
<1> QED
  BY <1>3, <1>4, <1>5 DEF Onward, Left, Right

\* insert_bst() passes the root.
LEMMA RootPassed ==
  ASSUME HeapInv, used # {}, NEW a
  PROVE  occupied_root \in Passed(a)
<1>1. \A m \in used : occupied_root = m \/ <<occupied_root, m>> \in above
  BY TopmostAbove DEF occupied_root
<1>2. occupied_root \in used
  <2>1. PICK m \in used : occupied_root = m \/ <<occupied_root, m>> \in above
    BY <1>1
  <2>2. <<occupied_root, m>> \in above =>
          /\ occupied_root \in Nodes /\ m \in Nodes
          /\ occupied_root \in used \/ m \in pool
    BY DEF HeapInv, Types, Ordered
  <2> QED
    BY <2>1, <2>2 DEF HeapInv, Shape
<1> QED
  BY <1>1, <1>2, PassedAre DEF HeapInv

\* From a node that it passes it goes on to another one, or to a NULL link.
LEMMA GoesOn ==
  ASSUME HeapInv, NEW a \in Nat, \A x \in used : addr[x] # a,
         NEW m \in Passed(a), Side(m, a) # {}
  PROVE  Topmost(Side(m, a)) \in Passed(a) \cap Side(m, a)
<1> USE DEF HeapInv
<1> DEFINE S == Side(m, a)
           t == Topmost(S)
<1>1. used \subseteq Nodes \ pool /\ used \subseteq Nodes /\ m \in used
      /\ \A q \in used \ {m} : Between(addr[q], a, addr[m]) => <<m, q>> \in above
  BY PassedAre DEF Types, Shape
<1>2. \A x \in used : addr[x] \in Nat /\ addr[x] # a
  BY <1>1, Numbers
<1>3. \A p : p \in Below(m) <=> <<m, p>> \in above
  BY <1>1, BelowLinked
<1>4. \A p \in Below(m) : p \in used /\ p # m /\ addr[p] # addr[m]
  BY <1>1, <1>3, BelowFalls, AddrDiffer DEF Ordered
<1>5. /\ S \in SUBSET used
      /\ \A p : p \in S <=> <<m, p>> \in above /\ (addr[p] < addr[m] <=> a < addr[m])
  BY <1>3, <1>4 DEF Side
<1>6. ASSUME NEW p \in S, NEW q \in S, NEW r \in used, Between(addr[r], addr[p], addr[q])
      PROVE  r \in S
  <2>1. /\ addr[m] \in Nat /\ addr[p] \in Nat /\ addr[q] \in Nat /\ addr[r] \in Nat
        /\ addr[p] # addr[m] /\ addr[q] # addr[m] /\ (addr[p] < addr[m] <=> addr[q] < addr[m])
    BY <1>1, <1>2, <1>3, <1>4, <1>5, <1>6
  <2>2. /\ addr[r] < addr[m] <=> addr[p] < addr[m]
        /\ Between(addr[r], addr[p], addr[m]) \/ Between(addr[r], addr[q], addr[m])
        /\ addr[r] # addr[m]
    BY <1>6, <2>1 DEF Between
  <2>3. <<m, r>> \in above
    BY <1>1, <1>5, <1>6, <2>2 DEF SearchTree
  <2> QED
    BY <1>5, <2>2, <2>3
<1>7. \A p, q \in S, r \in used :
        Between(addr[r], addr[p], addr[q]) /\ <<r, p>> \in above /\ <<r, q>> \in above => r \in S
  BY <1>6
<1> HIDE DEF S
<1>8. \A p \in S : t = p \/ <<t, p>> \in above
  BY <1>5, <1>7, TopmostAbove
<1>9. t \in S
  <2>1. PICK p \in S : TRUE
    BY DEF S
  <2>2. \A x \in S : x \notin Below(x)
    BY <1>1, <1>5, BelowLinked DEF Ordered
  <2>3. \A x, y, z \in S : y \in Below(x) /\ z \in Below(y) => z \in Below(x)
    BY <1>1, <1>5, BelowFalls
  <2> QED
    BY <1>1, <1>5, <2>1, <2>2, <2>3, TopmostIn
<1>10. ASSUME NEW q \in used \ {t}, Between(addr[q], a, addr[t]) PROVE <<t, q>> \in above
  <2>1. /\ t \in used /\ addr[m] \in Nat /\ addr[t] \in Nat /\ addr[q] \in Nat
        /\ addr[t] # addr[m] /\ addr[m] # a /\ (addr[t] < addr[m] <=> a < addr[m])
        /\ <<m, t>> \in above
    BY <1>1, <1>2, <1>3, <1>4, <1>5, <1>9
  <2>2. /\ addr[q] < addr[m] <=> a < addr[m]
        /\ addr[q] # addr[m]
        /\ Between(addr[q], a, addr[m]) \/ Between(addr[q], addr[t], addr[m])
    BY <1>10, <2>1 DEF Between
  <2>3. <<m, q>> \in above
    BY <1>1, <2>1, <2>2 DEF SearchTree
  <2> QED
    BY <1>5, <1>8, <1>10, <2>2, <2>3
<1> QED
  BY <1>5, <1>9, <1>10, PassedAre DEF S

\* One of the nodes that it passes has a NULL link there, and no other has.
LEMMA FallsOff ==
  ASSUME HeapInv, NEW a \in Nat, \A x \in used : addr[x] # a, used # {}
  PROVE  \E p \in Passed(a) : /\ Side(p, a) = {}
                              /\ \A m \in Passed(a) : Side(m, a) = {} => m = p
<1> USE DEF HeapInv
<1>1. Passed(a) \in SUBSET used /\ Passed(a) # {} /\ used \subseteq Nodes
  BY RootPassed DEF Passed, Types
<1>2. PICK p \in Passed(a) : Below(p) \cap Passed(a) = {}
  BY <1>1, LowestExists
<1>3. Side(p, a) = {}
  BY <1>2, GoesOn DEF Side
<1>4. ASSUME NEW m \in Passed(a), Side(m, a) = {}, m # p PROVE FALSE
  <2>1. /\ m \in used /\ p \in used /\ addr[m] \in Nat /\ addr[p] \in Nat
        /\ addr[m] # a /\ addr[p] # a /\ addr[m] # addr[p]
    BY <1>1, <1>4, Numbers, AddrDiffer DEF Types, Shape
  <2>2. /\ \A x \in Below(m) : ~ (addr[x] < addr[m] <=> a < addr[m])
        /\ \A x \in Below(p) : ~ (addr[x] < addr[p] <=> a < addr[p])
    BY <1>3, <1>4 DEF Side
  <2>3. /\ Between(addr[p], a, addr[m]) => p \in Below(m)
        /\ Between(addr[m], a, addr[p]) => m \in Below(p)
    BY <1>4, <2>1 DEF Passed
  <2>4. ~ Between(addr[p], a, addr[m]) /\ ~ Between(addr[m], a, addr[p])
    BY <2>1, <2>2, <2>3 DEF Between
  <2>5. Between(a, addr[p], addr[m])
    BY <2>1, <2>4 DEF Between
  \* Then they lie on either side of the address, and neither is below the other.
  <2>6. m \notin Below(p) /\ p \notin Below(m)
    BY <2>1, <2>2, <2>5 DEF Between
  <2>7. <<m, p>> \notin above /\ <<p, m>> \notin above
    BY <2>1, <2>6, BelowLinked
  <2>8. PICK r \in used : <<r, p>> \in above /\ <<r, m>> \in above /\ Between(addr[r], addr[p], addr[m])
    BY <1>4, <2>1, <2>7 DEF SearchTree
  <2>9. addr[r] \in Nat /\ r # p /\ r # m
    BY <1>1, <2>1, <2>8, Numbers DEF Ordered
  <2>10. Between(addr[r], a, addr[p]) \/ Between(addr[r], a, addr[m])
    BY <2>1, <2>8, <2>9 DEF Between
  <2>11. <<p, r>> \in above \/ <<m, r>> \in above
    BY <1>4, <2>8, <2>9, <2>10, PassedAre
  <2> QED
    BY <1>1, <2>1, <2>8, <2>11 DEF Ordered
<1> QED
  BY <1>2, <1>3, <1>4

\* The links of the occupied tree.
UsedLinks == \A m \in used : /\ \A p : p \in Below(m) <=> <<m, p>> \in above
                             /\ Below(m) \subseteq used

LEMMA LinksNext == HeapInv' => UsedLinks'
<1>1. HeapInv => UsedLinks
  <2> SUFFICES ASSUME HeapInv, NEW m \in used
               PROVE  (\A p : p \in Below(m) <=> <<m, p>> \in above) /\ Below(m) \subseteq used
    BY DEF UsedLinks
  <2> QED
    BY BelowLinked, BelowFalls DEF HeapInv, Types
<1> QED
  BY <1>1, PTL

\* What an insertion puts below the nodes of the occupied tree.
LEMMA InsertedBelow ==
  ASSUME HeapInv, HeapInv', NEW n \in FreeNodes, used' = used \cup {n}, Inserted(n, above')
  PROVE  /\ Below(n)' = {}
         /\ \A m \in used : Below(m)' = IF m \in Passed(addr[n]) THEN Below(m) \cup {n} ELSE Below(m)
<1>1. /\ n \in Nodes /\ n \notin used /\ used \subseteq Nodes
      /\ \A x \in used : <<x, n>> \notin above /\ <<n, x>> \notin above
      /\ <<n, n>> \notin above /\ n \notin Passed(addr[n])
  BY DEF FreeNodes, HeapInv, Types, Ordered, Passed
<1>2. \A m \in used : /\ \A p : p \in Below(m) <=> <<m, p>> \in above
                      /\ Below(m) \subseteq used
  BY <1>1, BelowLinked, BelowFalls DEF HeapInv
<1>3. \A m \in used' : /\ \A p : p \in Below(m)' <=> <<m, p>> \in above'
                       /\ Below(m)' \subseteq used'
  BY LinksNext DEF UsedLinks
<1>4. \A x, y \in used \cup {n} :
        <<x, y>> \in above' <=> <<x, y>> \in above \/ (x \in Passed(addr[n]) /\ y = n)
  BY DEF Inserted
<1>5. Below(n)' = {}
  <2>1. \A p : p \notin Below(n)'
    BY <1>1, <1>3, <1>4
  <2> QED
    BY <2>1
<1>6. ASSUME NEW m \in used
      PROVE  Below(m)' = IF m \in Passed(addr[n]) THEN Below(m) \cup {n} ELSE Below(m)
  <2>1. \A p : p \in Below(m)' <=> p \in Below(m) \/ (m \in Passed(addr[n]) /\ p = n)
    BY <1>1, <1>2, <1>3, <1>4
  <2> QED
    BY <2>1
<1> QED
  BY <1>5, <1>6

\* An allocation is an insertion into the occupied tree.
LEMMA TakeInserts ==
  ASSUME HeapInv, NEW s \in Requests, Take(s)
  PROVE  /\ free_root \in FreeNodes /\ used' = used \cup {free_root}
         /\ Inserted(free_root, above') /\ \A x \in used' : addr'[x] = addr[x]
BY FitFacts DEF Take, Inserted

LEMMA CutInserts ==
  ASSUME HeapInv, NEW s \in Requests, Cut(s)
  PROVE  /\ free_root \in FreeNodes /\ used' = used \cup {free_root}
         /\ Inserted(free_root, above') /\ \A x \in used' : addr'[x] = addr[x]
<1> DEFINE n == free_root
           rest == list_head
<1>1. /\ n \in FreeNodes /\ pool # {}
      /\ addr' = [addr EXCEPT ![rest] = addr[n] + s]
      /\ used' = used \cup {n}
      /\ above' = {e \in above : e[1] # rest} \cup (Passed(addr[n]) \X {n})
  BY FitFacts DEF Cut
<1>2. rest \in pool
  BY <1>1, PoolHead
<1> HIDE DEF n, rest
<1>3. rest \notin used \cup {n} /\ used \cup {n} \subseteq Nodes
  BY <1>1, <1>2 DEF FreeNodes, HeapInv, Types, Shape
<1>4. \A x \in used \cup {n} : addr'[x] = addr[x]
  BY <1>1, <1>3 DEF HeapInv, Types
<1>5. Inserted(n, above')
  <2> SUFFICES ASSUME NEW x \in used \cup {n}, NEW y \in used \cup {n}
               PROVE  <<x, y>> \in above' <=> <<x, y>> \in above \/ (x \in Passed(addr[n]) /\ y = n)
    BY DEF Inserted
  <2> QED
    BY <1>1, <1>3
<1> QED
  BY <1>1, <1>4, <1>5 DEF n

\* What Topmost() makes of the nodes of a set that are below no other.
TopOf(T) == IF T = {} THEN Null ELSE CHOOSE n \in T : TRUE

\* The new node becomes a leaf, at the NULL link that it came to.
LEMMA InsertedLink ==
  ASSUME HeapInv, HeapInv', NEW n \in FreeNodes, used' = used \cup {n}, Inserted(n, above'),
         \A x \in used' : addr'[x] = addr[x]
  PROVE  Linked(n)
<1> DEFINE a == addr[n]
           tops(S) == S \ UNION {Below(x) : x \in S}
           topsNext(S) == S \ UNION {Below(x)' : x \in S}
           lower(m) == {p \in Below(m) : addr[p] < addr[m]}
           upper(m) == {p \in Below(m) : addr[p] >= addr[m]}
           lowerNext(m) == {p \in Below(m)' : addr'[p] < addr'[m]}
           upperNext(m) == {p \in Below(m)' : addr'[p] >= addr'[m]}
<1>1. /\ n \in Nodes /\ n \notin used /\ used \subseteq Nodes /\ n \in Nodes \ pool
      /\ used \subseteq Nodes \ pool
      /\ a \in Nat /\ addr'[n] = a
      /\ \A m \in used : m # Null /\ addr[m] \in Nat /\ addr'[m] = addr[m]
  BY Constants, Numbers DEF FreeNodes, HeapInv, Types, Shape
<1>2. \A m \in used : addr[m] # a
  BY <1>1, AddrDiffer
<1>3. /\ Below(n)' = {}
      /\ \A m \in used : Below(m)' = IF m \in Passed(a) THEN Below(m) \cup {n} ELSE Below(m)
  BY InsertedBelow
<1>4. \A m \in used : Below(m) \subseteq used
  BY <1>1, BelowFalls
<1>5. Passed(a) \subseteq used
  BY DEF Passed
<1>6. /\ \A m : Left(m) = TopOf(tops(lower(m))) /\ Left(m)' = TopOf(topsNext(lowerNext(m)))
      /\ \A m : Right(m) = TopOf(tops(upper(m))) /\ Right(m)' = TopOf(topsNext(upperNext(m)))
      /\ \A S : Topmost(S) = TopOf(tops(S))
      /\ occupied_root = TopOf(tops(used)) /\ occupied_root' = TopOf(topsNext(used'))
  BY DEF Left, Right, occupied_root, Topmost, TopOf
<1>7. Left(n)' = Null /\ Right(n)' = Null
  <2>1. lowerNext(n) = {} /\ upperNext(n) = {}
    BY <1>3
  <2>2. topsNext({}) = {}
    OBVIOUS
  <2> QED
    BY <1>6, <2>1, <2>2 DEF TopOf
<1>8. ASSUME NEW S \in SUBSET used PROVE topsNext(S) = tops(S)
  <2>1. \A x \in S : \A y \in S : y \in Below(x)' <=> y \in Below(x)
    BY <1>1, <1>3
  <2> QED
    BY <2>1
<1>9. ASSUME NEW S \in SUBSET used, NEW t \in S \cap Passed(a) PROVE topsNext(S \cup {n}) = tops(S)
  <2>1. n \in Below(t)'
    BY <1>3, <1>5, <1>9
  <2>2. \A x \in S : \A y \in S : y \in Below(x)' <=> y \in Below(x)
    BY <1>1, <1>3
  <2>3. \A y : y \in topsNext(S \cup {n}) <=> y \in tops(S)
    BY <1>3, <2>1, <2>2
  <2> QED
    BY <2>3
<1>10. topsNext({n}) = {n} /\ TopOf({n}) = n
  BY <1>3 DEF TopOf
<1>11. ASSUME NEW m \in used
       PROVE  /\ lowerNext(m) = IF m \in Passed(a) /\ a < addr[m] THEN lower(m) \cup {n} ELSE lower(m)
              /\ upperNext(m) = IF m \in Passed(a) /\ a >= addr[m] THEN upper(m) \cup {n} ELSE upper(m)
              /\ lower(m) \in SUBSET used /\ upper(m) \in SUBSET used
  <2>1. \A p \in Below(m) : addr'[p] = addr[p]
    BY <1>1, <1>4
  <2> QED
    BY <1>1, <1>3, <1>4, <2>1
<1> HIDE DEF tops, topsNext, lower, upper, lowerNext, upperNext
\* Which links of m change.
<1>12. ASSUME NEW m \in used
       PROVE  /\ Left(m)' = IF m \in Passed(a) /\ a < addr[m] /\ Side(m, a) = {} THEN n ELSE Left(m)
              /\ Right(m)' = IF m \in Passed(a) /\ a >= addr[m] /\ Side(m, a) = {} THEN n ELSE Right(m)
  <2>1. CASE m \in Passed(a) /\ a < addr[m]
    <3>1. Left(m)' = TopOf(topsNext(lower(m) \cup {n})) /\ Right(m)' = Right(m)
      <4>1. ~ (a >= addr[m])
        BY <1>1, <2>1
      <4>2. lowerNext(m) = lower(m) \cup {n} /\ upperNext(m) = upper(m)
            /\ topsNext(upper(m)) = tops(upper(m))
        BY <1>8, <1>11, <2>1, <4>1
      <4> QED
        BY <1>6, <4>2
    <3>2. lower(m) = Side(m, a)
      BY <2>1 DEF Side, lower
    <3>3. CASE Side(m, a) = {}
      BY <1>1, <1>10, <2>1, <3>1, <3>2, <3>3
    <3>4. CASE Side(m, a) # {}
      <4>1. Topmost(Side(m, a)) \in Side(m, a) \cap Passed(a)
        BY <1>1, <1>2, <2>1, <3>4, GoesOn
      <4> QED
        BY <1>1, <1>6, <1>9, <1>11, <2>1, <3>1, <3>2, <3>4, <4>1
    <3> QED
      BY <3>3, <3>4
  <2>2. CASE m \in Passed(a) /\ a >= addr[m]
    <3>1. Right(m)' = TopOf(topsNext(upper(m) \cup {n})) /\ Left(m)' = Left(m)
      <4>1. ~ (a < addr[m])
        BY <1>1, <2>2
      <4>2. upperNext(m) = upper(m) \cup {n} /\ lowerNext(m) = lower(m)
            /\ topsNext(lower(m)) = tops(lower(m))
        BY <1>8, <1>11, <2>2, <4>1
      <4> QED
        BY <1>6, <4>2
    <3>2. upper(m) = Side(m, a)
      <4>1. \A p \in Below(m) : addr[p] >= addr[m] <=> ~ (addr[p] < addr[m])
        BY <1>1, <1>4
      <4> QED
        BY <1>1, <2>2, <4>1 DEF Side, upper
    <3>3. CASE Side(m, a) = {}
      BY <1>1, <1>10, <2>2, <3>1, <3>2, <3>3
    <3>4. CASE Side(m, a) # {}
      <4>1. Topmost(Side(m, a)) \in Side(m, a) \cap Passed(a)
        BY <1>1, <1>2, <2>2, <3>4, GoesOn
      <4> QED
        BY <1>1, <1>6, <1>9, <1>11, <2>2, <3>1, <3>2, <3>4, <4>1
    <3> QED
      BY <3>3, <3>4
  <2>3. CASE m \notin Passed(a)
    BY <1>6, <1>8, <1>11, <2>3
  <2> QED
    BY <1>1, <2>1, <2>2, <2>3
<1>13. CASE used = {}
  <2>1. occupied_root' = n
    <3>1. used' = {n}
      BY <1>13
    <3> QED
      BY <1>6, <1>10, <3>1
  <2> QED
    BY <1>7, <1>13, <2>1 DEF Linked
<1>14. CASE used # {}
  <2>1. PICK p \in Passed(a) : /\ Side(p, a) = {}
                               /\ \A m \in Passed(a) : Side(m, a) = {} => m = p
    BY <1>1, <1>2, <1>14, FallsOff
  <2>2. p \in used /\ p # Null
    BY <1>1, <1>5
  <2>3. Onward(p, a) = Null
    <3>1. Onward(p, a) = Topmost({})
      BY <1>1, <2>1, <2>2, OnwardIs
    <3> QED
      BY <3>1 DEF Topmost
  <2>4. occupied_root' = occupied_root
    <3>1. occupied_root \in used \cap Passed(a)
      BY <1>5, <1>14, RootPassed
    <3> QED
      BY <1>6, <1>9, <3>1
  <2>5. ASSUME NEW m \in used
        PROVE  /\ Left(m)' = IF m = p /\ a < addr[m] THEN n ELSE Left(m)
               /\ Right(m)' = IF m = p /\ a >= addr[m] THEN n ELSE Right(m)
    BY <1>12, <2>1
  <2> QED
    BY <1>1, <1>7, <1>14, <2>2, <2>3, <2>4, <2>5 DEF Linked
<1> QED
  BY <1>13, <1>14

(***************************************************************************)
(* In every heap an allocation that takes a node without children sets one   *)
(* NULL link of the occupied tree and no other: a search that another thread *)
(* makes meanwhile, without a lock, goes where it would have gone            *)
(* (binary-search-tree.c, 4-13; gc.c, 44).                                   *)
(***************************************************************************)
THEOREM InsertionsSetOneLink == HeapSpec => SetsOneLink
<1>1. ASSUME SoundHeap, SoundHeap', [HeapNext]_heapVars
      PROVE  [sound' => \A n \in used' \ used : Linked(n)]_heapVars
  <2>1. SUFFICES ASSUME sound', NEW n \in used' \ used PROVE Linked(n)
    OBVIOUS
  <2>2. CASE UNCHANGED heapVars
    BY <2>1, <2>2 DEF heapVars, heap
  <2>3. CASE sound /\ (Collect \/ \E s \in Requests : Allocate(s))
    <3>1. HeapInv /\ HeapInv'
      BY <1>1, <2>1, <2>3 DEF SoundHeap
    <3>2. PICK s \in Requests : Take(s) \/ Cut(s)
      BY <2>1, <2>3 DEF Collect, CollectKeeping, Allocate, Refuse, heap
    <3>3. n \in FreeNodes /\ used' = used \cup {n} /\ Inserted(n, above')
          /\ \A x \in used' : addr'[x] = addr[x]
      BY <2>1, <3>1, <3>2, TakeInserts, CutInserts
    <3> QED
      BY <3>1, <3>3, InsertedLink
  <2> QED
    BY <1>1, <2>1, <2>2, <2>3 DEF HeapNext
<1> QED
  BY <1>1, HeapInvariant, PTL DEF HeapSpec, SetsOneLink

-------------------------------------------------------------------------------
(***************************************************************************)
(* gc_realloc(): every step is a step of the heap, or leaves it alone.       *)
(***************************************************************************)

Past == {"malloc", "collect", "retry", "measure", "copy"}

LocalTypes ==
  /\ pc \in Searching \cup {"idle", "malloc", "collect", "retry", "copy"}
  /\ key \in Addresses \cup {0}
  /\ node \in Nodes \cup {Null}
  /\ wanted \in Requests \cup {0}
  /\ {old, new} \subseteq (Addresses \X Requests) \cup {NoBlock}
  /\ count \in 0 .. HeapSize
  /\ overtaken \in BOOLEAN

\* The blocks that the thread holds are occupied, and its variables fit them.
BlocksHeld ==
  /\ pc # "idle" => old \in live /\ wanted \in Requests
  /\ pc = "lookup" => key \in Units(old)
  /\ pc \in Past => key = old[1]
  /\ pc \in {"measure", "copy"} => new \in live /\ new # old /\ new[2] = wanted
  /\ pc = "copy" => count = old[2]

Leads(n, m) == n = m \/ <<n, m>> \in above

\* Unless a collection has intervened, the search is at the object's node or above.
OnPath ==
  pc \in Searching /\ ~ overtaken => \E m \in used : Block(m) = old /\ Leads(node, m)

ReallocInv == HeapInv /\ LocalTypes /\ BlocksHeld /\ OnPath

LEMMA ReallocStepsHeap ==
  ASSUME LocalTypes, sound => BlocksHeld, [ReallocNext]_reallocVars
  PROVE  [HeapNext]_heapVars
<1>1. ASSUME NEW b \in live, NEW memblock \in b[1] .. (b[1] + b[2] - 1), NEW s \in Requests,
             CallRealloc(b, memblock, s)
      PROVE  UNCHANGED heapVars
  BY <1>1 DEF CallRealloc
<1>2. CASE Search
  BY <1>2 DEF Search, Visit, LookupEnds, MeasureEnds, SearchFails
<1>3. CASE Malloc
  <2>1. wanted \in Requests
    BY <1>3 DEF Malloc, BlocksHeld
  <2>2. CASE TakesInner(wanted) /\ Strike
    BY <1>3, <2>1, <2>2 DEF Malloc, Strike, Strikes, HeapNext
  <2>3. CASE Allocate(wanted) /\ UNCHANGED sound
    BY <1>3, <2>1, <2>3 DEF Malloc, HeapNext
  <2> QED
    BY <1>3, <2>2, <2>3 DEF Malloc
<1>4. CASE Copy
  BY <1>4 DEF Copy
<1>5. CASE OthersAllocate
  BY <1>5 DEF OthersAllocate, Strike, Strikes, HeapNext
<1>6. CASE CollectGarbage
  BY <1>6 DEF CollectGarbage, Strike, Strikes, HeapNext, Collect
<1>7. CASE UNCHANGED reallocVars
  BY <1>7 DEF reallocVars
<1> QED
  BY <1>1, <1>2, <1>3, <1>4, <1>5, <1>6, <1>7 DEF ReallocNext

LEMMA InvNext == HeapInv' => LiveTyped' /\ LookupLeads'
BY InvLive, InvLookup, PTL

\* A search stays among the nodes.
LEMMA OnwardType ==
  ASSUME HeapInv
  PROVE  /\ occupied_root \in Nodes \cup {Null}
         /\ \A n \in Nodes : \A a : Onward(n, a) \in Nodes \cup {Null}
<1>1. ASSUME NEW S \in SUBSET Nodes PROVE Topmost(S) \in Nodes \cup {Null}
  BY DEF Topmost
<1>2. ASSUME NEW n \in Nodes PROVE Below(n) \subseteq Nodes
  <2>1. CASE n \in FreeNodes
    BY <2>1 DEF Below, BelowInTreap, FreeNodes
  <2>2. CASE n \in used \cup pool
    BY <2>2, BelowLinked DEF HeapInv
  <2> QED
    BY <2>1, <2>2 DEF FreeNodes
<1>3. ASSUME NEW n \in Nodes PROVE Left(n) \in Nodes \cup {Null} /\ Right(n) \in Nodes \cup {Null}
  BY <1>1, <1>2 DEF Left, Right
<1>4. occupied_root \in Nodes \cup {Null}
  BY <1>1 DEF occupied_root, HeapInv, Types
<1> QED
  BY <1>3, <1>4 DEF Onward

RootType == occupied_root \in Nodes \cup {Null}

LEMMA RootTypeNext == HeapInv' => RootType'
<1>1. HeapInv => RootType
  BY OnwardType DEF RootType
<1> QED
  BY <1>1, PTL

\* The only node at which a search for the object can end is the object's.
LEMMA FoundIsOld ==
  ASSUME ReallocInv, pc \in Searching, node # Null, Found(node)
  PROVE  node \in used /\ Block(node) = old
<1> USE DEF ReallocInv, Searching
<1>1. PICK m \in used : Block(m) = old
  BY DEF BlocksHeld, live
<1>2. /\ m \in Nodes \ pool /\ node \in Nodes /\ old[1] = addr[m] /\ old[2] = size[m]
      /\ addr[m] \in Nat /\ size[m] \in Nat /\ 1 <= addr[m] /\ 1 <= size[m]
  BY <1>1, Numbers DEF LocalTypes, HeapInv, Types, Shape, Block
<1>3. key \in Nat /\ Holds(m, key)
  <2>1. CASE pc = "lookup"
    BY <1>1, <1>2, <2>1, UnitsAre DEF BlocksHeld, HeapInv
  <2>2. CASE pc = "measure"
    BY <1>2, <2>2 DEF BlocksHeld, Past, Holds
  <2> QED
    BY <2>1, <2>2
<1>4. CASE node \in pool
  <2>1. addr[node] = 0 /\ size[node] = 0
    BY <1>4 DEF HeapInv, Shape
  <2>2. CASE pc = "lookup"
    BY <1>3, <2>1, <2>2 DEF Found
  <2>3. CASE pc = "measure"
    BY <1>2, <2>1, <2>3 DEF Found, BlocksHeld, Past
  <2> QED
    BY <2>2, <2>3
<1>5. CASE node \notin pool
  <2>1. CASE pc = "lookup"
    <3>1. Holds(node, key)
      BY <2>1 DEF Found, Holds
    <3> QED
      BY <1>1, <1>2, <1>3, <1>5, <3>1, UsedApart
  <2>2. CASE pc = "measure"
    <3>1. addr[node] = addr[m]
      BY <1>2, <2>2 DEF Found, BlocksHeld, Past
    <3> QED
      BY <1>1, <1>2, <1>5, <3>1, AddrDiffer
  <2> QED
    BY <2>1, <2>2
<1> QED
  BY <1>4, <1>5

\* The thread returns, or goes on outside a search.
LEMMA ReturnInv ==
  ASSUME HeapInv, UNCHANGED heap, Return
  PROVE  ReallocInv'
<1>1. HeapInv'
  BY UnchangedInv
<1>2. LocalTypes'
  <2>1. 0 \in 0 .. HeapSize
    BY Constants
  <2>2. /\ pc' = "idle" /\ key' = 0 /\ node' = Null /\ wanted' = 0 /\ count' = 0
        /\ old' = NoBlock /\ new' = NoBlock /\ overtaken' = FALSE
    BY DEF Return
  <2> QED
    BY <2>1, <2>2 DEF LocalTypes
<1>3. BlocksHeld' /\ OnPath'
  BY DEF Return, BlocksHeld, OnPath, Searching, Past
<1> QED
  BY <1>1, <1>2, <1>3 DEF ReallocInv

LEMMA CallInv ==
  ASSUME ReallocInv, NEW b \in live, NEW memblock \in b[1] .. (b[1] + b[2] - 1), NEW s \in Requests,
         CallRealloc(b, memblock, s)
  PROVE  ReallocInv'
<1> USE DEF ReallocInv
<1>1. /\ pc = "idle" /\ pc' = "lookup" /\ key' = memblock /\ old' = b /\ wanted' = s
      /\ node' = occupied_root /\ UNCHANGED heap
      /\ new' = new /\ count' = count /\ overtaken' = overtaken
      /\ UNCHANGED <<addr, size, used, pool, above>> /\ sound
  BY DEF CallRealloc, heapVars, heap
<1>2. HeapInv'
  BY <1>1, UnchangedInv
<1>3. PICK m \in used : Block(m) = b
  BY DEF live
<1>4. m \in Nodes /\ memblock \in Units(Block(m)) /\ b \in Addresses \X Requests
  BY <1>3, InvLive DEF HeapInv, Types, Units, LiveTyped
<1>5. memblock \in Addresses
  <2>1. memblock \in UNION {Units(Block(n)) : n \in used \cup FreeNodes}
    BY <1>3, <1>4
  <2> QED
    BY <1>1, <2>1, InvPartitioned DEF HeapPartitioned
<1>6. LocalTypes'
  BY <1>1, <1>4, <1>5, OnwardType DEF LocalTypes, Searching
<1>7. BlocksHeld'
  BY <1>1, <1>3, <1>4 DEF BlocksHeld, Past, live, Block
<1>8. OnPath'
  <2>1. occupied_root = m \/ <<occupied_root, m>> \in above
    BY <1>4, InvLookup DEF LookupLeads
  <2> QED
    BY <1>1, <1>3, <2>1 DEF OnPath, Leads, Block
<1> QED
  BY <1>2, <1>6, <1>7, <1>8

LEMMA SearchInv ==
  ASSUME ReallocInv, Search
  PROVE  ReallocInv'
<1> USE DEF ReallocInv
<1>1. CASE SearchFails
  BY <1>1, ReturnInv DEF SearchFails, heapVars
<1>2. CASE Visit
  <2>1. /\ pc \in Searching /\ node # Null /\ ~ Found(node) /\ node' = Onward(node, key)
        /\ UNCHANGED heap /\ UNCHANGED <<addr, size, used, pool, above>>
        /\ UNCHANGED <<pc, key, wanted, new, count, old, overtaken>>
    BY <1>2 DEF Visit, heapVars, heap
  <2>2. HeapInv'
    BY <2>1, UnchangedInv
  <2>3. LocalTypes'
    BY <2>1, OnwardType DEF LocalTypes
  <2>4. BlocksHeld'
    BY <2>1 DEF BlocksHeld, live, Block
  <2>5. ASSUME ~ overtaken
        PROVE  \E m \in used : Block(m) = old /\ Leads(Onward(node, key), m)
    <3>1. PICK m \in used : Block(m) = old /\ Leads(node, m)
      BY <2>1, <2>5 DEF OnPath
    <3>2. m \in Nodes /\ old[1] = addr[m] /\ old[2] = size[m] /\ addr[m] \in Nat
          /\ size[m] \in Nat /\ 1 <= size[m]
      BY <3>1, Numbers DEF HeapInv, Types, Shape, Block
    <3>3. key \in Nat /\ Holds(m, key)
      <4>1. CASE pc = "lookup"
        BY <3>1, <3>2, <4>1, UnitsAre DEF BlocksHeld, HeapInv
      <4>2. CASE pc = "measure"
        BY <3>2, <4>2 DEF BlocksHeld, Past, Holds
      <4> QED
        BY <2>1, <4>1, <4>2 DEF Searching
    <3>4. node # m
      <4>1. CASE pc = "lookup"
        BY <2>1, <3>3, <4>1 DEF Found, Holds
      <4>2. CASE pc = "measure"
        BY <2>1, <3>2, <4>2 DEF Found, BlocksHeld, Past
      <4> QED
        BY <2>1, <4>1, <4>2 DEF Searching
    <3>5. <<node, m>> \in above /\ node \in used
      BY <3>1, <3>2, <3>4 DEF Leads, LocalTypes, HeapInv, Types, Ordered, Shape
    <3>6. key \in Units(Block(m))
      BY <3>2, <3>3, UnitsAre DEF HeapInv
    <3> QED
      BY <3>1, <3>5, <3>6, InvLookup DEF LookupLeads, Leads
  <2>6. OnPath'
    BY <2>1, <2>5 DEF OnPath, Leads, Block
  <2> QED
    BY <2>2, <2>3, <2>4, <2>6
<1>3. ASSUME LookupEnds \/ MeasureEnds PROVE ReallocInv'
  <2>1. /\ pc \in Searching /\ node # Null /\ Found(node) /\ node' = Null /\ overtaken' = FALSE
        /\ UNCHANGED heap /\ UNCHANGED <<addr, size, used, pool, above>>
        /\ UNCHANGED <<wanted, new, old>>
        /\ \/ pc = "lookup" /\ pc' = "malloc" /\ key' = addr[node] /\ count' = count
           \/ pc = "measure" /\ pc' = "copy" /\ key' = key /\ count' = size[node]
    BY <1>3 DEF LookupEnds, MeasureEnds, heapVars, heap, Searching
  <2>2. node \in used /\ node \in Nodes /\ old[1] = addr[node] /\ old[2] = size[node]
    BY <2>1, FoundIsOld DEF Block, HeapInv, Types
  <2>3. addr[node] \in Addresses /\ size[node] \in 0 .. HeapSize
    BY <2>2, Numbers, Constants DEF HeapInv, Types, Shape, Addresses
  <2>4. HeapInv'
    BY <2>1, UnchangedInv
  <2>5. LocalTypes'
    BY <2>1, <2>3 DEF LocalTypes
  <2>6. BlocksHeld'
    BY <2>1, <2>2 DEF BlocksHeld, live, Block, Past
  <2>7. OnPath'
    BY <2>1 DEF OnPath, Searching
  <2> QED
    BY <2>4, <2>5, <2>6, <2>7
<1> QED
  BY <1>1, <1>2, <1>3 DEF Search

LEMMA MallocInv ==
  ASSUME ReallocInv, Malloc, sound'
  PROVE  ReallocInv'
<1> USE DEF ReallocInv
<1> DEFINE a == Answer(wanted)
<1>1. /\ pc \in {"malloc", "retry"} /\ Allocate(wanted) /\ wanted \in Requests
      /\ old \in live
  BY DEF Malloc, Strike, BlocksHeld
<1>2. /\ HeapInv'
      /\ \A n \in used : n \in used' /\ Block(n)' = Block(n)
      /\ a # 0 => /\ \E n \in used' : Block(n)' = <<a, wanted>>
                  /\ \A n \in used : addr[n] # a
  BY <1>1, AllocateKeeps
<1>3. PICK m \in used : Block(m) = old
  BY <1>1 DEF live
<1>4. /\ m \in used' /\ Block(m)' = old /\ old[1] = addr[m] /\ old \in live'
  BY <1>2, <1>3 DEF live, Block
<1>5. CASE /\ a # 0 /\ pc' = "measure" /\ new' = <<a, wanted>> /\ node' = occupied_root'
           /\ UNCHANGED <<key, wanted, count, old, overtaken>>
  <2>1. PICK n \in used' : Block(n)' = <<a, wanted>>
    BY <1>2, <1>5
  <2>2. /\ new' \in live' /\ new' # old /\ new'[2] = wanted
    BY <1>2, <1>3, <1>4, <1>5, <2>1 DEF live
  <2>3. BlocksHeld'
    BY <1>1, <1>4, <1>5, <2>2 DEF BlocksHeld, Past
  <2>4. LiveTyped' /\ LookupLeads' /\ RootType'
    BY <1>2, InvNext, RootTypeNext
  <2>5. LocalTypes'
    BY <1>5, <2>2, <2>4 DEF LocalTypes, Searching, RootType, LiveTyped
  <2>6. m \in Nodes /\ Units(Block(m))' # {}
    <3>1. m \in Nodes /\ addr[m] \in Nat /\ size[m] \in Nat /\ 1 <= size[m]
      BY <1>3, Numbers DEF HeapInv, Types, Shape
    <3>2. addr[m] \in Units(Block(m))
      BY <3>1, UnitsAre DEF HeapInv, Holds
    <3>3. Units(Block(m))' = Units(Block(m))
      BY <1>2, <1>3 DEF Units
    <3> QED
      BY <3>1, <3>2, <3>3
  <2>7. occupied_root' = m \/ <<occupied_root', m>> \in above'
    BY <1>4, <2>4, <2>6 DEF LookupLeads
  <2>8. OnPath'
    BY <1>4, <1>5, <2>7 DEF OnPath, Leads
  <2> QED
    BY <1>2, <2>3, <2>5, <2>8
<1>6. CASE /\ pc' = "collect" /\ UNCHANGED <<key, node, wanted, new, count, old, overtaken>>
  <2>1. LocalTypes' /\ OnPath'
    BY <1>6 DEF LocalTypes, OnPath, Searching
  <2>2. BlocksHeld'
    BY <1>1, <1>4, <1>6 DEF BlocksHeld, Past
  <2> QED
    BY <1>2, <2>1, <2>2
<1>7. CASE a = 0 /\ Return
  <2>1. UNCHANGED heap
    BY <1>1, <1>7 DEF Allocate, Take, Cut, Refuse
  <2> QED
    BY <1>7, <2>1, ReturnInv
<1> QED
  BY <1>5, <1>6, <1>7 DEF Malloc, Strike

\* What others do leaves the blocks that the thread holds.
LEMMA OthersInv ==
  ASSUME ReallocInv, OthersAllocate, sound'
  PROVE  ReallocInv'
<1> USE DEF ReallocInv
<1>1. PICK s \in Requests : Allocate(s)
  BY DEF OthersAllocate, Strike
<1>2. UNCHANGED <<pc, key, node, wanted, new, count, old, overtaken>>
  BY DEF OthersAllocate, Strike, locals
<1>3. /\ HeapInv'
      /\ \A n \in used : n \in used' /\ Block(n)' = Block(n)
      /\ \A n, p \in used : <<n, p>> \in above => <<n, p>> \in above'
  BY <1>1, AllocateKeeps
<1>4. \A b \in live : b \in live'
  BY <1>3 DEF live
<1>5. LocalTypes'
  BY <1>2 DEF LocalTypes
<1>6. BlocksHeld'
  BY <1>2, <1>4 DEF BlocksHeld
<1>7. OnPath'
  <2> SUFFICES ASSUME pc \in Searching, ~ overtaken
               PROVE  \E m \in used' : Block(m)' = old /\ Leads(node, m)'
    BY <1>2 DEF OnPath
  <2>1. PICK m \in used : Block(m) = old /\ Leads(node, m)
    BY DEF OnPath
  <2>2. node = m \/ node \in used
    BY <2>1 DEF Leads, Ordered, HeapInv, Types, Shape
  <2> QED
    BY <1>2, <1>3, <2>1, <2>2 DEF Leads
<1> QED
  BY <1>3, <1>5, <1>6, <1>7

LEMMA CollectGarbageInv ==
  ASSUME ReallocInv, CollectGarbage, sound'
  PROVE  ReallocInv'
<1> USE DEF ReallocInv
<1>1. PICK kept \in SUBSET used :
        /\ {old, new} \ {NoBlock} \subseteq {Block(n) : n \in kept}
        /\ CollectKeeping(kept)
  BY DEF CollectGarbage, Strike
<1>2. /\ overtaken' = (overtaken \/ pc \in Searching)
      /\ pc' = IF pc = "collect" THEN "retry" ELSE pc
      /\ UNCHANGED <<key, node, wanted, new, count, old>>
  BY DEF CollectGarbage, Strike
<1>3. HeapInv'
  BY <1>1, CollectInv
<1>4. used' = kept /\ \A n \in kept : Block(n)' = Block(n)
  BY <1>1, CollectKeeps
<1>5. \A b \in live : b # NoBlock
  <2>1. \A b \in live : b \in Addresses \X Requests
    BY InvLive DEF LiveTyped
  <2>2. 0 \notin Addresses
    BY DEF Addresses
  <2> QED
    BY <2>1, <2>2 DEF NoBlock
<1>6. \A b \in {old, new} : b \in live => b \in live'
  BY <1>1, <1>4, <1>5 DEF live
<1>7. LocalTypes'
  BY <1>2 DEF LocalTypes, Searching
<1>8. BlocksHeld'
  BY <1>2, <1>6 DEF BlocksHeld, Past
<1>9. OnPath'
  BY <1>2 DEF OnPath, Searching
<1> QED
  BY <1>3, <1>7, <1>8, <1>9

LEMMA ReallocInitInv == ReallocInit => ReallocInv
<1> SUFFICES ASSUME ReallocInit PROVE ReallocInv
  OBVIOUS
<1>1. HeapInv
  BY InitInv DEF ReallocInit
<1>2. 0 \in 0 .. HeapSize
  BY Constants
<1>3. LocalTypes
  BY <1>2 DEF ReallocInit, LocalTypes
<1>4. BlocksHeld /\ OnPath
  BY DEF ReallocInit, BlocksHeld, OnPath, Past, Searching
<1> QED
  BY <1>1, <1>3, <1>4 DEF ReallocInv

\* What holds whatever has struck.
SoundRealloc == sound \in BOOLEAN /\ LocalTypes /\ (sound => ReallocInv)

LEMMA ReallocSoundStep ==
  ASSUME ReallocInv, sound, sound', ReallocNext
  PROVE  ReallocInv'
<1>1. ASSUME NEW b \in live, NEW memblock \in b[1] .. (b[1] + b[2] - 1), NEW s \in Requests,
             CallRealloc(b, memblock, s)
      PROVE  ReallocInv'
  BY <1>1, CallInv
<1>2. CASE Search
  BY <1>2, SearchInv
<1>3. CASE Malloc
  BY <1>3, MallocInv
<1>4. CASE Copy
  BY <1>4, ReturnInv DEF Copy, ReallocInv, heapVars
<1>5. CASE OthersAllocate
  BY <1>5, OthersInv
<1>6. CASE CollectGarbage
  BY <1>6, CollectGarbageInv
<1> QED
  BY <1>1, <1>2, <1>3, <1>4, <1>5, <1>6 DEF ReallocNext

\* A step begins where no defect has struck; one that is a defect changes no local.
LEMMA Struck ==
  ASSUME ReallocNext
  PROVE  sound /\ (sound' = sound \/ (sound' = FALSE /\ UNCHANGED locals))
<1>1. ASSUME NEW b \in live, NEW memblock \in b[1] .. (b[1] + b[2] - 1), NEW s \in Requests,
             CallRealloc(b, memblock, s)
      PROVE  sound /\ sound' = sound
  BY <1>1 DEF CallRealloc, heapVars
<1>2. CASE Search
  BY <1>2 DEF Search, Visit, LookupEnds, MeasureEnds, SearchFails, heapVars
<1>3. CASE Malloc
  BY <1>3 DEF Malloc, Strike
<1>4. CASE Copy
  BY <1>4 DEF Copy, heapVars
<1>5. CASE OthersAllocate
  BY <1>5 DEF OthersAllocate, Strike
<1>6. CASE CollectGarbage
  BY <1>6 DEF CollectGarbage, Strike
<1> QED
  BY <1>1, <1>2, <1>3, <1>4, <1>5, <1>6 DEF ReallocNext

LEMMA ReallocStep == SoundRealloc /\ [ReallocNext]_reallocVars => SoundRealloc'
<1> SUFFICES ASSUME SoundRealloc, [ReallocNext]_reallocVars PROVE SoundRealloc'
  OBVIOUS
<1>1. ASSUME ReallocNext, sound' = sound PROVE SoundRealloc'
  <2>1. sound /\ ReallocInv
    BY <1>1, Struck DEF SoundRealloc
  <2>2. ReallocInv'
    BY <1>1, <2>1, ReallocSoundStep
  <2> QED
    BY <1>1, <2>1, <2>2 DEF SoundRealloc, ReallocInv
<1>2. ASSUME sound' = FALSE, UNCHANGED locals PROVE SoundRealloc'
  BY <1>2 DEF SoundRealloc, LocalTypes, locals
<1>3. CASE UNCHANGED reallocVars
  <2>1. /\ UNCHANGED heap /\ UNCHANGED <<addr, size, used, pool, above>>
        /\ UNCHANGED locals /\ UNCHANGED sound
    BY <1>3 DEF reallocVars, heapVars, heap
  <2>2. HeapInv => HeapInv'
    BY <2>1, UnchangedInv
  <2>3. LocalTypes'
    BY <2>1 DEF SoundRealloc, locals, LocalTypes
  <2>4. BlocksHeld /\ OnPath => BlocksHeld' /\ OnPath'
    BY <2>1 DEF locals, BlocksHeld, OnPath, Leads, live, Block
  <2> QED
    BY <2>1, <2>2, <2>3, <2>4 DEF SoundRealloc, ReallocInv
<1> QED
  BY <1>1, <1>2, <1>3, Struck

(***************************************************************************)
(* The inductive invariant of gc_realloc(): until a defect strikes, the       *)
(* blocks that it holds stay in use, and its searches are on the path to the *)
(* object (gc.c, 43-50).                                                    *)
(***************************************************************************)
THEOREM ReallocInvariant == ReallocSpec => []SoundRealloc
<1>1. ReallocInit => SoundRealloc
  BY ReallocInitInv DEF ReallocInit, HeapInit, SoundRealloc, ReallocInv
<1> QED
  BY <1>1, ReallocStep, PTL DEF ReallocSpec

LEMMA TypesFollow == SoundRealloc => ReallocTypeOK
<1> SUFFICES ASSUME SoundRealloc PROVE ReallocTypeOK
  OBVIOUS
<1>1. HeapTypeOK
  BY TypesHold DEF SoundRealloc, SoundHeap, ReallocInv
<1> QED
  BY <1>1 DEF SoundRealloc, LocalTypes, ReallocTypeOK

LEMMA FindsFollows == ReallocInv => SearchFinds
<1> SUFFICES ASSUME ReallocInv, pc \in Searching, node = Null, ~ overtaken PROVE FALSE
  BY DEF SearchFinds, ReallocInv, BlocksHeld, Past, LocalTypes
<1>1. PICK m \in used : node = m \/ <<node, m>> \in above
  BY DEF ReallocInv, OnPath, Leads
<1>2. node \in Nodes
  BY <1>1 DEF ReallocInv, HeapInv, Types
<1> QED
  BY <1>2, Constants

\* gc_memcpy() writes as many units as it is told to.
LEMMA WrittenIs == \A c \in Nat : Written(c) = c
<1> TAKE c \in Nat
<1>1. c = 2 * (c \div 2) + (c % 2)
  OBVIOUS
<1> QED
  BY <1>1 DEF Written

LEMMA CopyFollows == ReallocInv => CopyStaysInside
<1> SUFFICES ASSUME ReallocInv, sound, pc = "copy", wanted >= old[2], NEW b \in live, b # new
             PROVE  /\ new \in live /\ new # old
                    /\ Units(<<new[1], Written(count)>>) \cap Units(b) = {}
  <2>1. ReallocInv => (pc = "copy" => new \in live /\ new # old)
    BY DEF ReallocInv, BlocksHeld
  <2> QED
    BY <2>1 DEF CopyStaysInside
<1> USE DEF ReallocInv
<1>1. new \in live /\ new # old /\ new[2] = wanted /\ count = old[2]
  BY DEF BlocksHeld
<1>2. PICK n \in used, p \in used : Block(n) = new /\ Block(p) = b
  BY <1>1 DEF live
<1>3. Units(new) \cap Units(b) = {}
  <2>1. n # p
    BY <1>2
  <2> QED
    BY <1>2, <2>1, InvPartitioned DEF HeapPartitioned
<1>4. new[1] \in Nat /\ new[2] \in Nat /\ count \in Nat /\ count <= new[2]
  BY <1>1, Constants, InvLive DEF LocalTypes, LiveTyped, Addresses
<1>5. Written(count) = count
  BY <1>4, WrittenIs
<1>6. Units(<<new[1], count>>) \subseteq Units(new)
  <2> DEFINE a == new[1]
             k == new[2]
  <2>1. a \in Nat /\ k \in Nat /\ count \in Nat /\ count <= k
    BY <1>4
  <2>2. a .. (a + count - 1) \subseteq a .. (a + k - 1)
    <3> HIDE DEF a, k
    <3> QED
      BY <2>1
  <2> QED
    BY <2>2 DEF Units
<1> QED
  BY <1>1, <1>3, <1>5, <1>6

\* Reallocation, with the collections and the allocations of other threads between
\* its steps, uses the heap as it may be used (gc.c, 38-54).
LEMMA ReallocImplementsHeap == ReallocSpec => HeapSpec
<1>1. ReallocInit => HeapInit
  BY DEF ReallocInit
<1>2. SoundRealloc /\ [ReallocNext]_reallocVars => [HeapNext]_heapVars
  BY ReallocStepsHeap DEF SoundRealloc, ReallocInv
<1> QED
  BY <1>1, <1>2, ReallocInvariant, PTL DEF ReallocSpec, HeapSpec

(***************************************************************************)
(* The variables of gc_realloc() keep their types, and those of the heap      *)
(* theirs until a defect strikes.                                            *)
(***************************************************************************)
THEOREM ReallocTypes == ReallocSpec => []ReallocTypeOK
BY ReallocInvariant, TypesFollow, PTL

(***************************************************************************)
(* Until a defect strikes, a search that takes no lock finds its object,     *)
(* however many insertions happen between the nodes it visits, unless a      *)
(* collection intervenes; and it never ends at another object                *)
(* (binary-search-tree.c, 15-35; object.c, 26-45).                           *)
(***************************************************************************)
THEOREM ReallocSearchFinds == ReallocSpec => []SearchFinds
<1>1. SoundRealloc => SearchFinds
  BY FindsFollows DEF SoundRealloc, SearchFinds
<1> QED
  BY <1>1, ReallocInvariant, PTL

(***************************************************************************)
(* Until a defect strikes, a reallocation to a size that is not smaller      *)
(* writes into its new object only, for every number of nodes, heap size and *)
(* length (gc.c, 43-51; gc_mem.c, 19-35).                                    *)
(***************************************************************************)
THEOREM ReallocCopyStaysInside == ReallocSpec => []CopyStaysInside
<1>1. SoundRealloc => CopyStaysInside
  BY CopyFollows DEF SoundRealloc, CopyStaysInside
<1> QED
  BY <1>1, ReallocInvariant, PTL

-------------------------------------------------------------------------------
(***************************************************************************)
(* A search ends unless sweeps keep freeing objects.                        *)
(***************************************************************************)

\* A free block is a run of units that no kept block holds.
LEMMA FreeBlockIsRun ==
  ASSUME HeapInv, NEW n \in FreeNodes
  PROVE  LET idle == Addresses \ UNION {Units(Block(m)) : m \in used}
         IN  /\ First(Run(idle, addr[n])) = addr[n]
             /\ Cardinality(Run(idle, addr[n])) = size[n]
             /\ \A h \in FreeNodes : addr[h] \in Run(idle, addr[n]) => h = n
<1> USE DEF HeapInv
<1> DEFINE idle == Addresses \ UNION {Units(Block(m)) : m \in used}
           end == addr[n] + size[n]
<1>1. used \subseteq Nodes \ pool /\ FreeNodes \subseteq Nodes \ pool /\ used \subseteq Nodes
      /\ FreeNodes \cap used = {} /\ Nodes \ pool = used \cup FreeNodes
  BY DEF Types, Shape, FreeNodes
<1>2. /\ \A m \in Nodes : addr[m] \in Nat /\ size[m] \in Nat
      /\ \A m \in Nodes \ pool : 1 <= addr[m] /\ 1 <= size[m] /\ addr[m] + size[m] <= HeapSize + 1
      /\ HeapSize \in Nat
  BY Numbers, Constants DEF Shape
<1>3. \A c : c \in idle <=> /\ c \in Nat /\ 1 <= c /\ c <= HeapSize
                            /\ \A m \in used : ~ Holds(m, c)
  <2>1. \A c : c \in Addresses <=> c \in Nat /\ 1 <= c /\ c <= HeapSize
    BY Constants DEF Addresses
  <2>2. \A m \in used : \A c : c \in Units(Block(m)) <=> c \in Nat /\ Holds(m, c)
    BY <1>1, UnitsAre
  <2> QED
    BY <2>1, <2>2
<1> HIDE DEF idle
<1>4. ASSUME NEW c \in Nat, Holds(n, c)
      PROVE  c \in idle
  <2>1. \A m \in used : ~ Holds(m, c)
    BY <1>1, <1>4, UsedApart
  <2> QED
    BY <1>1, <1>2, <1>3, <1>4, <2>1 DEF Holds
<1>5. ASSUME NEW c \in idle
      PROVE  \E m \in FreeNodes : Holds(m, c)
  <2>1. c \in Addresses
    BY <1>3, <1>5 DEF Addresses
  <2> QED
    BY <1>1, <1>3, <1>5, <2>1 DEF Partition
<1>6. end \notin idle
  <2> SUFFICES ASSUME end \in idle PROVE FALSE
    OBVIOUS
  <2>1. PICK m \in FreeNodes : Holds(m, end)
    BY <1>5
  <2>2. m # n
    BY <1>1, <1>2, <2>1 DEF Holds
  <2>3. end <= addr[m] \/ addr[m] + size[m] <= addr[n]
    BY <1>1, <2>2 DEF Partition
  <2>4. end = addr[m]
    BY <1>1, <1>2, <2>1, <2>3 DEF Holds
  <2> QED
    BY <2>4 DEF Partition
<1>7. addr[n] - 1 \notin idle
  <2> SUFFICES ASSUME addr[n] - 1 \in idle PROVE FALSE
    OBVIOUS
  <2>1. PICK m \in FreeNodes : Holds(m, addr[n] - 1)
    BY <1>5
  <2>2. m # n
    BY <1>1, <1>2, <2>1 DEF Holds
  <2>3. end <= addr[m] \/ addr[m] + size[m] <= addr[n]
    BY <1>1, <2>2 DEF Partition
  <2>4. addr[m] + size[m] = addr[n]
    BY <1>1, <1>2, <2>1, <2>3 DEF Holds
  <2> QED
    BY <2>4 DEF Partition
<1>8. idle \in SUBSET Addresses /\ addr[n] \in idle
  BY <1>1, <1>2, <1>4 DEF Holds, idle
<1> DEFINE f == First(Run(idle, addr[n]))
           k == Cardinality(Run(idle, addr[n]))
<1>9. /\ f \in Nat /\ k \in Nat /\ f <= addr[n] /\ addr[n] < f + k
      /\ \A b : b \in Run(idle, addr[n]) <=> b \in Nat /\ f <= b /\ b < f + k
      /\ \A b : b \in Run(idle, addr[n]) => b \in idle
      /\ f + k \notin idle
  BY <1>8, RunIs
<1> HIDE DEF f, k
<1>10. f = addr[n]
  <2> SUFFICES ASSUME f < addr[n] PROVE FALSE
    BY <1>1, <1>2, <1>9
  <2>1. addr[n] - 1 \in Nat /\ f <= addr[n] - 1 /\ addr[n] - 1 < f + k
    BY <1>1, <1>2, <1>9
  <2> QED
    BY <1>7, <1>9, <2>1
<1>11. k = size[n]
  <2>1. ASSUME end < f + k PROVE FALSE
    <3>1. end \in Nat /\ f <= end
      BY <1>1, <1>2, <1>9
    <3> QED
      BY <1>6, <1>9, <2>1, <3>1
  <2>2. ASSUME f + k < end PROVE FALSE
    <3>1. f + k \in Nat /\ Holds(n, f + k)
      BY <1>1, <1>2, <1>9, <2>2 DEF Holds
    <3> QED
      BY <1>4, <1>9, <3>1
  <2> QED
    BY <1>1, <1>2, <1>9, <1>10, <2>1, <2>2
<1>12. ASSUME NEW h \in FreeNodes, addr[h] \in Run(idle, addr[n])
       PROVE  h = n
  <2>1. Holds(n, addr[h])
    BY <1>1, <1>2, <1>9, <1>10, <1>11, <1>12 DEF Holds
  <2> QED
    BY <1>1, <1>2, <2>1 DEF Partition, Holds
<1> QED
  BY <1>10, <1>11, <1>12 DEF f, k, idle

\* A sweep that finds nothing to free changes nothing.
LEMMA IdleSweep ==
  ASSUME HeapInv, CollectKeeping(used)
  PROVE  UNCHANGED <<addr, size, used, pool, above>>
<1> USE DEF HeapInv
<1> DEFINE idle == Addresses \ UNION {Units(Block(n)) : n \in used}
           block(n) == Run(idle, addr[n])
           free == (used \ used) \cup FreeNodes
<1>1. PICK rest \in SUBSET free :
        /\ \A n \in free : \E h \in rest : addr[h] \in block(n)
        /\ pool' = pool \cup (free \ rest)
        /\ addr' = [n \in Nodes |-> IF n \in rest THEN First(block(n))
                                    ELSE IF n \in free \ rest THEN 0 ELSE addr[n]]
        /\ size' = [n \in Nodes |-> IF n \in rest THEN Cardinality(block(n))
                                    ELSE IF n \in free \ rest THEN 0 ELSE size[n]]
        /\ \E stack \in Stacks(free \ rest) :
             above' = (above \cap ((used \X used) \cup (pool \X pool)))
                      \cup ((free \ rest) \X pool) \cup stack
  BY DEF CollectKeeping
<1>2. free = FreeNodes
  OBVIOUS
<1>3. \A n \in FreeNodes : /\ First(block(n)) = addr[n] /\ Cardinality(block(n)) = size[n]
                           /\ \A h \in FreeNodes : addr[h] \in block(n) => h = n
  BY FreeBlockIsRun
<1> HIDE DEF block, free
<1>4. rest = FreeNodes /\ free \ rest = {}
  BY <1>1, <1>2, <1>3
<1>5. addr' = addr /\ size' = size /\ pool' = pool
  BY <1>1, <1>2, <1>3, <1>4 DEF Types
<1>6. PICK stack \in Stacks({}) :
        above' = (above \cap ((used \X used) \cup (pool \X pool))) \cup ({} \X pool) \cup stack
  BY <1>1, <1>4
<1>7. stack = {}
  BY StacksAre
<1>8. above \subseteq (used \X used) \cup (pool \X pool)
  <2> SUFFICES ASSUME NEW e \in above PROVE e \in (used \X used) \cup (pool \X pool)
    OBVIOUS
  <2>1. e = <<e[1], e[2]>> /\ e[1] \in Nodes /\ e[2] \in Nodes
    BY DEF Types
  <2> QED
    BY <2>1 DEF Ordered
<1>9. above' = above
  BY <1>6, <1>7, <1>8
<1>10. used' = used
  BY DEF CollectKeeping
<1> QED
  BY <1>5, <1>9, <1>10

\* The two parts of Ahead.
Insertions == NodeCount - Cardinality(used)
Under == [n \in Nodes |-> Cardinality(Below(n))]
Descent == IF node = Null THEN 0 ELSE Under[node] + 1

AheadNumbers ==
  /\ Ahead = Insertions * (NodeCount + 1) + Descent
  /\ Insertions \in Nat /\ Descent \in Nat /\ Descent <= NodeCount + 1
  /\ Under \in [Nodes -> Nat]
  /\ node \in Nodes \cup {Null}

LEMMA NodeSets ==
  ASSUME NEW S \in SUBSET Nodes
  PROVE  IsFiniteSet(S) /\ Cardinality(S) \in Nat /\ Cardinality(S) <= NodeCount
<1>1. Cardinality(Nodes) = NodeCount
  <2>1. 1 \in Int /\ NodeCount \in Int /\ ~ (1 > NodeCount) /\ (NodeCount - 1) + 1 = NodeCount
    BY Constants
  <2> QED
    BY <2>1, FS_Interval DEF Nodes
<1> QED
  BY <1>1, NodesFinite, FS_Subset, FS_CardinalityType

LEMMA AheadIs == ReallocInv => AheadNumbers
<1> SUFFICES ASSUME ReallocInv PROVE AheadNumbers
  OBVIOUS
<1> USE DEF ReallocInv
<1>1. used \in SUBSET Nodes /\ node \in Nodes \cup {Null}
  BY DEF HeapInv, Types, LocalTypes
<1>2. Insertions \in Nat
  BY <1>1, NodeSets, Constants DEF Insertions
<1>3. \A n \in Nodes : Cardinality(Below(n)) \in Nat /\ Cardinality(Below(n)) <= NodeCount
  BY BelowFalls, NodeSets
<1>4. Under \in [Nodes -> Nat] /\ \A n \in Nodes : Under[n] = Cardinality(Below(n))
  BY <1>3 DEF Under
<1>5. Descent \in Nat /\ Descent <= NodeCount + 1
  BY <1>1, <1>3, <1>4, Constants DEF Descent
<1>6. Ahead = Insertions * (NodeCount + 1) + Descent
  BY <1>1, <1>4 DEF Ahead, Insertions, Descent
<1> QED
  BY <1>1, <1>2, <1>4, <1>5, <1>6 DEF AheadNumbers

LEMMA AheadNext == ReallocInv' => AheadNumbers'
BY AheadIs, PTL

\* The heap alone determines what lies below a node.
LEMMA HeapUnchanged ==
  ASSUME UNCHANGED <<addr, size, used, pool, above>>
  PROVE  Insertions' = Insertions /\ Under' = Under
<1>1. FreeNodes' = FreeNodes
  BY DEF FreeNodes
<1> QED
  BY <1>1 DEF Insertions, Under, Below, BelowInTreap, Between, Smaller

LEMMA VisitFalls ==
  ASSUME ReallocInv, ReallocInv', Visit
  PROVE  Ahead' < Ahead
<1>1. UNCHANGED <<addr, size, used, pool, above>> /\ node # Null /\ node' = Onward(node, key)
  BY DEF Visit, heapVars, heap
<1>2. AheadNumbers /\ AheadNumbers'
  BY AheadIs, AheadNext
<1>3. Insertions' = Insertions /\ Under' = Under
  BY <1>1, HeapUnchanged
<1>4. Descent' < Descent
  <2>1. node \in Nodes /\ Descent = Under[node] + 1 /\ Under[node] \in Nat
    BY <1>1, <1>2 DEF AheadNumbers, Descent
  <2>2. CASE node' = Null
    BY <2>1, <2>2 DEF Descent
  <2>3. CASE node' # Null
    <3> DEFINE p == Onward(node, key)
    <3>1. p \in Below(node) /\ p \in Nodes /\ node' = p
      BY <1>1, <1>2, <2>3, OnwardBelow DEF AheadNumbers
    <3>2. Below(p) \subseteq Below(node) /\ p \notin Below(p) /\ Below(node) \in SUBSET Nodes
      BY <2>1, <3>1, BelowFalls DEF ReallocInv
    <3> HIDE DEF p
    <3>3. Cardinality(Below(p)) < Cardinality(Below(node))
      <4>1. Below(p) \in SUBSET Below(node) /\ Below(p) # Below(node) /\ Below(p) \in SUBSET Nodes
        BY <3>1, <3>2
      <4>2. IsFiniteSet(Below(node)) /\ Cardinality(Below(node)) \in Nat /\ Cardinality(Below(p)) \in Nat
        BY <3>2, <4>1, NodeSets
      <4> QED
        BY <4>1, <4>2, FS_Subset
    <3>4. Under[p] < Under[node] /\ Under[p] \in Nat
      BY <1>2, <2>1, <3>1, <3>3 DEF Under, AheadNumbers
    <3>5. Descent' = Under[p] + 1
      BY <1>3, <2>3, <3>1 DEF Descent
    <3> QED
      BY <2>1, <3>4, <3>5
  <2> QED
    BY <2>2, <2>3
<1>5. Insertions * (NodeCount + 1) \in Nat
  BY <1>2, Constants DEF AheadNumbers
<1> QED
  BY <1>2, <1>3, <1>4, <1>5 DEF AheadNumbers

\* What the visits come to: products of naturals.
LEMMA ProductGrows ==
  ASSUME NEW a \in Nat, NEW b \in Nat, NEW n \in Nat, a <= b
  PROVE  a * n \in Nat /\ b * n \in Nat /\ a * n <= b * n /\ (b + 1) * n = b * n + n
<1>1. PICK d \in Nat : b = a + d
  <2>1. b - a \in Nat /\ b = a + (b - a)
    OBVIOUS
  <2> QED
    BY <2>1
<1>2. a * n \in Nat /\ d * n \in Nat /\ b * n = a * n + d * n
  BY <1>1
<1>3. (b + 1) * n = b * n + n
  OBVIOUS
<1> QED
  BY <1>2, <1>3

LEMMA InsertionPays ==
  ASSUME NEW w \in Nat, NEW k \in Nat, NEW d \in Nat, NEW e \in Nat, e <= k
  PROVE  (w - k) + e <= w + d
OBVIOUS

LEMMA OthersFall ==
  ASSUME ReallocInv, ReallocInv', OthersAllocate, sound'
  PROVE  Ahead' <= Ahead
<1>1. PICK s \in Requests : Allocate(s)
  BY DEF OthersAllocate, Strike
<1>2. AheadNumbers /\ AheadNumbers' /\ node' = node
  BY AheadIs, AheadNext DEF OthersAllocate, Strike, locals
<1>3. Insertions * (NodeCount + 1) \in Nat /\ NodeCount \in Nat
  BY <1>2, Constants DEF AheadNumbers
<1>4. CASE Refuse(s)
  <2>1. UNCHANGED <<addr, size, used, pool, above>>
    BY <1>4 DEF Refuse, heap
  <2>2. Insertions' = Insertions /\ Under' = Under
    BY <2>1, HeapUnchanged
  <2>3. Descent' = Descent
    BY <1>2, <2>2 DEF Descent
  <2> QED
    BY <1>2, <1>3, <2>2, <2>3 DEF AheadNumbers
<1>5. CASE Take(s) \/ Cut(s)
  <2>1. Answer(s) # 0 /\ used' = used \cup {FirstFit(s)}
    BY <1>5 DEF Take, Cut
  <2>2. FirstFit(s) \in FreeNodes
    BY <2>1, FitFacts DEF ReallocInv
  <2>3. used \in SUBSET Nodes /\ FirstFit(s) \notin used
    BY <2>2 DEF FreeNodes, ReallocInv, HeapInv, Types
  <2>4. Cardinality(used') = Cardinality(used) + 1 /\ Cardinality(used) \in Nat
    BY <2>1, <2>3, NodeSets, FS_AddElement
  <2>5. Insertions' = Insertions - 1
    BY <1>3, <2>4 DEF Insertions
  <2>6. Insertions' * (NodeCount + 1) = Insertions * (NodeCount + 1) - (NodeCount + 1)
    BY <1>2, <1>3, <2>5 DEF AheadNumbers
  <2> DEFINE w == Insertions * (NodeCount + 1)
  <2>7. Ahead = w + Descent /\ Ahead' = (w - (NodeCount + 1)) + Descent'
    BY <1>2, <2>6 DEF AheadNumbers
  <2>8. /\ w \in Nat /\ Descent \in Nat /\ Descent' \in Nat /\ NodeCount \in Nat
        /\ Descent' <= NodeCount + 1
    BY <1>2, <1>3 DEF AheadNumbers
  <2> HIDE DEF w
  <2>9. NodeCount + 1 \in Nat
    BY <2>8
  <2> QED
    BY <2>7, <2>8, <2>9, InsertionPays
<1> QED
  BY <1>1, <1>4, <1>5 DEF Allocate

LEMMA StillFalls ==
  ASSUME ReallocInv, ReallocInv', UNCHANGED <<addr, size, used, pool, above>>, UNCHANGED node
  PROVE  Ahead' <= Ahead
<1>1. AheadNumbers /\ AheadNumbers'
  BY AheadIs, AheadNext
<1>2. Insertions' = Insertions /\ Under' = Under
  BY HeapUnchanged
<1>3. Descent' = Descent
  BY <1>2 DEF Descent
<1>4. Insertions * (NodeCount + 1) \in Nat
  BY <1>1, Constants DEF AheadNumbers
<1> QED
  BY <1>1, <1>2, <1>3, <1>4 DEF AheadNumbers

(***************************************************************************)
(* Until a defect strikes, between two sweeps that free something a search    *)
(* visits a bounded number of nodes, also when it goes on in a tree that     *)
(* another thread changes or in the pool (object.c, 26-45;                   *)
(* binary-search-tree.c, 15-35).                                            *)
(***************************************************************************)
THEOREM ReallocSearchFalls ==
  ReallocSpec =>
    SearchFalls /\ [](sound => Ahead \in 0 .. (NodeCount + 1) * (NodeCount + 1))
<1>1. ASSUME SoundRealloc, SoundRealloc', [ReallocNext]_reallocVars
      PROVE  [sound' =>
              /\ Visit => Ahead' < Ahead
              /\ pc \in Searching /\ pc' \in Searching /\ used \subseteq used'
                   => Ahead' <= Ahead]_reallocVars
  <2>0. ASSUME sound', ReallocNext PROVE ReallocInv /\ ReallocInv'
    BY <1>1, <2>0, Struck DEF SoundRealloc
  <2>1. ASSUME sound', ReallocNext, Visit PROVE Ahead' < Ahead
    BY <2>0, <2>1, VisitFalls
  <2>2. ASSUME sound', pc \in Searching, pc' \in Searching, used \subseteq used', ReallocNext
        PROVE  Ahead' <= Ahead
    <3>0. ReallocInv /\ ReallocInv'
      BY <2>0, <2>2
    <3>1. \A b \in live : \A memblock \in b[1] .. (b[1] + b[2] - 1), s \in Requests :
            ~ CallRealloc(b, memblock, s)
      BY <2>2 DEF CallRealloc, Searching
    <3>2. ~ Malloc /\ ~ Copy /\ ~ LookupEnds /\ ~ MeasureEnds /\ ~ SearchFails
      BY <2>2 DEF Malloc, Copy, LookupEnds, MeasureEnds, SearchFails, Return, Searching
    <3>3. CASE Visit
      <4>1. Ahead \in Nat /\ Ahead' \in Nat
        BY <3>0, AheadIs, AheadNext, Constants DEF AheadNumbers
      <4> QED
        BY <2>1, <2>2, <3>3, <4>1
    <3>4. CASE OthersAllocate
      BY <2>2, <3>0, <3>4, OthersFall
    <3>5. CASE CollectGarbage
      <4>1. PICK kept \in SUBSET used : CollectKeeping(kept)
        BY <2>2, <3>5 DEF CollectGarbage, Strike
      <4>2. kept = used
        <5>1. used' = kept
          BY <4>1 DEF CollectKeeping
        <5> QED
          BY <2>2, <5>1
      <4>3. UNCHANGED <<addr, size, used, pool, above>> /\ UNCHANGED node
        BY <2>2, <3>0, <3>5, <4>1, <4>2, IdleSweep DEF ReallocInv, CollectGarbage, Strike
      <4> QED
        BY <3>0, <4>3, StillFalls
    <3> QED
      BY <2>2, <3>1, <3>2, <3>3, <3>4, <3>5 DEF ReallocNext, Search
  <2> QED
    BY <1>1, <2>1, <2>2
<1>2. SoundRealloc => (sound => Ahead \in 0 .. (NodeCount + 1) * (NodeCount + 1))
  <2> SUFFICES ASSUME ReallocInv PROVE Ahead \in 0 .. (NodeCount + 1) * (NodeCount + 1)
    BY DEF SoundRealloc
  <2>1. AheadNumbers /\ NodeCount \in Nat
    BY AheadIs, Constants
  <2>2. Insertions <= NodeCount /\ Insertions \in Nat /\ NodeCount + 1 \in Nat
    BY <2>1, NodeSets DEF Insertions, AheadNumbers, ReallocInv, HeapInv, Types
  <2>3. Insertions * (NodeCount + 1) \in Nat
        /\ Insertions * (NodeCount + 1) <= NodeCount * (NodeCount + 1)
        /\ (NodeCount + 1) * (NodeCount + 1) = NodeCount * (NodeCount + 1) + (NodeCount + 1)
        /\ NodeCount * (NodeCount + 1) \in Nat
    BY <2>1, <2>2, ProductGrows
  <2> QED
    BY <2>1, <2>3 DEF AheadNumbers
<1> QED
  BY <1>1, <1>2, ReallocInvariant, PTL DEF ReallocSpec, SearchFalls

===============================================================================
