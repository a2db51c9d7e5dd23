--------------------------- MODULE MCSmallAllocator ---------------------------
(***************************************************************************)
(* SmallAllocator with a few threads and blocks.                            *)
(***************************************************************************)
EXTENDS SmallAllocator

\* Two objects per block in the first size class, one in the others.
CONSTANTS PairSize
SlotsOf == [s \in Sizes |-> IF s = PairSize THEN 2 ELSE 1]

===============================================================================
