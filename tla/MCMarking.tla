------------------------------ MODULE MCMarking -------------------------------
(***************************************************************************)
(* Marking on every heap of a few objects, every choice of root segments    *)
(* and every set of stale mark bits.  Objects are numbers: their names do   *)
(* not matter, so of the initial states that differ in names only some are  *)
(* explored, which is sound for liveness too.                               *)
(***************************************************************************)
EXTENDS Marking, FiniteSetsExt

\* Which segments hold o, and whether its bit is stale, as a number.
Rank(o) ==
  MapThenSumSet(LAMBDA i : 2^i, {i \in SegmentIds : o \in segments[i]})
    + (IF o \in stale THEN 1 ELSE 0)

\* Every heap is a renaming of one that satisfies this.
OrderedInit ==
  /\ Init
  /\ \A o, p \in Objects : o < p => Rank(o) <= Rank(p)

OrderedFairSpec == OrderedInit /\ [][Next]_vars /\ WF_vars(Next)

===============================================================================
