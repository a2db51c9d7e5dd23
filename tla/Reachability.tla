----------------------------- MODULE Reachability -----------------------------
(***************************************************************************)
(* The objects reached from a set of roots along the edges of a heap.       *)
(***************************************************************************)

ClosedUnder(S, edges, R) ==
  /\ R \subseteq S
  /\ \A o \in S : edges[o] \subseteq S

\* The least set that holds R and is closed under edges.
ReachedBy(Nodes, edges, R) ==
  {o \in Nodes : \A S \in SUBSET Nodes : ClosedUnder(S, edges, R) => o \in S}

===============================================================================
