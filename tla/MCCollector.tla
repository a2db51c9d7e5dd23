----------------------------- MODULE MCCollector ------------------------------
(***************************************************************************)
(* Collector with one size of object.                                       *)
(***************************************************************************)
EXTENDS Collector

CONSTANT SlotsPerBlock

SlotsOf == [s \in Sizes |-> SlotsPerBlock]

===============================================================================
