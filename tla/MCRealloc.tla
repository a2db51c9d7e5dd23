------------------------------ MODULE MCRealloc -------------------------------
(***************************************************************************)
(* Realloc with a heap of a few units.                                      *)
(***************************************************************************)
EXTENDS Realloc

CONSTANT MaxRequest
RequestSizes == 1 .. MaxRequest

===============================================================================
