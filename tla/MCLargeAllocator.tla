--------------------------- MODULE MCLargeAllocator ---------------------------
(***************************************************************************)
(* LargeAllocator with a heap of a few units.                                *)
(***************************************************************************)
EXTENDS LargeAllocator

CONSTANT MaxRequest
RequestSizes == 1 .. MaxRequest

===============================================================================
