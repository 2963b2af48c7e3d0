---------------------------- MODULE MCServerPages ----------------------------
(* Cells on both sides of a 64 KiB boundary: addresses that differ in their   *)
(* lowest byte, in their third byte, or in both.                              *)
EXTENDS Server

CONSTANTS Cell, Page, Zero

MCByte == Cell \cup Page \cup {Zero}
MCAddr ==
  {[b \in 0 .. PtrSize - 1 |-> CASE b = 0 -> c [] b = 2 -> g [] OTHER -> Zero] :
     c \in Cell, g \in Page}

Symmetry ==
  Permutations(Cell) \cup Permutations(Page) \cup Permutations(Path) \cup Permutations(Nick)
=============================================================================
