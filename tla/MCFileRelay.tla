----------------------------- MODULE MCFileRelay -----------------------------
(* The cells of one arena, as in MCServer.                                    *)
EXTENDS FileRelay

CONSTANTS Cell, Zero

MCByte == Cell \cup {Zero}
MCAddr == {[b \in 0 .. PtrSize - 1 |-> IF b = 0 THEN c ELSE Zero] : c \in Cell}

Symmetry == Permutations(Cell) \cup Permutations(Path) \cup Permutations(Nick)

\* Bound: files are announced while fewer than two are open.
TwoAtATime == Len(transfers') <= 2
=============================================================================
