------------------------------ MODULE MCServer ------------------------------
(* The cells of one arena: addresses that differ in their lowest byte, which   *)
(* is a model value, so that cells are interchangeable like paths and nicks.   *)
EXTENDS Server

CONSTANTS Cell, Zero

MCByte == Cell \cup {Zero}
MCAddr == {[b \in 0 .. PtrSize - 1 |-> IF b = 0 THEN c ELSE Zero] : c \in Cell}

\* Bound for four clients: each arrives and stays.
ArrivesAndStays ==
  /\ phase' = "running" /\ pc' \notin {"BCST", "SHUT", "LIST"}
  /\ \A path \in Path : fifo[path] = "open" => fifo'[path] = "open"
  /\ Online \subseteq Online'

Symmetry == Permutations(Cell) \cup Permutations(Path) \cup Permutations(Nick)
=============================================================================
