-------------------------- MODULE MCArrayListBuffer --------------------------
(* Three elements at addresses that differ in their lowest byte, keyed 0 .. 2. *)
EXTENDS ArrayListBuffer

MCByte == 0 .. 3
MCCell(n) == [b \in 0 .. PtrSize - 1 |-> IF b = 0 THEN n ELSE 0]
MCKey == [p \in {MCCell(n) : n \in 1 .. 3} |-> p[0] - 1]
=============================================================================
