------------------------------ MODULE MCCodec ------------------------------
(* Numbers of two digits to the base 4: packets of up to 15 bytes.           *)
EXTENDS Codec

Texts(lengths, bytes) == UNION {[1 .. n -> {b}] : n \in lengths, b \in bytes}

MCText == Texts({0, 1, 2, 3, 4, 5, 8}, {1, Letter})
=============================================================================
