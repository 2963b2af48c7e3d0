------------------------------ MODULE MCFraming ------------------------------
(* Streams of digits with one odd byte at most: one that is no digit, or a 4,  *)
(* which may make a packet that is its header alone.                           *)
EXTENDS Framing, SequencesExt

\* Bound on the bytes written.
OneOdd == Len(SelectSeq(sent', LAMBDA b : b \in {4, Other})) <= 1
=============================================================================
