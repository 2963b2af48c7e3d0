------------------------------- MODULE MCChat -------------------------------
(* The cells of one arena, as in MCServer, and what users type.                *)
EXTENDS Chat

CONSTANTS Cell, Zero, n1, n2, f1, f2, f3

MCByte == Cell \cup {Zero}
MCAddr == {[b \in 0 .. PtrSize - 1 |-> IF b = 0 THEN x ELSE Zero] : x \in Cell}

MCNick == {n1, n2}
MCFile == {f1, f2, f3}
MCPartsOf == f1 :> 2 @@ f2 :> 2 @@ f3 :> 2
MCParts == {2}

\* One line each, besides the nick on the command line.
AnyLine ==
  ({"nick"} \X Nick) \cup {<<"send", n1, f2>>, <<"send", n2, f1>>, <<"send", n2, f3>>}
    \cup {<<"who">>, <<"text">>, <<"quit">>}
=============================================================================
