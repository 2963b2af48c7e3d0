----------------------------- MODULE MCPipeRoom -----------------------------
(* Two senders, and a receiver and somebody else who say one thing each.      *)
EXTENDS PipeRoom, TLC

CONSTANTS a, b, r, t

MCTo == a :> r @@ b :> r
ReceiverTalks == [c \in Clients |-> IF c \in {r, t} THEN 1 ELSE 0]
=============================================================================
