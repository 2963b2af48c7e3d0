------------------------------ MODULE PipeRoom ------------------------------
(***************************************************************************)
(* FIFOs with limited room.  A write into a full FIFO waits: the server in *)
(* send_to and broadcast for a client to read, a client in its handlers    *)
(* for the server to read; and while a client writes all the parts of a    *)
(* file (send_file) it reads nothing.                                      *)
(*                                                                         *)
(* Everybody is registered, and every packet takes one place, whatever its   *)
(* length.                                                                 *)
(***************************************************************************)
EXTENDS Integers, Sequences, SequencesExt, FiniteSets

CONSTANTS
  Clients,    \* the registered clients
  To,         \* to whom each uploader sends its file
  Parts,      \* the number of parts of a file
  CapS,       \* room in the FIFO of the server
  CapC,       \* room in the FIFO of a client
  MaxLines    \* bound of the model: messages each client types

Uploaders == DOMAIN To

ASSUME RoomAssumption ==
  /\ Uploaders \subseteq Clients
  /\ To \in [Uploaders -> Clients]
  /\ CapS \in Nat \ {0} /\ CapC \in Nat \ {0}
  /\ Parts \in Nat
  /\ MaxLines \in [Clients -> Nat]

VARIABLES
  todo,      \* the requests each client has still to write before it reads again
  pipe,      \* the content of the server's FIFO
  sending,   \* the packets the server has still to write before it reads again
  box,       \* the content of each client's FIFO
  lines,     \* how many messages each client has typed
  asked      \* the uploaders that have typed /send

vars == <<todo, pipe, sending, box, lines, asked>>

Users == SetToSeq(Clients)

-----------------------------------------------------------------------------
\* send_file: all parts, whatever is in the FIFO meanwhile.
Reply(c, packet) ==
  IF packet = "OKOK" THEN [k \in 1 .. Parts |-> <<"PART", c>>] ELSE <<>>

\* Mutant: parts go to everybody.
Answers_all(q) ==
  CASE q[1] = "BCST" -> [k \in DOMAIN Users |-> <<Users[k], "BCST">>]
    [] q[1] = "FILE" -> <<<<To[q[2]], "FILE">>, <<q[2], "OKOK">>>>
    [] q[1] = "PART" -> [k \in DOMAIN Users |-> <<Users[k], "PART">>]

\* The packets a request makes the server write, in this order.
Answers(q) ==
  CASE q[1] = "BCST" -> [k \in DOMAIN Users |-> <<Users[k], "BCST">>]
    [] q[1] = "FILE" -> <<<<To[q[2]], "FILE">>, <<q[2], "OKOK">>>>
    [] q[1] = "PART" -> <<<<To[q[2]], "PART">>>>

Init ==
  /\ todo = [c \in Clients |-> <<>>]
  /\ pipe = <<>>
  /\ sending = <<>>
  /\ box = [c \in Clients |-> <<>>]
  /\ lines = [c \in Clients |-> 0]
  /\ asked = {}

-----------------------------------------------------------------------------
\* The loop of main: one packet, if there is one, and then the key.
Reads(c) ==
  /\ todo[c] = <<>>
  /\ box[c] # <<>>
  /\ todo' = [todo EXCEPT ![c] = Reply(c, Head(box[c]))]
  /\ box' = [box EXCEPT ![c] = Tail(@)]
  /\ UNCHANGED <<pipe, sending, lines, asked>>

Types(c) ==
  /\ todo[c] = <<>>
  /\ lines[c] < MaxLines[c]
  /\ todo' = [todo EXCEPT ![c] = <<<<"BCST", c>>>>]
  /\ lines' = [lines EXCEPT ![c] = @ + 1]
  /\ UNCHANGED <<pipe, sending, box, asked>>

Asks(c) ==
  /\ todo[c] = <<>>
  /\ c \in Uploaders \ asked
  /\ todo' = [todo EXCEPT ![c] = <<<<"FILE", c>>>>]
  /\ asked' = asked \cup {c}
  /\ UNCHANGED <<pipe, sending, box, lines>>

Writes(c) ==
  /\ todo[c] # <<>>
  /\ Len(pipe) < CapS
  /\ pipe' = Append(pipe, Head(todo[c]))
  /\ todo' = [todo EXCEPT ![c] = Tail(@)]
  /\ UNCHANGED <<sending, box, lines, asked>>

\* The loop of the server's main.
Takes ==
  /\ sending = <<>>
  /\ pipe # <<>>
  /\ sending' = Answers(Head(pipe))
  /\ pipe' = Tail(pipe)
  /\ UNCHANGED <<todo, box, lines, asked>>

\* Mutant: the server waits until the client reads, room or not.
Sends_to_reader ==
  /\ sending # <<>>
  /\ LET c == Head(sending)[1]
     IN  /\ Len(box[c]) < CapC /\ todo[c] = <<>>
         /\ box' = [box EXCEPT ![c] = Append(@, Head(sending)[2])]
  /\ sending' = Tail(sending)
  /\ UNCHANGED <<todo, pipe, lines, asked>>

Sends ==
  /\ sending # <<>>
  /\ LET c == Head(sending)[1]
     IN  /\ Len(box[c]) < CapC
         /\ box' = [box EXCEPT ![c] = Append(@, Head(sending)[2])]
  /\ sending' = Tail(sending)
  /\ UNCHANGED <<todo, pipe, lines, asked>>

Next ==
  \/ \E c \in Clients : Reads(c) \/ Types(c) \/ Asks(c) \/ Writes(c)
  \/ Takes
  \/ Sends

Spec == Init /\ [][Next]_vars

\* Each process goes on while it can: the client reads once a tenth of a second, and
\* the kernel serves those who wait for room in turn.
FairSpec ==
  /\ Spec
  /\ \A c \in Clients : WF_vars(Reads(c)) /\ SF_vars(Writes(c))
  /\ WF_vars(Takes)
  /\ WF_vars(Sends)

-----------------------------------------------------------------------------
\* The server waits for a client to read, and that client for the server to read.
LockedWith(c) ==
  /\ sending # <<>> /\ Head(sending)[1] = c /\ Len(box[c]) = CapC
  /\ todo[c] # <<>> /\ Len(pipe) = CapS

\* The lines of clients who typed as many as m says.
Marks(m) == UNION {{c} \X (1 .. m[c]) : c \in Clients}
Typed == Marks(lines)

\* When server and client do wait for each other, then because somebody has asked to send
\* that client a file, whose parts fill its FIFO, or because more lines have been typed
\* than the FIFO holds.  Never because of the answers the client has asked for itself.
LockHasCause ==
  \A c \in Clients : LockedWith(c) =>
    c \in {To[x] : x \in asked} \/ Cardinality(Typed) > CapC

\* Who writes comes to an end, and reads again, unless server and some client wait for
\* each other: nothing else keeps a line, a request or the parts of a file from the server.
WritersReturn ==
  \A c \in Clients : todo[c] # <<>> ~> todo[c] = <<>> \/ \E d \in Clients : LockedWith(d)
=============================================================================
