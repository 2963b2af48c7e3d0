-------------------------------- MODULE Chat --------------------------------
(***************************************************************************)
(* The whole system: the server of FileRelay, the clients of Client and    *)
(* the FIFOs between them.  outbox is the content of the FIFO of the       *)
(* server, inbox[c] that of client c's; a client's FIFO is open as long as *)
(* the client runs.  Requests and answers stay in the order they were      *)
(* written, but whoever writes does not wait for what it wrote to be read. *)
(*                                                                         *)
(* FIFOs have room for all that is in them (PipeRoom is about their room), *)
(* and malloc gives the server its first free cell.                        *)
(***************************************************************************)
EXTENDS FileRelay

CONSTANTS
  NoWait, NoNick, File, LongFile, PartsOf,   \* as in Client
  Lines, MaxLines          \* what users type, and bound of the model: how much

VARIABLES
  cl,      \* the clients
  inbox,   \* the content of each client's FIFO
  outbox,  \* the content of the server's FIFO
  from,    \* history: who wrote each request in outbox
  misled   \* history: a request was taken for one of a client that did not write it

chat == <<vars, relay, cl, inbox, outbox, from, misled>>

C == INSTANCE Client WITH Clients <- Path, LongNick <- {}, Packets <- {}, MaxDownloads <- 0

ASSUME ChatAssumption ==
  /\ PartsOf \in [File -> Nat] /\ Parts = Range(PartsOf)
  /\ BadNick = {} /\ Null \notin C!Upload
  /\ Lines \subseteq C!Line

-----------------------------------------------------------------------------
(* The server takes a request and handles it.  What names nobody it knows,  *)
(* or a file by a name it does not accept (ERR_INVALID), changes nothing,   *)
(* and DEBG never does.                                                     *)
Ignored == Request /\ Leaves(Now, Idle) /\ UNCHANGED fifo

Knows(id) == user_from_id(Now, id) # 0

FirstFree(cells) == CHOOSE a \in Addr : cells[a] = Freed

process_FILE(p) ==
  IF Refusal(p[3], p[4], TRUE) THEN RefuseFile(p[3], p[4], TRUE)
  ELSE \E x \in Addr : x = FirstFree(theap) /\ AcceptFile(p[3], p[4], p[5], x)

process_request(p) ==
  CASE p[1] = "FILE" /\ p[2] = 0 /\ p[6] \notin LongFile /\ Knows(p[3]) -> process_FILE(p)
    [] p[1] = "FILE" /\ p[2] # 0 /\ transfer_from_id(p[3]) # 0 -> FILE_transfer(p[2], p[3])
    [] p[1] = "SHUT" -> SHUT(p[2]) /\ KeepsTransfers
    [] p[1] = "HELO" /\ fifo[p[3]] # "absent" -> HELO(p[2], p[3]) /\ KeepsTransfers
    [] p[1] \in {"BYEE", "BCST", "PRVT", "LIST"} /\ Knows(p[2]) ->
         /\ CASE p[1] = "BYEE" -> BYEE(p[2])
              [] p[1] = "BCST" -> BCST(p[2], TRUE)
              [] p[1] = "PRVT" -> PRVT(p[2], p[3], TRUE)
              [] p[1] = "LIST" -> LIST(p[2])
         /\ KeepsTransfers
    [] OTHER -> Ignored /\ KeepsTransfers

\* FILE packets carry on what p carried.
Carried(data, p) == IF data[1] = "FILE" THEN Append(data, p[Len(p)]) ELSE data

\* The FIFO of c, with s in it, after packet w has been written.
Put(s, w, c, p) == IF w.to = c THEN Append(s, Carried(w.data, p)) ELSE s

\* What the step wrote reaches the FIFOs, in the order it was written.
Posted(s, o, c, p) ==
  LET After[k \in 0 .. Len(o)] == IF k = 0 THEN s ELSE Put(After[k - 1], o[k], c, p)
  IN  After[Len(o)]

Delivers(p) == inbox' = [c \in Path |-> Posted(inbox[c], out', c, p)]

IdIn(p) ==
  CASE p[1] = "FILE" /\ p[2] = 0 -> p[3]
    [] p[1] \in {"BYEE", "BCST", "PRVT", "LIST", "SHUT"} -> p[2]
    [] OTHER -> MAX_NUM + 1

Mistakes(p, c) == Knows(IdIn(p)) /\ heap[Sender(IdIn(p))].path # c

Takes ==
  /\ Request
  /\ outbox # <<>>
  /\ process_request(Head(outbox))
  /\ outbox' = Tail(outbox)
  /\ Delivers(Head(outbox))
  /\ from' = Tail(from)
  /\ misled' = (misled \/ Mistakes(Head(outbox), Head(from)))
  /\ UNCHANGED cl

GoesOn ==
  /\ \/ OpenReturns
     \/ Refuse
     \/ \E a \in Addr : a = FirstFree(heap) /\ Register(a)
     \/ Broadcast
     \/ BroadcastEnds
     \/ ListOne
     \/ ListEnds
  /\ KeepsTransfers
  /\ Delivers(<<>>)
  /\ UNCHANGED <<cl, outbox, from, misled>>

ServerStep == Takes \/ GoesOn

-----------------------------------------------------------------------------
(* A client opens its FIFO before it sends anything.  One that ends removes *)
(* it; that of one that crashes stays, without a reader.                    *)
FifoOf(r) ==
  CASE r.phase = "off" -> "absent"
    [] r.phase = "running" -> "open"
    [] r.phase = "exited" -> "absent"
    [] r.phase = "undefined" -> "idle"

Beside(c) ==
  /\ fifo' = [fifo EXCEPT ![c] = FifoOf(cl'[c])]
  /\ out' = <<>>
  /\ from' = from \o [k \in 1 .. Len(outbox') - Len(outbox) |-> c]
  /\ UNCHANGED <<phase, users, heap, pc, req, d, i, u, got, relay, misled>>

ReadsNext(c) == C!Reads(c) /\ Beside(c)

\* Arrow keys touch the history only, and are left to Client.
ClientStep(c) == (C!Start(c) \/ C!Reads(c) \/ C!Types(c) \/ C!CtrlD(c)) /\ Beside(c)

ChatInit == RelayInit /\ C!Init /\ from = <<>> /\ misled = FALSE

ChatNext == ServerStep \/ \E c \in Path : ClientStep(c)

ChatSpec == ChatInit /\ [][ChatNext]_chat

\* The server goes on while it can, and wgetch gives up after a tenth of a second
\* (halfdelay), so that a client always comes back to its FIFO.
ServerCan ==
  CASE pc = "idle" -> Request /\ outbox # <<>>
    [] pc = "opening" -> fifo[req[2]] = "open"
    [] OTHER -> TRUE
ServerFair == []<>~ServerCan \/ []<><<ServerStep>>_chat

ChatLive == ChatSpec /\ ServerFair /\ \A c \in Path : WF_chat(ReadsNext(c))

-----------------------------------------------------------------------------
Hasty(c) == "hasty" \in cl[c].blame

Connected(c) == cl[c].phase = "running" /\ cl[c].has_id

Registered(c, id, nick) ==
  \E p \in Online : heap[p] = [id |-> id, nick |-> nick, path |-> c]

\* A client that believes it is connected is registered under its id and the nick it
\* shows, until the BYEE that ends it is on its way: if it waited for the answer to
\* its first /nick.
SessionAgrees ==
  phase = "running" =>
    \A c \in Path : Connected(c) /\ ~Hasty(c) =>
      \/ Registered(c, cl[c].id, cl[c].nick)
      \/ Contains(inbox[c], <<"BYEE", cl[c].id>>)

\* Two answers in a row never swap: OKOK and BADD have no field saying what they
\* answer, yet no client gets one it does not wait for, and none crashes but for what it
\* typed or received: unless an id has gone from a client with requests still in the FIFO
\* to another one.
AnswersAreAsked ==
  ~misled => \A c \in Path :
    /\ "unasked" \notin cl[c].blame
    /\ cl[c].phase = "undefined" => cl[c].blame \cap (C!Causes \ {"unasked"}) # {}

\* A file somebody received is the file somebody sent: all its parts, once and in
\* order, though the files of several senders alternate and their numbers are used
\* again; as long as every part could be written.
FilesWhole ==
  ~misled /\ (\A c \in Path : ~Hasty(c) /\ "lost part" \notin cl[c].blame) =>
    \A c \in Path : \A f \in cl[c].files :
      f.got = [k \in 1 .. PartsOf[f.file] |-> <<f.file, k>>]

\* The list /who collects is complete when the server is done with it: nothing is
\* left over that the next list would begin with.
RosterCompletes ==
  \A c \in Path :
    Connected(c) /\ phase = "running" /\ pc = "idle" /\ inbox[c] = <<>> => cl[c].roster = <<>>

\* What the server cannot say: a number above MAX_NUM, of a user or of a transfer, makes
\* OKOK an empty packet; nor does it answer a file whose name is too long.
Unanswerable(c) ==
  \/ "long name" \in cl[c].blame
  \/ \E p \in Online : heap[p].path = c /\ heap[p].id > MAX_NUM
  \/ \E x \in Range(transfers) :
       theap[x].id > MAX_NUM /\ Live(heap, theap[x].sender) /\ heap[theap[x].sender].path = c

\* A HELO or FILE request is answered, unless the answer is one the server cannot give,
\* one of the two ends, or the server waits in open for a reader of a FIFO.
AnswersCome ==
  \A c \in Path :
    cl[c].waiting > 0 ~>
      \/ cl[c].waiting = 0
      \/ Unanswerable(c)
      \/ cl[c].phase # "running"
      \/ phase # "running"
      \/ pc = "opening" /\ fifo[req[2]] # "open"
=============================================================================
