------------------------------ MODULE FileRelay ------------------------------
(***************************************************************************)
(* The FILE requests of the server: its table of transfers on top of its   *)
(* table of users.  A transfer points to the users it is between, and      *)
(* nothing takes it out of the table when one of them leaves: the next     *)
(* part goes through a pointer to whatever is in the cell by then.         *)
(*                                                                         *)
(* Requests that neither touch transfers nor change who is registered in a *)
(* way BYEE and FILE do not (BCST, PRVT, LIST, SHUT) are left to Server.   *)
(* A file is its number of parts: serie * 256 >= len exactly if serie is   *)
(* not below it.  The instances have two clients, so that no user is lost  *)
(* (Server counts the cell of a lost user as free).                        *)
(***************************************************************************)
EXTENDS Server

CONSTANTS
  Parts,         \* how many parts a file may have
  MAX_TRANSFER   \* bound of the model: the largest id of a transfer

Transfer == [id : Nat, sender : Addr, receiver : Addr, parts : Parts]

ASSUME RelayAssumption ==
  /\ Parts \subseteq Nat
  /\ MAX_TRANSFER \in Nat
  /\ Freed \notin Transfer

VARIABLES
  transfers,   \* serv->transfers: the pointers in its used slots
  theap,       \* the transfer each allocated cell holds
  deal         \* history: what the last OKOK with an id promised, while its file
               \* is not complete and its receiver is the user it was promised to

relay == <<transfers, theap, deal>>

req_server_FILE_announce(id, parts, nick) ==
  IF id > MAX_NUM THEN NODATA ELSE <<"FILE", 0, id, parts, nick>>
req_server_FILE_transfer(serie, id) == <<"FILE", serie, id>>

-----------------------------------------------------------------------------
(* The table of transfers is searched and numbered by the same loops as the *)
(* table of users (server.c repeats those of user.c).                       *)
Transfers == [Now EXCEPT !.users = transfers, !.heap = theap]

transfer_from_id(id) == user_from_id(Transfers, id)

\* Mutant: every transfer is the first.
get_available_transfer_id_reused == 0

get_available_transfer_id == get_available_id(Transfers)

\* A transfer nothing points to is never freed and never read again.
Holds(table, cells) ==
  /\ transfers' = table
  /\ theap' = [a \in Addr |-> IF a \in Range(table) THEN cells[a] ELSE Freed]

\* The promises that stand after the step, d being those made or kept by it.
Standing(deals) ==
  deal' = [n \in Ids |->
             IF deals[n] # Null /\ heap'[deals[n].receiver] # Freed THEN deals[n] ELSE Null]

KeepsTransfers ==
  /\ IF phase' = "running" THEN UNCHANGED <<transfers, theap>>
     ELSE Holds(<<>>, theap)
  /\ Standing(IF phase' = "running" THEN deal ELSE [n \in Ids |-> Null])

RelayInit ==
  /\ Init
  /\ transfers = <<>>
  /\ theap = [a \in Addr |-> Freed]
  /\ deal = [n \in Ids |-> Null]

-----------------------------------------------------------------------------
\* BADD goes to the sender when the receiver's nick is too long (Null) or unknown,
\* is the sender's own, or the name of the file is not acceptable.
Refusal(id, nick, named) ==
  nick = Null \/ ~named \/ user_from_nick(Now, nick) \in {0, user_from_id(Now, id)}

Unreadable(nick) == nick # Null /\ BadRead(Now, user_from_nick(Now, nick))

RefuseFile(id, nick, named) ==
  /\ From(id,
       /\ Refusal(id, nick, named)
       /\ IF Unreadable(nick) THEN Stops("undefined")
          ELSE Leaves(send_to(Now, Sender(id), req_server_BADD), Idle))
  /\ KeepsTransfers

Announced(id, k, n, parts) ==
  send_to(send_to(Now, users[k],
                  req_server_FILE_announce(n, parts, heap[Sender(id)].nick)),
          Sender(id), req_server_OKOK(n))

\* The cell x gets the transfer, arlist_add's answer is ignored, both sides are told.
\* Either of them may be found gone, and be removed.
AcceptFile(id, nick, parts, x) ==
  LET p == Sender(id)
      k == user_from_nick(Now, nick)
      n == get_available_transfer_id
      cells == [theap EXCEPT ![x] =
                  [id |-> n, sender |-> p, receiver |-> users[k], parts |-> parts]]
      key == [y \in {z \in Addr : cells[z] # Freed} |-> cells[y].id]
      promise == [receiver |-> users[k], path |-> heap[users[k]].path, parts |-> parts]
  IN  /\ theap[x] = Freed
      /\ n <= MAX_TRANSFER
      /\ From(id,
           /\ ~Refusal(id, nick, TRUE)
           /\ IF Unreadable(nick) THEN Stops("undefined")
              ELSE Leaves(Announced(id, k, n, parts), Idle))
      /\ IF phase' = "running"
         THEN /\ Holds(arlist_add(transfers, key, x), cells)
              /\ Standing(IF n \in Ids THEN [deal EXCEPT ![n] = promise] ELSE deal)
         ELSE KeepsTransfers

\* Mutant: the transfer ends one part early.
EndsEarly(serie, parts) == serie + 1 >= parts
Ends(serie, parts) == serie >= parts

\* A part for an unknown transfer changes nothing.  index_of finds the slot by id
\* again: the first transfer with it.
FILE_transfer(serie, n) ==
  LET k == transfer_from_id(n)
      t == theap[transfers[k]]
      ends == Ends(serie, t.parts)
  IN  /\ Request
      /\ k # 0
      /\ IF BadRead(Transfers, k) \/ ~Live(heap, t.receiver)
         THEN Stops("undefined") /\ KeepsTransfers
         ELSE /\ Leaves(send_to(Now, t.receiver, req_server_FILE_transfer(serie, n)), Idle)
              /\ IF phase' = "running" /\ ends
                 THEN /\ Holds(arlist_remove(transfers, k), theap)
                      /\ Standing([deal EXCEPT ![n] = Null])
                 ELSE KeepsTransfers
      /\ UNCHANGED fifo

NoSuchTransfer(n) ==
  /\ Request
  /\ transfer_from_id(n) = 0
  /\ Leaves(Now, Idle)
  /\ KeepsTransfers
  /\ UNCHANGED fifo

\* server_end frees what every slot of both tables points to.
Shutdown ==
  /\ Request
  /\ IF IsInjective(transfers) THEN server_end ELSE Stops("undefined")
  /\ KeepsTransfers
  /\ UNCHANGED fifo

UserStep ==
  /\ \/ \E nick \in Nick \cup BadNick, path \in Path : HELO(nick, path)
     \/ OpenReturns
     \/ Refuse
     \/ \E a \in Addr : Register(a)
     \/ \E id \in Ids : BYEE(id)
     \/ \E path \in Path : Client(path)
  /\ KeepsTransfers

Series == 1 .. MAX_NUM

RelayNext ==
  \/ UserStep
  \/ \E id \in Ids, nick \in Nick \cup {Null}, named \in BOOLEAN : RefuseFile(id, nick, named)
  \/ \E id \in Ids, nick \in Nick, parts \in Parts, x \in Addr : AcceptFile(id, nick, parts, x)
  \/ \E serie \in Series, n \in Ids : FILE_transfer(serie, n)
  \/ \E n \in Ids : NoSuchTransfer(n)
  \/ Shutdown

RelaySpec == RelayInit /\ [][RelayNext]_<<vars, relay>>

-----------------------------------------------------------------------------
\* "Chaque message doit provoquer l'envoi aupres du destinataire": a part sent under
\* the number of an OKOK reaches the user that OKOK was about, if he still reads.
PartsReachReceiver ==
  [][\A n \in Ids, serie \in Series :
       deal[n] # Null /\ (FILE_transfer(serie, n) \/ NoSuchTransfer(n)) =>
         \/ fifo[deal[n].path] # "open"
         \/ \E s \in Series :
              out' = <<[to |-> deal[n].path, data |-> req_server_FILE_transfer(s, n)]>>]_<<vars, relay>>

\* A transfer leaves the table with the last part of its own file, or with one of the
\* users it is between: never with the end of another one, though index_of looks the
\* slot up by the number again and arlist_remove moves the others.
Departs(p) == p \in Online /\ p \notin Online'

OnlyLastPartEnds ==
  [][phase' = "running" =>
       \A x \in Range(transfers) :
         \/ x \in Range(transfers')
         \/ \E serie \in Series : serie >= theap[x].parts /\ FILE_transfer(serie, theap[x].id)
         \/ Departs(theap[x].sender)
         \/ Departs(theap[x].receiver)]_<<vars, relay>>
=============================================================================
