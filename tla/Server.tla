------------------------------- MODULE Server -------------------------------
(***************************************************************************)
(* The server process of src/server: one thread that reads one request at  *)
(* a time from its FIFO, looks its sender up in the table of users, writes *)
(* answers into the FIFOs of the clients and drops the users whose FIFO    *)
(* has no reader left.  Requests of any kind and any id may arrive.        *)
(*                                                                         *)
(* users is the arlist of pointers, heap what they point to.  Every scan   *)
(* of the table reads the users in order, so what a handler does when it   *)
(* meets a pointer to freed memory (or one whose bytes were mixed from two *)
(* pointers) depends on what it found before it; reading through such a    *)
(* pointer is undefined behaviour and leads to the phase "undefined", of   *)
(* which nothing more is said.                                             *)
(*                                                                         *)
(* Writes do not block in this module, and FILE requests are not in it.    *)
(***************************************************************************)
EXTENDS ArrayList

CONSTANTS
  Addr,        \* the heap cells malloc can give to user_create
  Path,        \* where clients make their FIFOs
  Nick,        \* acceptable nicks
  BadNick,     \* what HELO refuses at once: too long (NULL), empty, "SERVER"
  MAX_NUM,     \* the largest number a packet can carry (packet.h)
  MAX_USERS,   \* the largest id handed out (user.h)
  Null,        \* C's NULL
  Freed        \* the content of a cell that is not allocated

User == [id : 0 .. MAX_USERS, nick : Nick, path : Path]

ASSUME ServerAssumption ==
  /\ Addr \subseteq Ptr
  /\ Null \notin Ptr
  /\ Freed \notin User
  /\ Nick \cap BadNick = {}
  /\ MAX_NUM \in Nat
  /\ MAX_USERS \in Nat

VARIABLES
  phase,   \* "running", "exited" (after server_end) or "undefined"
  users,   \* serv->users: the pointers in its used slots
  heap,    \* the user each allocated cell holds
  fifo,    \* per path: "absent", "idle" (nobody has it open for reading), "open"
  pc,      \* where the server process is: between requests or inside a handler
  req,     \* <<nick, path>> of the HELO being served, <<>> otherwise
  d,       \* the packet the current broadcast writes
  i,       \* the slot the current loop over the table is at, 0 outside loops
  u,       \* the user LIST answers to
  got,     \* the users the current broadcast has written to
  out      \* what the last step wrote: packets and the paths they went to

vars == <<phase, users, heap, fifo, pc, req, d, i, u, got, out>>

-----------------------------------------------------------------------------
(* Packets (server/request.c).  A builder whose number does not fit in four *)
(* digits, or whose text does not fit in the buffer, returns NODATA, and    *)
(* writing NODATA writes zero bytes: it neither delivers nor fails.         *)
NODATA == <<>>

Numbered(type, n) == IF n > MAX_NUM THEN NODATA ELSE <<type, n>>

req_server_OKOK(id)      == Numbered("OKOK", id)
req_server_BADD          == <<"BADD">>
req_server_BYEE(id)      == Numbered("BYEE", id)
req_server_BCST(nick, fits) == IF fits THEN <<"BCST", nick>> ELSE NODATA
req_server_PRVT(nick, fits) == IF fits THEN <<"PRVT", nick>> ELSE NODATA
req_server_LIST(n, nick) == <<"LIST", n, nick>>
req_server_SHUT(nick)    == IF nick = Null THEN NODATA ELSE <<"SHUT", nick>>

Packet ==
  {NODATA, req_server_BADD}
    \cup ({"OKOK", "BYEE"} \X (0 .. MAX_NUM))
    \cup ({"BCST", "PRVT", "SHUT"} \X (Nick \cup {"SERVER"}))
    \cup ({"LIST"} \X Nat \X Nick)
    \cup ({"FILE"} \X Nat \X Nat) \cup ({"FILE"} \X {0} \X Nat \X Nat \X Nick)  \* FileRelay

-----------------------------------------------------------------------------
(* The table (server/user.c).  A handler works on a record t of the table   *)
(* and the heap, of the packets written, and of whether it has read through *)
(* a pointer that does not point to a user.                                 *)
Now == [users |-> users, heap |-> heap, out |-> <<>>, bad |-> FALSE]

Live(h, p) == p \in Addr /\ h[p] # Freed

\* The slot where a scan of the table stops: at the first user with the property,
\* or at the first pointer that cannot be read; 0 if it reaches the end.
Scan(t, Hit(_)) ==
  SelectInSeq(t.users, LAMBDA p : ~Live(t.heap, p) \/ Hit(t.heap[p]))

user_from_id(t, id)       == Scan(t, LAMBDA r : r.id = id)
user_from_nick(t, nick)   == Scan(t, LAMBDA r : r.nick = nick)

\* Mutants: only one of the two is compared.
nick_conflict(t, nick, path) == Scan(t, LAMBDA r : r.nick = nick)
path_conflict(t, nick, path) == Scan(t, LAMBDA r : r.path = path)

cred_conflict(t, nick, path) == Scan(t, LAMBDA r : r.nick = nick \/ r.path = path)

\* A scan that stopped at slot k read through a bad pointer there.
BadRead(t, k) == k # 0 /\ ~Live(t.heap, t.users[k])

\* Mutant: the number after the last one is not incremented.
get_available_id_taken(t) ==
  IF t.users = <<>> THEN 0 ELSE t.heap[t.users[Len(t.users)]].id

\* e1 never advances, so every entry is compared with the first one.
get_available_id(t) ==
  LET id(k) == t.heap[t.users[k]].id
  IN  IF t.users = <<>> THEN 0
      ELSE IF \A k \in 2 .. Len(t.users) : id(k) = id(1) + 1
           THEN id(Len(t.users)) + 1
           ELSE id(1) + 1

\* Mutant: the cell is freed and its slot stays.
remove_user_keeps_slot(t, p) == [t EXCEPT !.heap[p] = Freed]

\* index_of compares ids, so the slot removed is the first one with the id of p,
\* while the cell freed is p itself.
remove_user(t, p) ==
  LET k == user_from_id(t, t.heap[p].id)
  IN  IF BadRead(t, k) THEN [t EXCEPT !.bad = TRUE]
      ELSE [t EXCEPT !.users = arlist_remove(@, k), !.heap[p] = Freed]

ClosedPipe(t, p) == fifo[t.heap[p].path] # "open"

\* Mutants: EPIPE is ignored; a write of zero bytes counts as a failure.
send_to_ignoring_EPIPE(t, p, data) ==
  IF data = NODATA \/ ClosedPipe(t, p) THEN t
  ELSE [t EXCEPT !.out = Append(@, [to |-> t.heap[p].path, data |-> data])]
send_to_removing_on_zero(t, p, data) ==
  IF data = NODATA \/ ClosedPipe(t, p) THEN remove_user(t, p)
  ELSE [t EXCEPT !.out = Append(@, [to |-> t.heap[p].path, data |-> data])]

send_to(t, p, data) ==
  IF data = NODATA THEN t
  ELSE IF ClosedPipe(t, p) THEN remove_user(t, p)
  ELSE [t EXCEPT !.out = Append(@, [to |-> t.heap[p].path, data |-> data])]

\* A cell no slot points to any more (arlist_remove loses pointers) is never freed
\* by the program and never read either: it counts as free.
Collected(t) ==
  [a \in Addr |-> IF a \in Range(t.users) THEN t.heap[a] ELSE Freed]

-----------------------------------------------------------------------------
Idle == pc' = "idle" /\ req' = <<>> /\ d' = NODATA /\ i' = 0 /\ u' = Null /\ got' = {}

Stops(how) ==
  /\ phase' = how
  /\ users' = <<>>
  /\ heap' = [a \in Addr |-> Freed]
  /\ out' = <<>>
  /\ Idle

\* The step leaves the table as in t, unless it read through a bad pointer; Goto
\* says where the server process is afterwards.
Leaves(t, Goto) ==
  IF t.bad THEN Stops("undefined")
  ELSE /\ users' = t.users
       /\ heap' = Collected(t)
       /\ out' = t.out
       /\ Goto
       /\ UNCHANGED phase

\* server_end: arlist_destroy frees what every slot points to, each cell once if
\* the slots are distinct.
server_end ==
  IF /\ IsInjective(users)
     /\ \A k \in DOMAIN users : Live(heap, users[k])
  THEN Stops("exited")
  ELSE Stops("undefined")

Init ==
  /\ phase = "running"
  /\ users = <<>>
  /\ heap = [a \in Addr |-> Freed]
  /\ fifo = [p \in Path |-> "absent"]
  /\ pc = "idle"
  /\ req = <<>>
  /\ d = NODATA
  /\ i = 0
  /\ u = Null
  /\ got = {}
  /\ out = <<>>

-----------------------------------------------------------------------------
(* pro_client_HELO.  open(path, O_WRONLY) fails at once when there is no    *)
(* FIFO (no answer, nothing changes: no action) and waits for a reader when *)
(* nobody has the FIFO open.                                                *)
Request == phase = "running" /\ pc = "idle"

HELO(nick, path) ==
  /\ Request
  /\ fifo[path] # "absent"
  /\ pc' = "opening"
  /\ req' = <<nick, path>>
  /\ out' = <<>>
  /\ UNCHANGED <<phase, users, heap, fifo, d, i, u, got>>

OpenReturns ==
  /\ pc = "opening"
  /\ fifo[req[2]] = "open"
  /\ pc' = "opened"
  /\ out' = <<>>
  /\ UNCHANGED <<phase, users, heap, fifo, req, d, i, u, got>>

\* Mutant: a refusal is not answered.
RefusedSilently == Now

\* BADD and the reason go straight to the FIFO: a failure to write them is ignored.
Refused ==
  LET To(data) == [to |-> req[2], data |-> data]
  IN  [Now EXCEPT !.out =
         IF fifo[req[2]] = "open"
         THEN <<To(req_server_BADD), To(req_server_BCST("SERVER", TRUE))>>
         ELSE <<>>]

\* user_create, arlist_add (whose result is ignored) and send_to, with cell a.
Added(a, id) ==
  LET h == [heap EXCEPT ![a] = [id |-> id, nick |-> req[1], path |-> req[2]]]
      key == [p \in {q \in Addr : h[q] # Freed} |-> h[p].id]
      t == [Now EXCEPT !.users = arlist_add(@, key, a), !.heap = h]
  IN  send_to(t, a, req_server_OKOK(id))

Refuse ==
  LET k == cred_conflict(Now, req[1], req[2])
  IN  /\ pc = "opened"
      /\ \/ req[1] \in BadNick
         \/ k # 0
         \/ k = 0 /\ get_available_id(Now) > MAX_USERS
      /\ IF req[1] \notin BadNick /\ BadRead(Now, k)
         THEN Stops("undefined")
         ELSE Leaves(Refused, Idle)
      /\ UNCHANGED fifo

\* Mutant: no limit on ids.
RegisterAnyId(a) ==
  /\ pc = "opened"
  /\ heap[a] = Freed
  /\ req[1] \notin BadNick
  /\ cred_conflict(Now, req[1], req[2]) = 0
  /\ Leaves(Added(a, get_available_id(Now)), Idle)
  /\ UNCHANGED fifo

Register(a) ==
  /\ pc = "opened"
  /\ heap[a] = Freed
  /\ req[1] \notin BadNick
  /\ cred_conflict(Now, req[1], req[2]) = 0
  /\ get_available_id(Now) <= MAX_USERS
  /\ Leaves(Added(a, get_available_id(Now)), Idle)
  /\ UNCHANGED fifo

-----------------------------------------------------------------------------
(* Requests with an id.  A request from an unknown id changes nothing.      *)
Ids == 0 .. MAX_NUM

Sender(id) == users[user_from_id(Now, id)]

From(id, Handler) ==
  LET k == user_from_id(Now, id)
  IN  /\ Request
      /\ k # 0
      /\ IF BadRead(Now, k) THEN Stops("undefined") ELSE Handler
      /\ UNCHANGED fifo

\* Mutant: the answer, without the removal.
ByeeKeepsUser(id, p) == send_to(Now, p, req_server_BYEE(id))

\* send_to may already have removed the sender; whoever has the id then is removed.
Byee(id, p) ==
  LET t == send_to(Now, p, req_server_BYEE(id))
      k == user_from_id(t, id)
  IN  IF t.bad \/ k = 0 THEN t
      ELSE IF BadRead(t, k) THEN [t EXCEPT !.bad = TRUE]
      ELSE remove_user(t, t.users[k])

BYEE(id) == From(id, Leaves(Byee(id, Sender(id)), Idle))

StartBroadcast(how, packet) ==
  /\ pc' = how
  /\ d' = packet
  /\ i' = 1
  /\ got' = {}
  /\ UNCHANGED <<req, u>>

BCST(id, fits) ==
  From(id, Leaves(Now,
    StartBroadcast("BCST", req_server_BCST(heap[Sender(id)].nick, fits))))

\* Both lookups come first; one for an unknown sender has read every pointer.
PRVT(id, nick, fits) ==
  LET p == Sender(id)
      k == user_from_nick(Now, nick)
  IN  From(id,
        IF BadRead(Now, k) THEN Stops("undefined")
        ELSE Leaves(IF k # 0
                    THEN send_to(Now, users[k], req_server_PRVT(heap[p].nick, fits))
                    ELSE send_to(Now, p, req_server_BCST("SERVER", TRUE)),
                    Idle))

LIST(id) ==
  From(id, Leaves(Now,
    pc' = "LIST" /\ i' = 1 /\ u' = Sender(id) /\ UNCHANGED <<req, d, got>>))

\* SHUT is honoured from any id, one that is not a number included; without a
\* nick its packet is NODATA.
SHUT(id) ==
  LET k == user_from_id(Now, id)
  IN  /\ Request
      /\ IF BadRead(Now, k) THEN Stops("undefined")
         ELSE Leaves(Now, StartBroadcast("SHUT",
                req_server_SHUT(IF k = 0 THEN Null ELSE heap[users[k]].nick)))
      /\ UNCHANGED fifo

\* A header below 4, or a failing read, makes read_packet return -1: the main loop
\* ends and the program with it.
ReadFails ==
  /\ Request
  /\ server_end
  /\ UNCHANGED fifo

-----------------------------------------------------------------------------
(* The loops over the table, one iteration a step: between two iterations   *)
(* clients may open and close their FIFOs.                                  *)
Broadcasting == pc \in {"BCST", "SHUT"}

\* Mutants: no step back over a removed user; a step back on a write of zero bytes.
BroadcastSkipping ==
  /\ Broadcasting
  /\ i \in DOMAIN users
  /\ LET p == users[i]
     IN  IF ~Live(heap, p) THEN Stops("undefined")
         ELSE Leaves(send_to(Now, p, d),
                /\ i' = i + 1
                /\ got' = IF d # NODATA /\ ClosedPipe(Now, p) THEN got ELSE got \cup {p}
                /\ UNCHANGED <<pc, req, d, u>>)
  /\ UNCHANGED fifo
BroadcastStepsBackOnZero ==
  /\ Broadcasting
  /\ i \in DOMAIN users
  /\ LET p == users[i]
     IN  IF ~Live(heap, p) THEN Stops("undefined")
         ELSE Leaves(send_to(Now, p, d),
                /\ IF d = NODATA \/ ClosedPipe(Now, p)
                   THEN UNCHANGED <<i, got>>
                   ELSE i' = i + 1 /\ got' = got \cup {p}
                /\ UNCHANGED <<pc, req, d, u>>)
  /\ UNCHANGED fifo

Broadcast ==
  /\ Broadcasting
  /\ i \in DOMAIN users
  /\ LET p == users[i]
     IN  IF ~Live(heap, p) THEN Stops("undefined")
         ELSE Leaves(send_to(Now, p, d),
                /\ IF d # NODATA /\ ClosedPipe(Now, p)
                   THEN UNCHANGED <<i, got>>
                   ELSE i' = i + 1 /\ got' = got \cup {p}
                /\ UNCHANGED <<pc, req, d, u>>)
  /\ UNCHANGED fifo

BroadcastEnds ==
  /\ Broadcasting
  /\ i \notin DOMAIN users
  /\ IF pc = "SHUT" THEN server_end ELSE Leaves(Now, Idle)
  /\ UNCHANGED fifo

\* An earlier iteration may have freed u.
ListOne ==
  /\ pc = "LIST"
  /\ i \in DOMAIN users
  /\ LET cl == users[i]
         packet == req_server_LIST(Len(users), heap[cl].nick)
     IN  IF ~Live(heap, cl) \/ ~Live(heap, u) THEN Stops("undefined")
         ELSE Leaves(send_to(Now, u, packet), i' = i + 1 /\ UNCHANGED <<pc, req, d, u, got>>)
  /\ UNCHANGED fifo

ListEnds ==
  /\ pc = "LIST"
  /\ i \notin DOMAIN users
  /\ Leaves(Now, Idle)
  /\ UNCHANGED fifo

-----------------------------------------------------------------------------
(* What the clients do with their FIFOs: make one, read from it, stop (by   *)
(* leaving or by crashing) and remove it.  Bound of the model: a path is    *)
(* used for a new FIFO only when the server no longer holds the old one.    *)
Fifo(path, from, to) ==
  /\ fifo[path] = from
  /\ fifo' = [fifo EXCEPT ![path] = to]
  /\ out' = <<>>
  /\ UNCHANGED <<phase, users, heap, pc, req, d, i, u, got>>

MakeFifo(path) ==
  /\ \A a \in Addr : heap[a] # Freed => heap[a].path # path
  /\ req # <<>> => req[2] # path
  /\ Fifo(path, "absent", "idle")

StartReading(path) == Fifo(path, "idle", "open")
StopReading(path)  == Fifo(path, "open", "idle")
Unlink(path)       == Fifo(path, "idle", "absent")

Client(path) ==
  MakeFifo(path) \/ StartReading(path) \/ StopReading(path) \/ Unlink(path)

Receive ==
  \/ \E nick \in Nick \cup BadNick, path \in Path : HELO(nick, path)
  \/ \E id \in Ids : BYEE(id)
  \/ \E id \in Ids, fits \in BOOLEAN : BCST(id, fits)
  \/ \E id \in Ids, nick \in Nick, fits \in BOOLEAN : PRVT(id, nick, fits)
  \/ \E id \in Ids : LIST(id)
  \/ \E id \in 0 .. MAX_NUM + 1 : SHUT(id)
  \/ ReadFails

Serve ==
  \/ OpenReturns
  \/ Refuse
  \/ \E a \in Addr : Register(a)
  \/ Broadcast
  \/ BroadcastEnds
  \/ ListOne
  \/ ListEnds

Next == Receive \/ Serve \/ \E path \in Path : Client(path)

\* The server process keeps running: a handler that can go on does.
Spec == Init /\ [][Next]_vars /\ WF_vars(Serve)

-----------------------------------------------------------------------------
\* The table holds pointers, allocated cells hold users, and a handler's local
\* state is there exactly while the handler runs.
TypeOK ==
  /\ phase \in {"running", "exited", "undefined"}
  /\ users \in Seq(Ptr)
  /\ heap \in [Addr -> User \cup {Freed}]
  /\ fifo \in [Path -> {"absent", "idle", "open"}]
  /\ pc \in {"idle", "opening", "opened", "BCST", "SHUT", "LIST"}
  /\ req \in {<<>>} \cup ((Nick \cup BadNick) \X Path)
  /\ (req # <<>>) <=> (pc \in {"opening", "opened"})
  /\ d \in Packet
  /\ i \in 0 .. 4
  /\ u \in Addr \cup {Null}
  /\ got \subseteq Addr
  /\ out \in Seq([to : Path, data : Packet])

\* The users the table can reach.
Online == {p \in Range(users) : Live(heap, p)}

\* Ids come from get_available_id, whose scan does not advance, and arlist_add
\* refuses an id that is taken: together they never let a fourth user in, whatever
\* users joined, left or were lost before, far below the MAX_USERS of user.h.
AtMostThree == Len(users) <= 3

\* Two users the table reaches differ in id, nick and FIFO, although arlist_add
\* pushes behind a smaller tail without looking for an equal id.
DistinctUsers ==
  \A p, q \in Online : p # q =>
    /\ heap[p].id # heap[q].id
    /\ heap[p].nick # heap[q].nick
    /\ heap[p].path # heap[q].path

\* arlist_add and index_of rely on the order of ids, which removals that copy
\* some slots and not others keep, as long as users lie within 16 MiB: bytes of pointers
\* that also differ above that may make up the pointer of a third user.
InOrder ==
  \A j, k \in DOMAIN users :
    j < k /\ {users[j], users[k]} \subseteq Online
      => heap[users[j]].id <= heap[users[k]].id

\* broadcast() steps its index back over a user it removes: every user in a slot
\* the loop has passed has been written to, whoever went away meanwhile.
BroadcastMissesNobody ==
  Broadcasting => \A k \in DOMAIN users : k < i => users[k] \in got

\* A user who said BYEE is out of reach of every later lookup by that id, also when
\* the answer to BYEE found the FIFO closed and removed the user first.
ByeeForgets ==
  [][\A id \in Ids : BYEE(id) => \A p \in Online' : heap'[p].id # id]_vars

-----------------------------------------------------------------------------
(* The promise: the abstract sessions are the users the table reaches.  The  *)
(* phase is the server's own, so that "undefined" is no state of Sessions.   *)
TheSessions == {heap[p] : p \in Online}

\* The FIFOs the last step wrote a packet of this type to, and the number in it.
Numbers(type) ==
  {<<out[k].to, out[k].data[2]>> : k \in {j \in DOMAIN out : out[j].data[1] = type}}

Promise == INSTANCE Sessions WITH
  sessions <- TheSessions,
  reading <- {p \in Path : fifo[p] = "open"},
  welcomed <- Numbers("OKOK"),
  dismissed <- Numbers("BYEE")

\* With two clients the server keeps the promise: it never reads through a bad pointer;
\* who stops reading loses the session or keeps it, but who reads keeps it until BYEE is
\* answered; and nobody is told of a session that is not there.
KeepsPromise == Promise!Spec

\* No handler reads freed memory and server_end frees no user twice.
NeverUndefined == phase # "undefined"

\* OKOK tells a client the id under which the server will find it.
OkokMeansRegistered ==
  \A k \in DOMAIN out : out[k].data[1] = "OKOK" =>
    \E p \in Online : heap[p].path = out[k].to /\ heap[p].id = out[k].data[2]

\* broadcast() and send_to() remove a user on a "closed pipe" (user.c:125): as long
\* as the server runs, a user leaves the table only with its FIFO closed or by BYEE.
OnlyClosedPipesLeave ==
  [][phase' = "running" =>
       \A p \in Online : p \in Online' \/ ClosedPipe(Now, p) \/ BYEE(heap[p].id)]_vars

\* What a removal costs others: arlist_remove takes a second user with it, or another one
\* than the one that was meant, only from a table of three, or of two whose pointers
\* differ above their two lowest bytes; from any other, left by whatever removals, a user
\* goes with its FIFO closed or by BYEE only.
Near == \A p, q \in Range(users) : \A b \in 2 .. PtrSize - 1 : p[b] = q[b]

FewLoseNobody ==
  [][phase' = "running" /\ Len(users) < 3 /\ Near =>
       \A p \in Online : p \in Online' \/ ClosedPipe(Now, p) \/ BYEE(heap[p].id)]_vars

\* The loops over the table shorten it or advance at every iteration, so that the
\* server comes back to its FIFO (or stops) while clients come and go.
HandlersEnd == pc \in {"opened", "BCST", "SHUT", "LIST"} ~> pc = "idle"

\* No list of the dead is kept: a client that crashed is found out when something is
\* written to it.  Broadcasts that keep coming evict every client that no longer
\* reads its FIFO, and free its nick.
ClosedClientsAreEvicted ==
  \A path \in Path :
    /\ <>[](fifo[path] # "open")
    /\ []<>(pc = "BCST" /\ d # NODATA)
    => <>[](\A p \in Online : heap[p].path # path)
=============================================================================
