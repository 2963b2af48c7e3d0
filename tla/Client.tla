------------------------------- MODULE Client -------------------------------
(***************************************************************************)
(* The client processes of src/client: a loop that waits for a key, takes  *)
(* one packet from the client's own FIFO and handles the key.  A key may   *)
(* complete a line, which is a command or a message; requests go to the    *)
(* FIFO of the server in one write each.                                   *)
(*                                                                         *)
(* A client is a record; a handler maps it to the record it leaves, with   *)
(* what it wrote to the server in sent.  Reading through a pointer that is *)
(* NULL, to a transfer that has been destroyed or made of the bytes of two *)
(* others is undefined behaviour, and so is reading or writing past a      *)
(* buffer: the client is then "undefined", and of it no more is said.      *)
(*                                                                         *)
(* Drawing is left out.  The texts of messages, the reasons of a BADD and  *)
(* the lines that only make the client print are one kind of line each.    *)
(* The transfers of a client lie in one 64 KiB region of its heap.         *)
(***************************************************************************)
EXTENDS Integers, Sequences, SequencesExt

CONSTANTS
  Clients,    \* the client processes; a client's FIFO is named after it
  NoWait,     \* whether -M is given: the values an instance tries
  Nick,       \* nicks one may type
  LongNick,   \* those longer than NICK_MAX_LENGTH
  NoNick,     \* the empty string
  File,       \* files one may send
  LongFile,   \* those whose name is longer than FILE_MAX_LENGTH
  PartsOf,    \* how many parts of 256 bytes each has
  MAX_NUM,    \* the largest number a packet can carry (packet.h)
  Null,       \* C's NULL
  Lines,      \* the lines users type in an instance
  MaxLines,   \* bound of the model: how many of them
  Packets,    \* what a server may send in an instance of this module alone
  MaxDownloads  \* bound of such an instance: how many files arrive at once

Upload == [id : 0 .. MAX_NUM, file : File, destroyed : BOOLEAN]

\* A file that arrives: got is what it holds so far, a part is a file and its place in it.
Download == [id : 0 .. MAX_NUM, series : Nat, parts : 0 .. MAX_NUM, file : File,
             got : Seq(File \X Nat)]

ASSUME ClientAssumption ==
  /\ Null \notin Nick \cup Upload \cup Download /\ NoNick \notin Nick
  /\ NoWait \subseteq BOOLEAN /\ LongFile \subseteq File
  /\ PartsOf \in [File -> Nat]
  /\ MAX_NUM \in Nat /\ MaxDownloads \in Nat

VARIABLES
  cl,      \* the record of each client
  inbox,   \* what each client has not yet read from its FIFO
  outbox   \* what the server has not yet read from its own

session == <<cl, inbox, outbox>>

\* Mutant: the id is 0 until the server gives one.
client_init_zero ==
  [phase |-> "off", no_wait |-> FALSE, has_id |-> FALSE, id |-> 0, nick |-> Null,
   last_prvt |-> NoNick, upload |-> Null, downloads |-> <<>>,
   hist |-> 0, current_hist |-> 0, roster |-> <<>>,
   sent |-> <<>>, waiting |-> 0, bye |-> FALSE, blame |-> {}, files |-> {}]

\* The state a client_init leaves, before the FIFOs are open.  history is as long as
\* hist lines; roster is the list tui_add_user collects.  Histories of the model:
\* waiting counts the HELO and FILE requests that have no answer, bye says whether a
\* BYEE has been sent, blame says what has happened that the client is not made for, files is
\* what it has received.
client_init ==
  [phase |-> "off", no_wait |-> FALSE, has_id |-> FALSE, id |-> MAX_NUM + 1, nick |-> Null,
   last_prvt |-> NoNick, upload |-> Null, downloads |-> <<>>,
   hist |-> 0, current_hist |-> 0, roster |-> <<>>,
   sent |-> <<>>, waiting |-> 0, bye |-> FALSE, blame |-> {}, files |-> {}]

-----------------------------------------------------------------------------
(* Requests (request.c).  An id above MAX_NUM makes the builder return      *)
(* NODATA, and nothing is written.                                          *)
Writes(r, packet) ==
  [r EXCEPT !.sent = Append(@, packet),
            !.bye = @ \/ packet[1] = "BYEE"]

WritesAs(r, type, rest) ==
  IF r.id > MAX_NUM THEN r ELSE Writes(r, <<type, r.id>> \o rest)

req_client_HELO(r, self) == Writes(r, <<"HELO", r.nick, self>>)

\* A request that is answered by OKOK or BADD.
Asks(r) ==
  [r EXCEPT !.waiting = @ + 1,
            !.blame = IF r.waiting > 0 THEN @ \cup {"hasty"} ELSE @]

\* client_end and exit.
Exits(r) == [r EXCEPT !.phase = "exited"]

Crashes(r) == [r EXCEPT !.phase = "undefined"]

\* The things a client is not made for that end in undefined behaviour.
Causes ==
  {"unasked", "hasty", "no nick", "long nick", "full line", "behind", "third"}

CrashesBy(r, cause) == Crashes([r EXCEPT !.blame = @ \cup {cause}])

\* With -M a message is compared with the client's nick, or shown with it, before it has
\* one too.
UsesNick(r) == IF r.no_wait /\ r.nick = Null THEN CrashesBy(r, "no nick") ELSE r

-----------------------------------------------------------------------------
(* Transfers (client.c, process.c).                                         *)
destroy_upload(r) ==
  IF r.upload = Null \/ r.upload.destroyed THEN Crashes(r)
  ELSE [r EXCEPT !.upload.destroyed = TRUE]

\* All parts are written before the client reads anything.
send_file(r) ==
  LET t == r.upload
      Part(k) == <<"FILE", k, t.id, <<t.file, k>>>>
  IN  destroy_upload([r EXCEPT !.sent = @ \o [k \in 1 .. PartsOf[t.file] |-> Part(k)]])

\* downloads holds pointers: equal elements are the same transfer, and Null stands for a
\* pointer that cannot be read.  A search stops there.
transfer_from_id(r, id) == SelectInSeq(r.downloads, LAMBDA t : t = Null \/ t.id = id)

\* The first download of a list that does not go before t.
NotBefore(s, t) == SelectInSeq(s, LAMBDA x : x = Null \/ x.id >= t.id)

\* arlist_add in front of slot k: memmove gets Len(s) - k BYTES, none if k is the last slot;
\* one byte makes the next slot either of the two pointers or one of neither, and more
\* than one the pointer of slot k.
Inserted(s, k, t) ==
  LET Moved(x) == Append([s EXCEPT ![k] = t, ![k + 1] = x], Last(s))
  IN  CASE k = Len(s)     -> {InsertAt(s, k, t)}
        [] k = Len(s) - 1 -> {Moved(x) : x \in {s[k], s[k + 1], Null}}
        [] OTHER          -> {Moved(s[k])}

\* arlist_remove: memmove gets Len(s) - k + 1 BYTES, which bring the next pointer into slot
\* k (those of one region differ in two bytes at most) and leave the others where they are,
\* as long as there are no more of them than the bytes of a pointer.
Removed(s, k) == IF k = Len(s) THEN Front(s) ELSE Front([s EXCEPT ![k] = s[k + 1]])

\* Three downloads make both inexact.
Inexact(r) == [r EXCEPT !.blame = @ \cup {"third"}]

\* Mutant: the id is not compared with those of the list.
EnlistedAnyway(r, t) ==
  LET s == r.downloads
      k == NotBefore(s, t)
  IN  IF k = 0 THEN {[r EXCEPT !.downloads = Append(s, t)]}
      ELSE {[r EXCEPT !.downloads = l] : l \in Inserted(s, k, t)}

\* arlist_add with compare_transfers: behind a smaller last download without a search; a
\* download with an id that is taken is refused and lost.
Enlisted(r, t) ==
  LET s == r.downloads
      k == NotBefore(s, t)
      Holding(l) == [r EXCEPT !.downloads = l]
  IN  CASE s = <<>> -> {Holding(<<t>>)}
        [] s # <<>> /\ Last(s) = Null -> {Crashes(r)}
        [] s # <<>> /\ Last(s) # Null /\ Last(s).id < t.id -> {Holding(Append(s, t))}
        [] OTHER ->
             CASE s[k] = Null -> {Crashes(r)}
               [] s[k] # Null /\ s[k].id = t.id -> {r}
               [] OTHER -> {IF k = Len(s) THEN Holding(l) ELSE Inexact(Holding(l)) :
                              l \in Inserted(s, k, t)}

Received(r, t) == [r EXCEPT !.files = @ \cup {[file |-> t.file, got |-> t.got]}]

\* The pointers to the transfer of slot k, when it has become t.
Becomes(s, k, t) == [j \in DOMAIN s |-> IF s[j] = s[k] THEN t ELSE s[j]]

\* The transfer is freed first and its id compared afterwards.  In its own slot it is
\* found, whatever is read; what is read may also be the id of a download in an earlier
\* slot, which is then taken out while the freed one stays.
EndsDownload(r, k) ==
  LET s == r.downloads
      left == [r EXCEPT !.downloads = Removed(Becomes(s, k, Null), k)]
  IN  {IF k < Len(s) - 1 THEN Inexact(left) ELSE left}
        \cup (IF k > 1 THEN {CrashesBy(r, "behind")} ELSE {})

-----------------------------------------------------------------------------
(* Packets from the server (recept.c, process.c): the set of records the    *)
(* client may be left with.                                                 *)
Answered(r) ==
  IF r.waiting = 0 THEN [r EXCEPT !.blame = @ \cup {"unasked"}]
  ELSE [r EXCEPT !.waiting = @ - 1]

\* OKOK is about the connection until there is an id, about the upload afterwards.
pro_server_OKOK(r, id) ==
  IF ~r.has_id THEN [r EXCEPT !.has_id = TRUE, !.id = id]
  ELSE IF r.upload = Null \/ r.upload.destroyed THEN Crashes(r)
  ELSE send_file([r EXCEPT !.upload.id = id])

\* Mutant: every BADD is about an upload.
pro_server_BADD_upload(r) == destroy_upload(r)
pro_server_BADD(r) == IF r.has_id THEN destroy_upload(r) ELSE r

pro_server_BYEE(r, id) == IF r.id = id THEN Exits(r) ELSE r

pro_server_PRVT(r, nick) == [r EXCEPT !.last_prvt = nick]

\* Mutant: a complete list is not forgotten.
pro_server_LIST_keeps(r, n, nick) ==
  [r EXCEPT !.roster = IF @ # <<>> /\ @[1] = n THEN Append(@, nick) ELSE <<n, nick>>]

\* tui_add_user: a number other than the one of the list being collected starts a new
\* list; a complete list is drawn and forgotten.
pro_server_LIST(r, n, nick) ==
  LET names == IF r.roster # <<>> /\ r.roster[1] = n THEN Append(r.roster, nick) ELSE <<n, nick>>
  IN  [r EXCEPT !.roster = IF Len(names) = n + 1 THEN <<>> ELSE names]

\* The file is refused when it cannot be created; an empty one is complete at once.
pro_server_FILE_announce(r, id, parts, file) ==
  LET t == [id |-> id, series |-> 0, parts |-> parts, file |-> file, got |-> <<>>]
  IN  {r} \cup IF parts = 0 THEN {Received(r, t)} ELSE Enlisted(r, t)

\* Mutant: a download ends one part late.
pro_server_FILE_transfer_late(r, serie, id, bytes) ==
  LET k == transfer_from_id(r, id)
      t == [r.downloads[k] EXCEPT !.series = @ + 1, !.got = Append(@, bytes)]
  IN  IF k = 0 THEN {r}
      ELSE IF r.downloads[k] = Null THEN {Crashes(r)}
      ELSE IF t.series > t.parts THEN EndsDownload(Received(r, t), k)
      ELSE {[r EXCEPT !.downloads = Becomes(@, k, t)]}

\* A part with the wrong number is written all the same; one that cannot be written
\* (the disk is full) is lost and not counted.
pro_server_FILE_transfer(r, serie, id, bytes) ==
  LET k == transfer_from_id(r, id)
      t == [r.downloads[k] EXCEPT !.series = @ + 1, !.got = Append(@, bytes)]
  IN  IF k = 0 THEN {r}
      ELSE IF r.downloads[k] = Null THEN {Crashes(r)}
      ELSE {[r EXCEPT !.blame = @ \cup {"lost part"}]}
             \cup IF t.series >= t.parts THEN EndsDownload(Received(r, t), k)
                  ELSE {[r EXCEPT !.downloads = Becomes(@, k, t)]}

process_packet(r, p) ==
  CASE p[1] = "OKOK" -> {pro_server_OKOK(Answered(r), p[2])}
    [] p[1] = "BADD" -> {pro_server_BADD(Answered(r))}
    [] p[1] = "BYEE" -> {pro_server_BYEE(r, p[2])}
    [] p[1] = "BCST" -> {UsesNick(r)}
    [] p[1] = "PRVT" -> {pro_server_PRVT(r, p[2])}
    [] p[1] = "LIST" -> {pro_server_LIST(r, p[2], p[3])}
    [] p[1] = "SHUT" -> {Exits(r)}
    [] p[1] = "FILE" /\ p[2] = 0 -> pro_server_FILE_announce(r, p[3], p[4], p[6])
    [] OTHER -> pro_server_FILE_transfer(r, p[2], p[3], p[4])

-----------------------------------------------------------------------------
(* Lines (exec_command).  Commands that are malformed, unknown or not for   *)
(* this moment only print.  The text of /msg and /r is written with the      *)
(* length of the whole line: the blanks behind it are read too, or, if the   *)
(* line fills the input field (TRUE), what lies behind the field.           *)
Line ==
  {<<"other">>, <<"text">>, <<"shell">>, <<"debug">>, <<"who">>, <<"quit">>, <<"shut">>}
    \cup ({"nick"} \X Nick) \cup ({"msg"} \X (Nick \cup LongNick) \X BOOLEAN)
    \cup ({"r"} \X BOOLEAN) \cup ({"send"} \X Nick \X File)

\* What an instance types are lines; its server sends packets it has a name for, and the
\* numbers in them fit.
ASSUME InstanceAssumption ==
  /\ Lines \subseteq Line
  /\ \A p \in Packets :
       /\ p[1] = "OKOK" => p[2] \in 0 .. MAX_NUM
       /\ p[1] \in {"OKOK", "BADD", "BYEE", "BCST", "PRVT", "LIST", "SHUT", "FILE"}
       /\ p[1] = "FILE" /\ p[2] = 0 =>
            p[3] \in 0 .. MAX_NUM /\ p[4] \in 0 .. MAX_NUM /\ p[6] \in File
       /\ p[1] = "FILE" /\ p[2] # 0 => p[4] \in File \X Nat

Connecting(r, self, l) ==
  CASE l[1] = "nick" -> Asks(req_client_HELO([r EXCEPT !.nick = l[2]], self))
    [] l[1] = "quit" -> Exits(r)
    [] OTHER -> r

\* strcpy copies a nick of any length into last_prvt, which upload follows.
CMD_MSG(r, nick, fills) ==
  LET w == WritesAs(r, "PRVT", <<nick>>)
  IN  IF fills THEN CrashesBy(w, "full line")
      ELSE IF nick \in LongNick THEN CrashesBy(w, "long nick")
      ELSE [w EXCEPT !.last_prvt = nick]

CMD_RESP(r, fills) ==
  LET w == WritesAs(r, "PRVT", <<r.last_prvt>>)
  IN  IF fills THEN CrashesBy(w, "full line") ELSE w

\* What is typed and what it prints, one line, are written and shown whether the client
\* has an id or not.
CMD_SHELL(r) ==
  LET w == UsesNick(WritesAs(r, "BCST", <<>>))
  IN  IF w.phase = "undefined" THEN w ELSE WritesAs(w, "BCST", <<>>)

\* The previous upload is overwritten, whether it has been answered or not.  The name of
\* the file may be longer than the server accepts.
CMD_SEND(r, nick, file) ==
  Asks(Writes([r EXCEPT !.upload = [id |-> 0, file |-> file, destroyed |-> FALSE],
                        !.blame = IF file \in LongFile THEN @ \cup {"long name"} ELSE @],
              <<"FILE", 0, r.id, nick, PartsOf[file], file>>))

Connected(r, l) ==
  CASE l[1] = "text" -> UsesNick(WritesAs(r, "BCST", <<>>))
    [] l[1] = "who"  -> WritesAs(r, "LIST", <<>>)
    [] l[1] = "msg"  -> CMD_MSG(r, l[2], l[3])
    [] l[1] = "r"    -> CMD_RESP(r, l[2])
    [] l[1] = "quit" -> WritesAs(r, "BYEE", <<>>)
    [] l[1] = "send" -> CMD_SEND(r, l[2], l[3])
    [] l[1] = "shut" -> WritesAs(r, "SHUT", <<>>)
    [] OTHER -> r

exec_command(r, self, l) ==
  CASE l[1] = "shell" -> CMD_SHELL(r)
    [] l[1] = "debug" -> Writes(r, <<"DEBG">>)
    [] OTHER -> IF r.has_id THEN Connected(r, l) ELSE Connecting(r, self, l)

\* Mutant: the place in the history is kept.
input_handler_stays(r, self, l) == exec_command([r EXCEPT !.hist = @ + 1], self, l)

input_handler(r, self, l) ==
  exec_command([r EXCEPT !.hist = @ + 1, !.current_hist = r.hist + 1], self, l)

\* size - 1 is unsigned: with an empty history it is larger than any place.
KEY_UP(r) == [r EXCEPT !.current_hist = IF @ > 0 THEN @ - 1 ELSE 0]
KEY_DOWN(r) == [r EXCEPT !.current_hist = IF r.hist = 0 \/ @ < r.hist THEN @ + 1 ELSE @]

-----------------------------------------------------------------------------
\* The client's step: r is what its handler leaves.  A client that ends removes its
\* FIFO with what is in it.
Steps(c, r) ==
  /\ cl' = [cl EXCEPT ![c] = [r EXCEPT !.sent = <<>>]]
  /\ outbox' = outbox \o r.sent

Running(c) == cl[c].phase = "running"

\* A nick and -M may be given on the command line.
Start(c) ==
  /\ cl[c].phase = "off"
  /\ \E nick \in Nick \cup {Null}, no_wait \in NoWait :
       LET r == [cl[c] EXCEPT !.phase = "running", !.nick = nick, !.no_wait = no_wait]
       IN  Steps(c, IF nick = Null THEN r ELSE Asks(req_client_HELO(r, c)))
  /\ UNCHANGED inbox

Reads(c) ==
  /\ Running(c)
  /\ inbox[c] # <<>>
  /\ \E r \in process_packet(cl[c], Head(inbox[c])) : Steps(c, r)
  /\ inbox' = [inbox EXCEPT ![c] = Tail(@)]

Types(c) ==
  /\ Running(c)
  /\ cl[c].hist < MaxLines
  /\ \E l \in Lines : Steps(c, input_handler(cl[c], c, l))
  /\ UNCHANGED inbox

\* Bound: KEY_DOWN only as far as two places behind the history.
Browses(c) ==
  /\ Running(c)
  /\ \/ Steps(c, KEY_UP(cl[c]))
     \/ cl[c].current_hist <= cl[c].hist + 1 /\ Steps(c, KEY_DOWN(cl[c]))
  /\ UNCHANGED inbox

CtrlD(c) ==
  /\ Running(c)
  /\ Steps(c, Exits(WritesAs(cl[c], "BYEE", <<>>)))
  /\ UNCHANGED inbox

Acts(c) == Start(c) \/ Reads(c) \/ Types(c) \/ Browses(c) \/ CtrlD(c)

Init ==
  /\ cl = [c \in Clients |-> client_init]
  /\ inbox = [c \in Clients |-> <<>>]
  /\ outbox = <<>>

\* Alone, a client meets any server: one that reads everything and may send anything
\* at any time; bound: no file while MaxDownloads arrive.
AnyServer(c) ==
  \/ outbox # <<>> /\ outbox' = <<>> /\ UNCHANGED <<cl, inbox>>
  \/ /\ Running(c)
     /\ inbox[c] = <<>>
     /\ \E p \in Packets :
          /\ p[1] = "FILE" => Len(cl[c].downloads) < MaxDownloads \/ p[2] # 0
          /\ inbox' = [inbox EXCEPT ![c] = <<p>>]
     /\ UNCHANGED <<cl, outbox>>

Next == \E c \in Clients : Acts(c) \/ AnyServer(c)

Spec == Init /\ [][Next]_session

-----------------------------------------------------------------------------
TypeOK ==
  /\ \A c \in Clients :
       /\ cl[c].phase \in {"off", "running", "exited", "undefined"}
       /\ cl[c].id \in 0 .. MAX_NUM + 1
       /\ cl[c].upload = Null \/ cl[c].upload.id \in 0 .. MAX_NUM
       /\ \A t \in Range(cl[c].downloads) : t # Null => t \in Download /\ t.series < t.parts
  /\ \A c \in Clients : \A k \in DOMAIN inbox[c] : inbox[c][k] \in Packets
  /\ \A k \in DOMAIN outbox : outbox[k][1] \in {"HELO", "BYEE", "BCST", "PRVT", "LIST", "SHUT", "FILE", "DEBG"}

\* Whatever is typed and whatever arrives, nothing is sent under an id that no OKOK
\* gave: shell commands and Ctrl-D write their packets before there is an id too.
NothingUnderNoId ==
  \A c \in Clients : ~cl[c].has_id =>
    \A k \in DOMAIN outbox : outbox[k][1] \in {"HELO", "DEBG"}

\* The cursor runs off an empty history, but never one with a line in it: what it ran
\* ahead is forgotten with the first line.
CursorInHistory ==
  \A c \in Clients : cl[c].hist > 0 => cl[c].current_hist \in 0 .. cl[c].hist

\* Whatever users type and a server sends, undefined behaviour has a cause a user or the
\* server gave before: an answer nobody waited for, a request sent before the last one was
\* answered, -M without a nick, a nick too long for last_prvt, a /msg or /r that fills the
\* field, a download that ends behind another one, or three at once.
UndefinedHasCause ==
  \A c \in Clients : cl[c].phase = "undefined" => cl[c].blame \cap Causes # {}

\* Downloads that begin and end in any order, with parts of any number, leave the list
\* sorted and without two of one id, so that a part has one download to go to: as long as
\* none is added in front of two others or taken out from there.
DownloadsApart ==
  \A c \in Clients : "third" \notin cl[c].blame =>
    LET s == cl[c].downloads
    IN  \A j, k \in DOMAIN s : s[j] # Null /\ s[k] # Null /\ (j < k => s[j].id < s[k].id)
=============================================================================
