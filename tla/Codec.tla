------------------------------- MODULE Codec -------------------------------
(***************************************************************************)
(* The packets of the protocol as bytes: the writers and readers of        *)
(* src/common/packet.c on the cursors of src/common/data.c, the builders   *)
(* of both request.c and the parsers of both recept.c.                     *)
(*                                                                         *)
(* A byte is a number: below Base it is a digit, above the letters it is   *)
(* the type of a packet (four bytes in the code), and the last one is NUL. *)
(* A cursor for reading is the bytes that are left; a cursor for writing   *)
(* is what has been written and the room that is left.  A cursor moved too *)
(* far is empty from then on.  datatostr returns NULL for a text that does *)
(* not fit with its final NUL, after copying it; what the copy overwrites  *)
(* is left out.                                                            *)
(***************************************************************************)
EXTENDS Integers, Sequences, SequencesExt

CONSTANTS
  Base,              \* 10 in the code
  SIZEOF_NUM,        \* digits of a number: 4
  SIZEOF_LONGNUM,    \* digits of a long number: 8
  NICK_MAX_LENGTH, PIPE_MAX_LENGTH, FILE_MAX_LENGTH, PASS_MAX_LENGTH,
  Null,              \* C's NULL
  Num, Longnum, Text,   \* the values put into packets in an instance
  Noise              \* the bytes that may be found in place of others

MAX_NUM == Base ^ SIZEOF_NUM - 1
MAX_LONGNUM == Base ^ SIZEOF_LONGNUM - 1
MAX_REQUEST_LENGTH == MAX_NUM

ASSUME CodecAssumption ==
  /\ Base \in Nat \ {0, 1} /\ SIZEOF_NUM \in Nat \ {0} /\ SIZEOF_LONGNUM \in Nat \ {0}
  /\ Num \subseteq Nat /\ Longnum \subseteq Nat /\ Null \notin Text

Letter == Base

Types == <<"HELO", "OKOK", "BADD", "BYEE", "BCST", "PRVT", "LIST", "SHUT", "DEBG", "FILE">>

TypeByte(t) == Letter + IndexFirstSubSeq(<<t>>, Types)

NUL == Letter + Len(Types) + 1

VARIABLES
  sent,     \* the message put into the packet: its builder's side, type and values
  packet,   \* the bytes
  got       \* what the other side's parser makes of them

wire == <<sent, packet, got>>

-----------------------------------------------------------------------------
(* Writing (packet_edition.h).  A write that fails leaves its mark in err;  *)
(* END sends nothing then, or when the length has too many digits.          *)
NODATA == <<>>

Digits(n, width) == [k \in 1 .. width |-> (n \div Base ^ (width - k)) % Base]

Fails(w) == [w EXCEPT !.err = TRUE]

\* shift_data: a cursor that would leave the buffer is empty from then on.
Put(w, bytes) ==
  IF Len(bytes) > w.room THEN Fails([w EXCEPT !.room = 0])
  ELSE [w EXCEPT !.msg = @ \o bytes, !.room = @ - Len(bytes)]

write_num(w, n) ==
  IF n > MAX_NUM THEN Fails(w) ELSE Put(w, Digits(n, SIZEOF_NUM))

write_longnum(w, n) ==
  IF n > MAX_LONGNUM THEN Fails(w) ELSE Put(w, Digits(n, SIZEOF_LONGNUM))

write_data(w, bytes) ==
  IF bytes = Null \/ Len(bytes) > MAX_NUM THEN Fails(w)
  ELSE Put(write_num(w, Len(bytes)), bytes)

\* DO and TEST.
WritesField(w, field) ==
  CASE field[1] = "num" -> write_num(w, field[2])
    [] field[1] = "serie" -> IF field[2] = 0 THEN Fails(write_num(w, 0)) ELSE write_num(w, field[2])
    [] field[1] = "long" -> write_longnum(w, field[2])
    [] field[1] = "data" -> write_data(w, field[2])

\* The buffer has a byte more than the longest packet.
INIT == [msg |-> <<>>, room |-> MAX_REQUEST_LENGTH + 1 - SIZEOF_NUM, err |-> FALSE]

\* Mutant: the length is that of the body.
END_body(w) ==
  LET n == MAX_REQUEST_LENGTH + 1 - SIZEOF_NUM - w.room
  IN  IF w.err \/ n > MAX_NUM THEN NODATA ELSE Digits(n, SIZEOF_NUM) \o w.msg

END(w) ==
  LET n == MAX_REQUEST_LENGTH + 1 - w.room
  IN  IF w.err \/ n > MAX_NUM THEN NODATA ELSE Digits(n, SIZEOF_NUM) \o w.msg

Request(type, fields) ==
  END(FoldLeft(WritesField, Put(INIT, <<TypeByte(type)>>), fields))

-----------------------------------------------------------------------------
(* Reading.  A cursor that is too short for what is read is empty after it. *)
shift_data(d, n) == IF n > Len(d) THEN <<>> ELSE SubSeq(d, n + 1, Len(d))

Number(d, width) == FoldLeft(LAMBDA n, b : Base * n + b, 0, SubSeq(d, 1, width))

Decimal(d, width) ==
  width <= Len(d) /\ \A k \in 1 .. width : d[k] \in 0 .. Base - 1

\* Mutant: only the first byte of a number is looked at.
read_num_loosely(d) ==
  IF SIZEOF_NUM <= Len(d) /\ Decimal(d, 1) THEN Number(d, SIZEOF_NUM) ELSE MAX_NUM + 1

read_num(d) == IF Decimal(d, SIZEOF_NUM) THEN Number(d, SIZEOF_NUM) ELSE MAX_NUM + 1

\* What is no number reads as MAX_NUM + 1 here too.
read_longnum(d) ==
  IF Decimal(d, SIZEOF_LONGNUM) THEN Number(d, SIZEOF_LONGNUM) ELSE MAX_NUM + 1

After_num(d) == shift_data(d, SIZEOF_NUM)

\* The bytes, or Null.
read_mem(d) ==
  IF read_num(d) > MAX_NUM \/ read_num(d) > Len(After_num(d)) THEN Null
  ELSE SubSeq(After_num(d), 1, read_num(d))

After_mem(d) == shift_data(After_num(d), read_num(d))

\* Mutant: there must be room for one byte more than the NUL.
read_str_short(d, len) ==
  IF read_mem(d) # Null /\ Len(read_mem(d)) + 1 < len THEN read_mem(d) ELSE Null

\* The text of an array: strncpy copies no further than the first NUL.
CString(bytes) ==
  LET k == SelectInSeq(bytes, LAMBDA b : b = NUL)
  IN  IF k = 0 THEN bytes ELSE SubSeq(bytes, 1, k - 1)

\* datatostr into an array of len bytes.
read_str(d, len) ==
  IF read_mem(d) # Null /\ Len(read_mem(d)) < len THEN CString(read_mem(d)) ELSE Null

-----------------------------------------------------------------------------
(* Parsing (process_packet of both sides).  What a parser reads is a list   *)
(* of readers; a record says whether it still accepts the packet, what is   *)
(* left of it and the values so far.                                        *)
Reject(r) == [r EXCEPT !.ok = FALSE]

Accept(r, value, rest) == [r EXCEPT !.vals = Append(@, value), !.d = rest]

ReadsText(r, max) ==
  IF read_str(r.d, max + 1) = Null THEN Reject(r)
  ELSE Accept(r, read_str(r.d, max + 1), After_mem(r.d))

\* A nick that is too long is stepped over and given as NULL.
ReadsNickOrNone(r) ==
  IF read_num(r.d) > MAX_NUM THEN Reject(r)
  ELSE IF read_num(r.d) > NICK_MAX_LENGTH
       THEN Accept(r, Null, shift_data(r.d, SIZEOF_NUM + read_num(r.d)))
       ELSE ReadsText(r, NICK_MAX_LENGTH)

\* The client takes SHUT with a lone number, or with a nick.
ReadsShut(r) ==
  IF read_num(r.d) > MAX_NUM THEN Reject(r)
  ELSE IF After_num(r.d) = <<>> THEN Accept(r, Null, <<>>)
       ELSE ReadsText(r, NICK_MAX_LENGTH)

ReadsOptional(r, max) ==
  IF r.d = <<>> THEN Accept(r, Null, <<>>) ELSE ReadsText(r, max)

Reads(r, what) ==
  CASE ~r.ok -> r
    [] r.ok /\ what = "num" ->
         IF read_num(r.d) > MAX_NUM THEN Reject(r)
         ELSE Accept(r, read_num(r.d), After_num(r.d))
    [] r.ok /\ what = "any num" -> Accept(r, read_num(r.d), After_num(r.d))
    [] r.ok /\ what = "long" ->
         IF read_longnum(r.d) > MAX_LONGNUM THEN Reject(r)
         ELSE Accept(r, read_longnum(r.d), shift_data(r.d, SIZEOF_LONGNUM))
    [] r.ok /\ what = "mem" ->
         IF read_mem(r.d) = Null THEN Reject(r)
         ELSE Accept(r, read_mem(r.d), After_mem(r.d))
    [] r.ok /\ what = "nick" -> ReadsText(r, NICK_MAX_LENGTH)
    [] r.ok /\ what = "nick or none" -> ReadsNickOrNone(r)
    [] r.ok /\ what = "nick?" -> ReadsOptional(r, NICK_MAX_LENGTH)
    [] r.ok /\ what = "pipe" -> ReadsText(r, PIPE_MAX_LENGTH)
    [] r.ok /\ what = "file" -> ReadsText(r, FILE_MAX_LENGTH)
    [] r.ok /\ what = "pass?" -> ReadsOptional(r, PASS_MAX_LENGTH)
    [] r.ok /\ what = "shut" -> ReadsShut(r)

\* The readers of the server's parser, those of a FILE after the serie.
OfServer(type, serie) ==
  CASE type = "HELO" -> <<"nick or none", "pipe">>
    [] type \in {"BYEE", "LIST"} -> <<"num">>
    [] type = "BCST" -> <<"num", "mem">>
    [] type = "PRVT" -> <<"num", "nick", "mem">>
    [] type = "SHUT" -> <<"any num", "pass?">>
    [] type = "DEBG" -> <<"pass?">>
    [] type = "FILE" /\ serie = 0 -> <<"num", "num", "nick or none", "long", "file">>
    [] type = "FILE" /\ serie # 0 -> <<"num", "num", "mem">>
    [] OTHER -> Null

OfClient(type, serie) ==
  CASE type \in {"OKOK", "BYEE"} -> <<"num">>
    [] type = "BADD" -> <<>>
    [] type \in {"BCST", "PRVT"} -> <<"nick", "mem">>
    [] type = "LIST" -> <<"num", "nick">>
    [] type = "SHUT" -> <<"shut">>
    [] type = "FILE" /\ serie = 0 -> <<"num", "num", "long", "file", "nick?">>
    [] type = "FILE" /\ serie # 0 -> <<"num", "num", "mem">>
    [] OTHER -> Null

\* A packet that is too short for a type, or of an unknown one, is refused.
process_packet(side, d) ==
  LET body == shift_data(d, SIZEOF_NUM)
      type == {t \in Range(Types) : body # <<>> /\ body[1] = TypeByte(t)}
      rest == Tail(body)
      Readers(t) == IF side = "server" THEN OfServer(t, read_num(rest)) ELSE OfClient(t, read_num(rest))
      Start == [ok |-> TRUE, d |-> rest, vals |-> <<>>]
  IN  IF \A t \in type : Readers(t) = Null THEN [ok |-> FALSE]
      ELSE LET t == CHOOSE x \in type : TRUE
               r == FoldLeft(Reads, Start, Readers(t))
           IN  IF r.ok THEN [ok |-> TRUE, type |-> t, vals |-> r.vals] ELSE [ok |-> FALSE]

-----------------------------------------------------------------------------
(* The builders (request.c of both sides).  A field is a kind and a value;  *)
(* an optional field that is NULL is not written.                           *)
num(n) == <<"num", n>>
serie(n) == <<"serie", n>>
long(n) == <<"long", n>>
data(s) == <<"data", s>>
optional(s) == IF s = Null THEN <<>> ELSE <<data(s)>>

req_client_HELO(nick, pipe) == <<"HELO", <<data(nick), data(pipe)>>>>
req_client_BYEE(id) == <<"BYEE", <<num(id)>>>>
req_client_BCST(id, msg) == <<"BCST", <<num(id), data(msg)>>>>
req_client_PRVT(id, nick, msg) == <<"PRVT", <<num(id), data(nick), data(msg)>>>>
req_client_LIST(id) == <<"LIST", <<num(id)>>>>
req_client_SHUT(id, pass) == <<"SHUT", <<num(id)>> \o optional(pass)>>
req_client_DEBG(pass) == <<"DEBG", optional(pass)>>
req_client_FILE_announce(id, nick, len, name) ==
  <<"FILE", <<num(0), num(id), data(nick), long(len), data(name)>>>>
req_client_FILE_transfer(n, id, buf) == <<"FILE", <<serie(n), num(id), data(buf)>>>>

req_server_OKOK(id) == <<"OKOK", <<num(id)>>>>
req_server_BADD == <<"BADD", <<>>>>
req_server_BYEE(id) == <<"BYEE", <<num(id)>>>>
req_server_BCST(nick, msg) == <<"BCST", <<data(nick), data(msg)>>>>
req_server_PRVT(nick, msg) == <<"PRVT", <<data(nick), data(msg)>>>>
req_server_LIST(n, nick) == <<"LIST", <<num(n), data(nick)>>>>
req_server_SHUT(nick) == <<"SHUT", <<data(nick)>>>>
req_server_FILE_announce(id, len, name, nick) ==
  <<"FILE", <<num(0), num(id), long(len), data(name)>> \o optional(nick)>>
req_server_FILE_transfer(n, id, buf) == <<"FILE", <<serie(n), num(id), data(buf)>>>>

\* Nicks of users are never empty (HELO refuses them).
OfClients ==
  {req_client_HELO(nick, pipe) : nick \in Text, pipe \in Text}
    \cup {req_client_BYEE(id) : id \in Num} \cup {req_client_LIST(id) : id \in Num}
    \cup {req_client_BCST(id, msg) : id \in Num, msg \in Text}
    \cup {req_client_PRVT(id, nick, msg) : id \in Num, nick \in Text, msg \in Text}
    \cup {req_client_SHUT(id, pass) : id \in Num, pass \in Text \cup {Null}}
    \cup {req_client_DEBG(pass) : pass \in Text \cup {Null}}
    \cup {req_client_FILE_announce(id, nick, len, name) :
            id \in Num, nick \in Text, len \in Longnum, name \in Text}
    \cup {req_client_FILE_transfer(n, id, buf) : n \in Num, id \in Num, buf \in Text}

OfServers ==
  LET User == Text \ {<<>>}
  IN  {req_server_OKOK(id) : id \in Num} \cup {req_server_BADD}
        \cup {req_server_BYEE(id) : id \in Num}
        \cup {req_server_BCST(nick, msg) : nick \in User, msg \in Text}
        \cup {req_server_PRVT(nick, msg) : nick \in User, msg \in Text}
        \cup {req_server_LIST(n, nick) : n \in Num, nick \in User}
        \cup {req_server_SHUT(nick) : nick \in User \cup {Null}}
        \cup {req_server_FILE_announce(id, len, name, nick) :
                id \in Num, len \in Longnum, name \in Text, nick \in User \cup {Null}}
        \cup {req_server_FILE_transfer(n, id, buf) : n \in Num, id \in Num, buf \in Text}

-----------------------------------------------------------------------------
Init == sent = Null /\ packet = NODATA /\ got = Null

Send(side, m) ==
  /\ sent = Null
  /\ sent' = [side |-> side, type |-> m[1], fields |-> m[2]]
  /\ packet' = Request(m[1], m[2])
  /\ UNCHANGED got

\* FIFOs take packets from anybody: one byte may be another one.
Garble(k, byte) ==
  /\ got = Null
  /\ k \in DOMAIN packet
  /\ sent' = [sent EXCEPT !.type = "garbled"]
  /\ sent.type # "garbled"
  /\ packet' = [packet EXCEPT ![k] = byte]
  /\ UNCHANGED got

Other(side) == IF side = "client" THEN "server" ELSE "client"

Parse ==
  /\ packet # NODATA
  /\ got = Null
  /\ got' = process_packet(Other(sent.side), packet)
  /\ UNCHANGED <<sent, packet>>

Next ==
  \/ \E m \in OfClients : Send("client", m)
  \/ \E m \in OfServers : Send("server", m)
  \/ \E k \in 1 .. MAX_REQUEST_LENGTH, byte \in Noise : Garble(k, byte)
  \/ Parse

Spec == Init /\ [][Next]_wire

-----------------------------------------------------------------------------
Whole == sent # Null /\ sent.type # "garbled"

Width(field) ==
  CASE field[1] \in {"num", "serie"} -> SIZEOF_NUM
    [] field[1] = "long" -> SIZEOF_LONGNUM
    [] field[1] = "data" -> SIZEOF_NUM + Len(field[2])

Expressible(field) ==
  CASE field[1] = "num" -> field[2] <= MAX_NUM
    [] field[1] = "serie" -> field[2] \in 1 .. MAX_NUM
    [] field[1] = "long" -> field[2] <= MAX_LONGNUM
    [] field[1] = "data" -> field[2] # Null

\* A builder gives NODATA exactly for what has no packet: a number, serie or NULL that
\* cannot be written, or a total above MAX_REQUEST_LENGTH; no error of a writer is
\* forgotten.  All else, a packet of that length included, begins with the length
\* that read_packet cuts the stream by.
NodataExactly ==
  Whole =>
    /\ packet # NODATA <=>
         /\ \A k \in DOMAIN sent.fields : Expressible(sent.fields[k])
         /\ SIZEOF_NUM + 1 + FoldLeft(LAMBDA n, f : n + Width(f), 0, sent.fields)
              <= MAX_REQUEST_LENGTH
    /\ packet # NODATA => read_num(packet) = Len(packet)

Limit(what) ==
  CASE what \in {"nick", "nick or none", "nick?", "shut"} -> NICK_MAX_LENGTH
    [] what = "pipe" -> PIPE_MAX_LENGTH
    [] what = "file" -> FILE_MAX_LENGTH
    [] what = "pass?" -> PASS_MAX_LENGTH
    [] OTHER -> MAX_NUM

Readers(m) ==
  IF m.side = "client" THEN OfServer(m.type, m.fields[1][2]) ELSE OfClient(m.type, m.fields[1][2])

FieldsFit(m) ==
  \A k \in DOMAIN m.fields :
    m.fields[k][1] = "data" => Len(m.fields[k][2]) <= Limit(Readers(m)[k])

\* What one side builds the other side's parser takes for the same, however long the
\* texts, whatever digits are in them and whichever optional field is missing; a text
\* above its limit makes it refuse, or read a long nick as NULL.
RoundTrip ==
  Whole /\ got # Null =>
    LET values == [k \in DOMAIN sent.fields |-> sent.fields[k][2]]
    IN  IF sent.fields = <<>> \/ FieldsFit(sent)
        THEN got.ok /\ got.type = sent.type /\ got.vals \in {values, Append(values, Null)}
        ELSE ~got.ok \/ Contains(got.vals, Null)

\* Whatever byte of a packet is another one: what a parser accepts, written again,
\* is what the packet begins with, so no garbage passes for a number or a length.  Not
\* so the id of a SHUT and the length of a file, which are taken as MAX_NUM + 1, and a
\* text with a NUL in it, which is read as what comes before the NUL.
AcceptedIsCanonical ==
  LET what == IF sent.side = "client" THEN OfServer(got.type, got.vals[1])
              ELSE OfClient(got.type, got.vals[1])
      Field(k) == IF what[k] \in {"num", "long"} THEN <<what[k], got.vals[k]>>
                  ELSE data(got.vals[k])
      Exempt(k) ==
        \/ got.vals[k] = Null
        \/ what[k] = "long" /\ got.vals[k] = MAX_NUM + 1
        \/ what[k] \notin {"num", "long", "mem"} /\ NUL \in Range(packet)
  IN  /\ got # Null
      /\ got.ok
      /\ got.type # "SHUT"
      /\ \A k \in DOMAIN got.vals : ~Exempt(k)
      => IsPrefix(FoldLeft(WritesField, Put(INIT, <<TypeByte(got.type)>>),
                           [k \in DOMAIN got.vals |-> Field(k)]).msg,
                  After_num(packet))
=============================================================================
