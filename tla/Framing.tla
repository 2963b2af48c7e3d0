------------------------------- MODULE Framing -------------------------------
(***************************************************************************)
(* read_packet of src/common/packet_reception.c, called again and again by *)
(* the main loop of the server (blocking reads) or of the client           *)
(* (non-blocking reads on a FIFO that may be empty or have no writer).     *)
(* Writers append bytes between any two reads, and a read may return fewer *)
(* bytes than asked for, so a packet can be cut anywhere.                  *)
(*                                                                         *)
(* A byte is the digit it stands for, or Other.  The static buffer is the  *)
(* sequence of its first c bytes; the rest is never read.                  *)
(***************************************************************************)
EXTENDS Naturals, Sequences

CONSTANTS
  Byte,                 \* the bytes that writers send
  Other,                \* any byte that is not a digit
  MAX_REQUEST_LENGTH,   \* the room of the buffer (packet.h: MAX_NUM, 9999)
  MaxBytes              \* bound of the model on what is sent

Digit == Byte \ {Other}

ASSUME FramingAssumption ==
  /\ Digit \subseteq 0 .. 9
  /\ MAX_REQUEST_LENGTH = 9999
  /\ MaxBytes \in Nat

VARIABLES
  nb,         \* the argument of read_packet: whether reads are non-blocking
  sent,       \* every byte written to the FIFO so far
  n,          \* how many of them have been read
  at,         \* where read_packet is: "out", "header" or "payload"
  buffer,     \* the static buffer, up to c
  l,          \* the static length
  delivered,  \* the packets given to process_packet
  ended       \* the server's main loop has ended

vars == <<nb, sent, n, at, buffer, l, delivered, ended>>

c == Len(buffer)
SIZEOF_NUM == 4
Waiting == Len(sent) - n

read_num(h) == ((h[1] * 10 + h[2]) * 10 + h[3]) * 10 + h[4]

Init ==
  /\ nb \in BOOLEAN
  /\ sent = <<>>
  /\ n = 0
  /\ at = "out"
  /\ buffer = <<>>
  /\ l = 0
  /\ delivered = <<>>
  /\ ended = FALSE

\* Somebody writes a byte.
Write(b) ==
  /\ Len(sent) < MaxBytes
  /\ sent' = Append(sent, b)
  /\ UNCHANGED <<nb, n, at, buffer, l, delivered, ended>>

\* Mutant of Call: one byte too many is taken for the header.
CallRereads ==
  /\ at = "out"
  /\ ~ended
  /\ at' = IF c <= SIZEOF_NUM THEN "header" ELSE "payload"
  /\ UNCHANGED <<nb, sent, n, buffer, l, delivered, ended>>

\* The main loop calls read_packet: with four bytes in the buffer, the header has been
\* read by an earlier call.
Call ==
  /\ at = "out"
  /\ ~ended
  /\ at' = IF c < SIZEOF_NUM THEN "header" ELSE "payload"
  /\ UNCHANGED <<nb, sent, n, buffer, l, delivered, ended>>

\* return -1: the server's loop ends, the client ignores it and comes back.
Fails ==
  /\ at' = "out"
  /\ ended' = ~nb
  /\ UNCHANGED <<nb, sent, delivered>>

\* Mutants: bytes of a header that turned out not to be one are kept; the digits are
\* not checked.
ScannedKeeping(b) == IF b \in Digit THEN Append(buffer, b) ELSE buffer
ScannedAny(b) == Append(buffer, b)

Scanned(b) == IF b \in Digit THEN Append(buffer, b) ELSE <<>>

\* read(fd, buffer+c, 1) in the loop over the header.
HeaderByte ==
  LET h == Scanned(sent[n + 1])
  IN  /\ at = "header"
      /\ Waiting > 0
      /\ n' = n + 1
      /\ buffer' = h
      /\ IF Len(h) < SIZEOF_NUM
         THEN UNCHANGED <<nb, sent, at, l, delivered, ended>>
         ELSE /\ l' = read_num(h)
              /\ IF l' < SIZEOF_NUM
                 THEN Fails
                 ELSE at' = "payload" /\ UNCHANGED <<nb, sent, delivered, ended>>

\* process_packet, and c = 0.
Deliver(packet) ==
  /\ delivered' = Append(delivered, packet)
  /\ buffer' = <<>>
  /\ at' = "out"

\* Mutant of PayloadRead: one byte less than what is missing is asked for.
PayloadReadShort(k) ==
  LET b == buffer \o SubSeq(sent, n + 1, n + k)
  IN  /\ at = "payload"
      /\ k < l - c
      /\ k <= Waiting
      /\ n' = n + k
      /\ at' = IF nb THEN "out" ELSE "payload"
      /\ buffer' = b
      /\ UNCHANGED <<nb, sent, l, delivered, ended>>

\* read(fd, buffer+c, l-c) returns k bytes.
PayloadRead(k) ==
  LET b == buffer \o SubSeq(sent, n + 1, n + k)
  IN  /\ at = "payload"
      /\ c < l
      /\ k <= l - c
      /\ k <= Waiting
      /\ n' = n + k
      /\ IF Len(b) < l
         THEN at' = (IF nb THEN "out" ELSE "payload") /\ buffer' = b /\ UNCHANGED delivered
         ELSE Deliver(b)
      /\ UNCHANGED <<nb, sent, l, ended>>

\* Nothing is missing: the packet is its header alone or, after a header that failed
\* in an earlier non-blocking call, less than that.
PayloadComplete ==
  /\ at = "payload"
  /\ c >= l
  /\ Deliver(SubSeq(buffer, 1, l))
  /\ UNCHANGED <<nb, sent, n, l, ended>>

\* A non-blocking read of an empty FIFO fails (EAGAIN) or returns 0 (no writer): the
\* call returns and leaves the buffer as it is.
Empty ==
  /\ nb
  /\ Waiting = 0
  /\ \/ at = "header"
     \/ at = "payload" /\ c < l
  /\ at' = "out"
  /\ UNCHANGED <<nb, sent, n, buffer, l, delivered, ended>>

Read ==
  \/ Call
  \/ HeaderByte
  \/ \E k \in 1 .. Waiting : PayloadRead(k)
  \/ PayloadComplete
  \/ Empty

Next == Read \/ \E b \in Byte : Write(b)

\* The main loops call read_packet without end; a read with bytes waiting returns
\* (halfdelay lets the client's loop go on without a key).
Spec == Init /\ [][Next]_vars /\ WF_vars(Read)

-----------------------------------------------------------------------------
\* How a whole stream is to be cut: a packet starts at the first four digits in a row and
\* has the length they say, header included; the next one is looked for behind it.  A
\* header that promises less than itself is skipped whole.
IsHeader(s, i) == \A j \in i .. i + 3 : s[j] \in Digit

\* The packets from the i-th byte on, those from any later byte on being rest.
CutAt(s, rest, i) ==
  LET len == read_num(SubSeq(s, i, i + 3))
      next == IF len < SIZEOF_NUM THEN i + SIZEOF_NUM ELSE i + len
  IN  IF i + 3 > Len(s) THEN <<>>
      ELSE IF ~IsHeader(s, i) THEN rest[i + 1]
      ELSE IF i + len - 1 > Len(s) THEN <<>>
      ELSE <<SubSeq(s, i, i + len - 1)>> \o rest[next]

Cuts(s) == LET From[i \in 1 .. Len(s) + 1] == CutAt(s, From, i) IN From

Frames(s) == Cuts(s)[1]

\* The buffer holds bytes, the length what four digits can say, and the call is where
\* the buffer says it is.
TypeOK ==
  /\ nb \in BOOLEAN
  /\ sent \in Seq(Byte)
  /\ n \in 0 .. Len(sent)
  /\ at \in {"out", "header", "payload"}
  /\ buffer \in Seq(Byte)
  /\ l \in 0 .. MAX_REQUEST_LENGTH
  /\ delivered \in Seq(Seq(Byte))
  /\ ended \in BOOLEAN

\* Between calls as within one, the static length belongs to the header in the static
\* buffer and bounds what is read behind it (a header that promises less than itself
\* stays whole), so buffer+c never passes the end of the array.
InBuffer ==
  /\ at = "header" => c < SIZEOF_NUM
  /\ at = "payload" => c >= SIZEOF_NUM
  /\ c >= SIZEOF_NUM => l = read_num(buffer) /\ (c <= l \/ c = SIZEOF_NUM)

\* However the bytes are cut into reads, and a packet into calls, what has reached
\* process_packet, and the packet complete in the buffer, is the stream cut at the headers.
InHand == c >= SIZEOF_NUM /\ c >= l

CutsDoNotMatter ==
  Frames(SubSeq(sent, 1, n)) =
    delivered \o (IF InHand THEN <<SubSeq(buffer, 1, l)>> ELSE <<>>)

\* What is written is read, garbage included, unless the server has stopped on a bad
\* header: no sequence of bytes makes read_packet return without progress for ever.
EveryByteIsRead ==
  \A k \in 1 .. MaxBytes : Len(sent) >= k ~> n >= k \/ ended
=============================================================================
