---------------------------- MODULE FramingProofs ----------------------------
(***************************************************************************)
(* The static buffer of read_packet stays well typed and in bounds for any *)
(* alphabet of bytes and any stream of them (Framing.tla).  The header has *)
(* to be known to consist of digits, whatever call read it, to bound the   *)
(* length it says.                                                         *)
(***************************************************************************)
EXTENDS Framing, TLAPS, NaturalsInduction, WellFoundedInduction

\* What the bytes kept so far say of the header.
HeaderDigits == \A i \in 1 .. SIZEOF_NUM : i <= c => buffer[i] \in Digit

IInv == TypeOK /\ InBuffer /\ HeaderDigits

-----------------------------------------------------------------------------
\* Four digits say at most MAX_REQUEST_LENGTH, the size of the array (read_num,
\* packet.c, and packet.h).
LEMMA ReadNumBounded ==
  ASSUME NEW h, \A i \in 1 .. SIZEOF_NUM : h[i] \in Digit
  PROVE  read_num(h) \in 0 .. MAX_REQUEST_LENGTH
<1>1. /\ h[1] \in Digit
      /\ h[2] \in Digit
      /\ h[3] \in Digit
      /\ h[4] \in Digit
  BY DEF SIZEOF_NUM
<1>2. /\ h[1] \in 0 .. 9
      /\ h[2] \in 0 .. 9
      /\ h[3] \in 0 .. 9
      /\ h[4] \in 0 .. 9
  <2>1. Digit \subseteq 0 .. 9
    BY FramingAssumption, SMT
  <2> QED
    BY ONLY <1>1, <2>1
<1>3. \A w, x, y, z \in 0 .. 9 :
        ((w * 10 + x) * 10 + y) * 10 + z \in 0 .. MAX_REQUEST_LENGTH
  BY FramingAssumption, SMT
<1> QED
  BY ONLY <1>2, <1>3, ZenonT(40) DEF read_num

\* Reading behind the header leaves the header, and what it says, alone.
LEMMA AppendedKeepsHeader ==
  ASSUME NEW s \in Seq(Byte), NEW t \in Seq(Byte), Len(s) >= SIZEOF_NUM
  PROVE  /\ s \o t \in Seq(Byte)
         /\ Len(s \o t) = Len(s) + Len(t)
         /\ \A i \in 1 .. SIZEOF_NUM : (s \o t)[i] = s[i]
         /\ read_num(s \o t) = read_num(s)
<1>1. /\ s \o t \in Seq(Byte)
      /\ Len(s \o t) = Len(s) + Len(t)
      /\ \A i \in 1 .. Len(s) : (s \o t)[i] = s[i]
  OBVIOUS
<1>2. \A i \in 1 .. SIZEOF_NUM : (s \o t)[i] = s[i]
  BY <1>1 DEF SIZEOF_NUM
<1>3. read_num(s \o t) = read_num(s)
  BY <1>2 DEF read_num, SIZEOF_NUM
<1> QED
  BY <1>1, <1>2, <1>3

\* A part of a stream is a sequence of as many bytes.
LEMMA PartOfStream ==
  ASSUME NEW s \in Seq(Byte), NEW i \in Nat, NEW k \in Nat, i + k <= Len(s)
  PROVE  /\ SubSeq(s, i + 1, i + k) \in Seq(Byte)
         /\ Len(SubSeq(s, i + 1, i + k)) = k
  OBVIOUS

-----------------------------------------------------------------------------
LEMMA InitInv == Init => IInv
<1> SUFFICES ASSUME Init PROVE IInv
  OBVIOUS
<1>1. /\ buffer = <<>> /\ sent = <<>> /\ delivered = <<>>
      /\ n = 0 /\ l = 0 /\ at = "out"
      /\ nb \in BOOLEAN /\ ended = FALSE
  BY DEF Init
<1>2. l \in 0 .. MAX_REQUEST_LENGTH
  BY <1>1, FramingAssumption
<1>3. TypeOK
  <2>1. /\ <<>> \in Seq(Byte)
        /\ <<>> \in Seq(Seq(Byte))
        /\ 0 \in 0 .. Len(sent)
    BY <1>1
  <2> QED
    BY <1>1, <1>2, <2>1, Zenon DEF TypeOK
<1>4. InBuffer /\ HeaderDigits
  BY <1>1 DEF InBuffer, HeaderDigits, c, SIZEOF_NUM
<1> QED
  BY <1>3, <1>4 DEF IInv

\* The loop over the header (packet_reception.c:14-30).
LEMMA HeaderByteInv == IInv /\ HeaderByte => IInv'
<1> SUFFICES ASSUME IInv, HeaderByte PROVE IInv'
  OBVIOUS
<1> DEFINE b == sent[n + 1]
           h == Scanned(b)
<1>1. /\ b \in Byte
      /\ buffer \in Seq(Byte)
      /\ Len(buffer) < 4
      /\ n + 1 \in 0 .. Len(sent)
  <2>1. at = "header" /\ Len(sent) - n > 0
    BY DEF HeaderByte, Waiting
  <2> QED
    BY <2>1 DEF IInv, TypeOK, InBuffer, c, SIZEOF_NUM
<1>2. /\ h \in Seq(Byte)
      /\ Len(h) <= 4
      /\ \A i \in 1 .. 4 : i <= Len(h) => h[i] \in Digit
  <2>1. CASE b \in Digit
    <3>1. h = Append(buffer, b)
      BY <2>1 DEF Scanned
    <3>2. \A i \in 1 .. 4 : i <= Len(buffer) => buffer[i] \in Digit
      BY DEF IInv, HeaderDigits, c, SIZEOF_NUM
    <3>3. /\ Len(h) = Len(buffer) + 1
          /\ \A i \in 1 .. Len(buffer) : h[i] = buffer[i]
          /\ h[Len(buffer) + 1] = b
      BY <3>1, <1>1
    <3>4. \A i \in 1 .. 4 : i <= Len(h) => h[i] \in Digit
      BY <3>2, <3>3, <1>1, <2>1
    <3> QED
      BY <3>1, <3>3, <3>4, <1>1
  <2>2. CASE b \notin Digit
    BY <2>2 DEF Scanned
  <2> QED
    BY <2>1, <2>2
<1>3. /\ n' = n + 1
      /\ buffer' = h
      /\ UNCHANGED <<nb, sent, delivered>>
  BY DEF HeaderByte, Fails
<1> HIDE DEF h, b
<1>4. HeaderDigits'
  BY <1>2, <1>3 DEF HeaderDigits, c, SIZEOF_NUM
<1>5. CASE Len(h) < 4
  <2>1. UNCHANGED <<at, l, ended>>
    BY <1>5 DEF HeaderByte, h, b, SIZEOF_NUM
  <2>2. at = "header"
    BY DEF HeaderByte
  <2>3. TypeOK'
    BY <1>1, <1>2, <1>3, <2>1 DEF IInv, TypeOK
  <2>4. InBuffer'
    BY <1>2, <1>3, <1>5, <2>1, <2>2 DEF InBuffer, c, SIZEOF_NUM
  <2> QED
    BY <1>4, <2>3, <2>4 DEF IInv
<1>6. CASE Len(h) = 4
  <2>1. l' = read_num(h)
    BY <1>6 DEF HeaderByte, h, b, SIZEOF_NUM
  <2>2. l' \in 0 .. MAX_REQUEST_LENGTH
    BY <2>1, <1>2, <1>6, ReadNumBounded DEF SIZEOF_NUM
  <2>3. /\ \/ at' = "payload" /\ ended' = ended
           \/ at' = "out" /\ ended' = ~nb
    BY <1>6 DEF HeaderByte, Fails, h, b, SIZEOF_NUM
  <2>4. ended' \in BOOLEAN /\ at' \in {"payload", "out"}
    BY <2>3 DEF IInv, TypeOK
  <2>5. TypeOK'
    BY <1>1, <1>2, <1>3, <2>2, <2>4 DEF IInv, TypeOK
  <2>6. InBuffer'
    BY <1>3, <1>6, <2>1, <2>4 DEF InBuffer, c, SIZEOF_NUM
  <2> QED
    BY <1>4, <2>5, <2>6 DEF IInv
<1>7. Len(h) < 4 \/ Len(h) = 4
  <2>1. Len(h) \in Nat
    BY <1>2
  <2>2. \A m \in Nat : m <= 4 => m < 4 \/ m = 4
    OBVIOUS
  <2> QED
    BY <1>2, <2>1, <2>2, Zenon
<1> QED
  BY <1>5, <1>6, <1>7

\* A packet is handed over and the buffer forgotten (packet_reception.c:39-42).
LEMMA DeliverInv ==
  ASSUME IInv, NEW p \in Seq(Byte), Deliver(p),
         UNCHANGED <<nb, sent, l, ended>>, n' \in 0 .. Len(sent)
  PROVE  IInv'
<1>1. /\ buffer' = <<>>
      /\ at' = "out"
      /\ delivered' \in Seq(Seq(Byte))
  BY DEF Deliver, IInv, TypeOK
<1>2. TypeOK'
  BY <1>1 DEF IInv, TypeOK
<1>3. InBuffer' /\ HeaderDigits'
  BY <1>1 DEF InBuffer, HeaderDigits, c, SIZEOF_NUM
<1> QED
  BY <1>2, <1>3 DEF IInv

\* The loop behind the header (packet_reception.c:32-36).
LEMMA PayloadReadInv ==
  ASSUME IInv, NEW k \in 1 .. Waiting, PayloadRead(k)
  PROVE  IInv'
<1> DEFINE part == SubSeq(sent, n + 1, n + k)
           b == buffer \o part
<1>1. /\ at = "payload"
      /\ Len(buffer) >= 4
      /\ l = read_num(buffer)
      /\ \A i \in 1 .. 4 : buffer[i] \in Digit
  BY DEF PayloadRead, IInv, TypeOK, InBuffer, HeaderDigits, c, SIZEOF_NUM
<1>2. /\ sent \in Seq(Byte) /\ buffer \in Seq(Byte)
      /\ n \in Nat /\ k \in Nat /\ n + k <= Len(sent)
      /\ Len(buffer) + k <= l
  BY DEF PayloadRead, Waiting, c, IInv, TypeOK
<1>3. part \in Seq(Byte) /\ Len(part) = k
  BY <1>2, PartOfStream
<1> HIDE DEF part
<1>4. /\ b \in Seq(Byte)
      /\ Len(b) = Len(buffer) + k
      /\ \A i \in 1 .. 4 : b[i] = buffer[i]
      /\ read_num(b) = read_num(buffer)
  BY <1>1, <1>2, <1>3, AppendedKeepsHeader DEF SIZEOF_NUM
<1> HIDE DEF b
<1>5. /\ n' = n + k
      /\ UNCHANGED <<nb, sent, l, ended>>
  BY DEF PayloadRead
<1>6. n' \in 0 .. Len(sent)
  BY <1>2, <1>5
<1>7. CASE Len(b) < l
  <2>1. /\ at' \in {"out", "payload"}
        /\ buffer' = b
        /\ delivered' = delivered
    BY <1>7 DEF PayloadRead, b, part
  <2>2. TypeOK'
    BY <1>4, <1>5, <1>6, <2>1 DEF IInv, TypeOK
  <2>3. InBuffer'
    <3>1. Len(b) \in Nat /\ Len(b) <= l /\ 4 <= Len(b)
      BY <1>1, <1>2, <1>4
    <3>2. l = read_num(b)
      BY <1>1, <1>4
    <3> QED
      BY <1>5, <2>1, <3>1, <3>2 DEF InBuffer, c, SIZEOF_NUM
  <2>4. HeaderDigits'
    BY <1>1, <1>4, <2>1 DEF HeaderDigits, c, SIZEOF_NUM
  <2> QED
    BY <2>2, <2>3, <2>4 DEF IInv
<1>8. CASE ~(Len(b) < l)
  <2>1. Deliver(b)
    BY <1>8 DEF PayloadRead, b, part
  <2> QED
    BY <2>1, <1>4, <1>5, <1>6, DeliverInv
<1> QED
  BY <1>7, <1>8

\* Nothing is missing (packet_reception.c:32 at once false).
LEMMA PayloadCompleteInv == IInv /\ PayloadComplete => IInv'
<1> SUFFICES ASSUME IInv, PayloadComplete PROVE IInv'
  OBVIOUS
<1>1. /\ Deliver(SubSeq(buffer, 1, l))
      /\ UNCHANGED <<nb, sent, n, l, ended>>
      /\ l <= Len(buffer)
  BY DEF PayloadComplete, c, IInv, TypeOK
<1>2. buffer \in Seq(Byte) /\ l \in Nat /\ n \in 0 .. Len(sent)
  BY FramingAssumption DEF IInv, TypeOK
<1>3. SubSeq(buffer, 1, l) \in Seq(Byte)
  BY <1>1, <1>2
<1>4. n' \in 0 .. Len(sent)
  BY <1>1, <1>2
<1> QED
  BY <1>1, <1>3, <1>4, DeliverInv

\* One step per action.
LEMMA NextInv == IInv /\ [Next]_vars => IInv'
<1> SUFFICES ASSUME IInv, [Next]_vars PROVE IInv'
  OBVIOUS
<1>1. CASE Call
  <2>1. at' = (IF c < SIZEOF_NUM THEN "header" ELSE "payload")
    BY <1>1 DEF Call
  <2>2. UNCHANGED <<nb, sent, n, buffer, l, delivered, ended>>
    BY <1>1 DEF Call
  <2>3. TypeOK'
    BY <2>1, <2>2 DEF IInv, TypeOK
  <2>4. InBuffer'
    BY <2>1, <2>2 DEF IInv, TypeOK, InBuffer, c, SIZEOF_NUM
  <2>5. HeaderDigits'
    BY <2>2 DEF IInv, HeaderDigits, c
  <2> QED
    BY <2>3, <2>4, <2>5 DEF IInv
<1>2. CASE HeaderByte
  BY <1>2, HeaderByteInv
<1>3. CASE \E k \in 1 .. Waiting : PayloadRead(k)
  BY <1>3, PayloadReadInv
<1>4. CASE PayloadComplete
  BY <1>4, PayloadCompleteInv
<1>5. CASE Empty
  BY <1>5 DEF Empty, IInv, TypeOK, InBuffer, HeaderDigits, c
<1>6. CASE \E b \in Byte : Write(b)
  <2> PICK b \in Byte : Write(b)
    BY <1>6
  <2>1. /\ sent' = Append(sent, b)
        /\ UNCHANGED <<nb, n, at, buffer, l, delivered, ended>>
    BY DEF Write
  <2>2. /\ sent' \in Seq(Byte)
        /\ n \in 0 .. Len(sent')
    BY <2>1 DEF IInv, TypeOK
  <2>3. TypeOK'
    BY <2>1, <2>2 DEF IInv, TypeOK
  <2>4. InBuffer' /\ HeaderDigits'
    BY <2>1 DEF IInv, InBuffer, HeaderDigits, c
  <2> QED
    BY <2>3, <2>4 DEF IInv
<1>7. CASE UNCHANGED vars
  BY <1>7 DEF vars, IInv, TypeOK, InBuffer, HeaderDigits, c
<1> QED
  BY <1>1, <1>2, <1>3, <1>4, <1>5, <1>6, <1>7 DEF Next, Read

-----------------------------------------------------------------------------
\* The variables of read_packet have their types in every reachable state; the length
\* never exceeds the array (packet_reception.c:5-28).
THEOREM FramingTypeCorrect == Spec => []TypeOK
<1>1. IInv => TypeOK
  BY DEF IInv
<1> QED
  BY <1>1, InitInv, NextInv, PTL DEF Spec

\* Whatever is sent and however it is cut, the static length and count belong to the
\* header in the static buffer, and no read passes its end (packet_reception.c:5-7,
\* 32-36).
THEOREM ReadsStayInBuffer == Spec => []InBuffer
<1>1. IInv => InBuffer
  BY DEF IInv
<1> QED
  BY <1>1, InitInv, NextInv, PTL DEF Spec
-----------------------------------------------------------------------------
(* Cuts is a recursion over the positions of a stream, from its end: it can be *)
(* unfolded, because what CutAt takes from the rest lies behind its position.  *)

LEMMA MinOfNat ==
  ASSUME NEW T, T \subseteq Nat, NEW e \in T
  PROVE  \E m \in T : \A k \in T : m <= k
<1> DEFINE R == OpToRel(<, Nat)
<1>1. IsWellFoundedOn(R, Nat)
  BY NatLessThanWellFounded
<1>2. PICK m \in T : \A y \in Nat : <<y, m>> \in R => ~(y \in T)
  BY <1>1, WFMin
<1>3. \A k \in T : ~(k < m)
  BY <1>2 DEF OpToRel
<1>4. m \in Nat /\ \A k \in T : k \in Nat
  OBVIOUS
<1>5. \A k \in T : m <= k
  BY <1>3, <1>4
<1> QED
  BY <1>5

\* The length a header says, and where the next packet is looked for.
LengthAt(s, i) == read_num(SubSeq(s, i, i + 3))
Behind(s, i) == IF LengthAt(s, i) < 4 THEN i + 4 ELSE i + LengthAt(s, i)

\* f cuts s from its k-th byte on.
CutsFrom(s, k, f) == f = [i \in k .. Len(s) + 1 |-> CutAt(s, f, i)]

LEMMA HeaderLength ==
  ASSUME NEW s \in Seq(Byte), NEW i \in Nat \ {0}, i + 3 <= Len(s), IsHeader(s, i)
  PROVE  /\ LengthAt(s, i) \in 0 .. MAX_REQUEST_LENGTH
         /\ LengthAt(s, i) = ((s[i] * 10 + s[i + 1]) * 10 + s[i + 2]) * 10 + s[i + 3]
         /\ LengthAt(s, i) \in Nat
<1> DEFINE h == SubSeq(s, i, i + 3)
<1>1. h[1] = s[i] /\ h[2] = s[i + 1] /\ h[3] = s[i + 2] /\ h[4] = s[i + 3]
  <2>1. i + 3 - i + 1 = 4 /\ i + 1 - 1 = i /\ i + 2 - 1 = i + 1 /\ i + 3 - 1 = i + 2 /\ i + 4 - 1 = i + 3
    OBVIOUS
  <2>2. h = [j \in 1 .. 4 |-> s[i + j - 1]]
    BY <2>1
  <2>3. 1 \in 1 .. 4 /\ 2 \in 1 .. 4 /\ 3 \in 1 .. 4 /\ 4 \in 1 .. 4
    OBVIOUS
  <2> QED
    BY <2>1, <2>2, <2>3
<1>2. s[i] \in Digit /\ s[i + 1] \in Digit /\ s[i + 2] \in Digit /\ s[i + 3] \in Digit
  BY DEF IsHeader
<1> HIDE DEF h
<1>3. \A j \in 1 .. SIZEOF_NUM : h[j] \in Digit
  <2>1. \A j \in 1 .. 4 : j = 1 \/ j = 2 \/ j = 3 \/ j = 4
    OBVIOUS
  <2> QED
    BY <1>1, <1>2, <2>1 DEF SIZEOF_NUM
<1>4. read_num(h) \in 0 .. MAX_REQUEST_LENGTH
  BY <1>3, ReadNumBounded
<1>5. read_num(h) \in Nat
  <2>1. MAX_REQUEST_LENGTH \in Nat
    BY FramingAssumption, SMT
  <2> QED
    BY ONLY <1>4, <2>1, SMT
<1>6. read_num(h) = ((s[i] * 10 + s[i + 1]) * 10 + s[i + 2]) * 10 + s[i + 3]
  BY <1>1 DEF read_num
<1> QED
  BY <1>4, <1>5, <1>6 DEF LengthAt, h

\* CutAt in terms of these.
LEMMA CutAtCases ==
  ASSUME NEW s \in Seq(Byte), NEW i \in Nat \ {0}, NEW f
  PROVE  /\ i + 3 > Len(s) => CutAt(s, f, i) = <<>>
         /\ i + 3 <= Len(s) /\ ~IsHeader(s, i) => CutAt(s, f, i) = f[i + 1]
         /\ i + 3 <= Len(s) /\ IsHeader(s, i) =>
              CutAt(s, f, i) = IF i + LengthAt(s, i) - 1 > Len(s) THEN <<>>
                               ELSE <<SubSeq(s, i, i + LengthAt(s, i) - 1)>> \o f[Behind(s, i)]
<1>1. Len(s) \in Nat
  OBVIOUS
<1>2. i + 3 <= Len(s) => ~(i + 3 > Len(s))
  BY <1>1
<1> QED
  BY <1>2 DEF CutAt, LengthAt, Behind, SIZEOF_NUM

LEMMA CutsBehind ==
  ASSUME NEW s \in Seq(Byte), NEW i \in 1 .. Len(s) + 1, NEW f, NEW g,
         \A j \in 1 .. Len(s) + 1 : j > i => f[j] = g[j]
  PROVE  CutAt(s, f, i) = CutAt(s, g, i)
<1>1. i \in Nat \ {0} /\ Len(s) \in Nat /\ i <= Len(s) + 1
  OBVIOUS
<1>2. CASE i + 3 > Len(s)
  BY <1>1, <1>2, CutAtCases
<1>3. CASE i + 3 <= Len(s) /\ ~IsHeader(s, i)
  <2>1. f[i + 1] = g[i + 1]
    BY <1>1, <1>3
  <2> QED
    BY <1>1, <1>3, <2>1, CutAtCases
<1>4. CASE i + 3 <= Len(s) /\ IsHeader(s, i)
  <2>1. LengthAt(s, i) \in Nat
    BY <1>1, <1>4, HeaderLength
  <2>2. CASE i + LengthAt(s, i) - 1 > Len(s)
    BY <1>1, <1>4, <2>2, CutAtCases
  <2>3. CASE ~(i + LengthAt(s, i) - 1 > Len(s))
    <3>1. Behind(s, i) \in 1 .. Len(s) + 1 /\ Behind(s, i) > i
      BY <1>1, <1>4, <2>1, <2>3 DEF Behind
    <3>2. f[Behind(s, i)] = g[Behind(s, i)]
      BY <3>1
    <3>3. /\ CutAt(s, f, i) = <<SubSeq(s, i, i + LengthAt(s, i) - 1)>> \o f[Behind(s, i)]
          /\ CutAt(s, g, i) = <<SubSeq(s, i, i + LengthAt(s, i) - 1)>> \o g[Behind(s, i)]
      BY <1>1, <1>4, <2>3, CutAtCases
    <3> QED
      BY <3>2, <3>3
  <2> QED
    BY <2>2, <2>3
<1> QED
  BY <1>1, <1>2, <1>3, <1>4

LEMMA CutsBefore ==
  ASSUME NEW s \in Seq(Byte), NEW k \in 1 .. Len(s), NEW f, CutsFrom(s, k + 1, f)
  PROVE  \E g : CutsFrom(s, k, g)
<1> DEFINE N == Len(s)
           g == [i \in k .. N + 1 |-> IF i = k THEN CutAt(s, f, k) ELSE f[i]]
<1>1. k \in Nat /\ k >= 1 /\ N \in Nat /\ k <= N
  OBVIOUS
<1>2. \A j \in k + 1 .. N + 1 : f[j] = CutAt(s, f, j)
  BY DEF CutsFrom
<1>3. \A j \in 1 .. N + 1 : j > k => f[j] = g[j]
  BY <1>1
<1>4. \A i \in k .. N + 1 : g[i] = CutAt(s, f, i)
  <2> SUFFICES ASSUME NEW i \in k .. N + 1 PROVE g[i] = CutAt(s, f, i)
    OBVIOUS
  <2>1. CASE i = k
    BY <2>1
  <2>2. CASE i # k
    <3>1. i \in k + 1 .. N + 1
      BY <1>1, <2>2
    <3> QED
      BY <1>2, <2>2, <3>1
  <2> QED
    BY <2>1, <2>2
<1> HIDE DEF g
<1>5. \A i \in k .. N + 1 : CutAt(s, f, i) = CutAt(s, g, i)
  <2> SUFFICES ASSUME NEW i \in k .. N + 1 PROVE CutAt(s, f, i) = CutAt(s, g, i)
    OBVIOUS
  <2>1. i \in 1 .. N + 1 /\ \A j \in 1 .. N + 1 : j > i => f[j] = g[j]
    BY <1>1, <1>3
  <2> QED
    BY <2>1, CutsBehind
<1>6. g = [i \in k .. N + 1 |-> CutAt(s, g, i)]
  <2>1. \A i \in k .. N + 1 : g[i] = CutAt(s, g, i)
    BY <1>4, <1>5
  <2>2. g = [i \in k .. N + 1 |-> g[i]]
    BY DEF g
  <2> QED
    BY <2>1, <2>2
<1> QED
  BY <1>6 DEF CutsFrom

\* There is a function that cuts the whole of s, so Cuts is one.
LEMMA CutsUnfold ==
  ASSUME NEW s \in Seq(Byte)
  PROVE  \A i \in 1 .. Len(s) + 1 : Cuts(s)[i] = CutAt(s, Cuts(s), i)
<1> DEFINE N == Len(s)
           Can(k) == \E f : CutsFrom(s, k, f)
           Bad == {m \in 0 .. N : ~Can(N + 1 - m)}
<1>1. N \in Nat
  OBVIOUS
<1>2. Can(N + 1)
  <2> DEFINE f == [i \in N + 1 .. N + 1 |-> <<>>]
  <2>1. \A i \in N + 1 .. N + 1 : CutAt(s, f, i) = <<>>
    <3>1. \A i \in N + 1 .. N + 1 : i \in Nat \ {0} /\ i + 3 > N
      BY <1>1
    <3> QED
      BY <3>1, CutAtCases
  <2>2. CutsFrom(s, N + 1, f)
    BY <2>1 DEF CutsFrom
  <2> QED
    BY <2>2
<1>3. ASSUME NEW k \in 1 .. N, Can(k + 1) PROVE Can(k)
  BY <1>3, CutsBefore
<1> HIDE DEF Can
<1>4. Bad = {}
  <2> SUFFICES ASSUME NEW b \in Bad PROVE FALSE
    OBVIOUS
  <2>0. Bad \subseteq Nat
    BY <1>1
  <2>1. PICK m \in Bad : \A k \in Bad : m <= k
    BY <2>0, MinOfNat
  <2>2. m \in 0 .. N /\ ~Can(N + 1 - m)
    OBVIOUS
  <2>3. m # 0
    BY <1>1, <1>2, <2>2
  <2>4. m - 1 \in 0 .. N /\ N + 1 - m \in 1 .. N /\ (N + 1 - m) + 1 = N + 1 - (m - 1)
    BY <1>1, <2>2, <2>3
  <2>5. ~(m <= m - 1)
    BY <2>2
  <2>6. Can(N + 1 - (m - 1))
    BY <2>1, <2>4, <2>5
  <2> QED
    BY <1>3, <2>2, <2>4, <2>6
<1>5. Can(1)
  <2>1. N \in 0 .. N /\ N + 1 - N = 1
    BY <1>1
  <2>2. N \notin Bad
    BY <1>4
  <2> QED
    BY <2>1, <2>2
<1>6. \E f : f = [i \in 1 .. N + 1 |-> CutAt(s, f, i)]
  BY <1>5 DEF Can, CutsFrom
<1>7. Cuts(s) = [i \in 1 .. N + 1 |-> CutAt(s, Cuts(s), i)]
  BY <1>6, Zenon DEF Cuts
<1> QED
  BY <1>7

LEMMA NoRoom ==
  ASSUME NEW s \in Seq(Byte), NEW i \in 1 .. Len(s) + 1, i + 3 > Len(s)
  PROVE  Cuts(s)[i] = <<>>
<1>1. i \in Nat \ {0}
  OBVIOUS
<1>2. Cuts(s)[i] = CutAt(s, Cuts(s), i)
  BY CutsUnfold
<1> QED
  BY <1>1, <1>2, CutAtCases

\* No packet starts within three bytes before one that is no digit.
LEMMA SkipJunk ==
  ASSUME NEW s \in Seq(Byte), NEW m \in 1 .. Len(s), s[m] \notin Digit,
         NEW i \in 1 .. m, m <= i + 3
  PROVE  Cuts(s)[i] = Cuts(s)[i + 1]
<1>1. i \in Nat \ {0} /\ Len(s) \in Nat /\ m \in Nat /\ m <= Len(s)
      /\ i \in 1 .. Len(s) + 1 /\ i + 1 \in 1 .. Len(s) + 1
  OBVIOUS
<1>2. CASE i + 3 > Len(s)
  BY <1>1, <1>2, NoRoom
<1>3. CASE i + 3 <= Len(s)
  <2>1. ~IsHeader(s, i)
    BY <1>1 DEF IsHeader
  <2> QED
    BY <1>1, <1>3, <2>1, CutsUnfold, CutAtCases
<1> QED
  BY <1>1, <1>2, <1>3

\* The end of a stream in which a packet is in the buffer b.
LEMMA BufferedHeader ==
  ASSUME NEW s \in Seq(Byte), NEW m \in Nat, m <= Len(s),
         NEW b \in Seq(Byte), Len(b) <= m, Len(b) >= 4,
         \A j \in 1 .. 4 : b[j] \in Digit,
         \A j \in 1 .. Len(b) : b[j] = s[m - Len(b) + j],
         NEW i, i = m + 1 - Len(b)
  PROVE  /\ i \in 1 .. Len(s) + 1 /\ i \in Nat \ {0} /\ i + 3 <= Len(s)
         /\ IsHeader(s, i) /\ LengthAt(s, i) = read_num(b) /\ read_num(b) \in Nat
<1>1. /\ Len(b) \in Nat /\ i \in 1 .. Len(s) + 1 /\ i \in Nat \ {0} /\ i + 3 <= Len(s)
      /\ m - Len(b) + 1 = i /\ m - Len(b) + 2 = i + 1
      /\ m - Len(b) + 3 = i + 2 /\ m - Len(b) + 4 = i + 3
  OBVIOUS
<1>2. b[1] = s[i] /\ b[2] = s[i + 1] /\ b[3] = s[i + 2] /\ b[4] = s[i + 3]
  <2>1. 1 \in 1 .. Len(b) /\ 2 \in 1 .. Len(b) /\ 3 \in 1 .. Len(b) /\ 4 \in 1 .. Len(b)
    BY <1>1
  <2> QED
    BY <1>1, <2>1
<1>3. b[1] \in Digit /\ b[2] \in Digit /\ b[3] \in Digit /\ b[4] \in Digit
  OBVIOUS
<1>4. IsHeader(s, i)
  <2>1. \A j \in i .. i + 3 : j = i \/ j = i + 1 \/ j = i + 2 \/ j = i + 3
    <3>1. i \in Nat
      BY <1>1
    <3> QED
      BY ONLY <3>1
  <2> QED
    BY <1>2, <1>3, <2>1 DEF IsHeader
<1>5. LengthAt(s, i) = read_num(b) /\ LengthAt(s, i) \in Nat
  BY <1>1, <1>2, <1>4, HeaderLength DEF read_num
<1> QED
  BY <1>1, <1>4, <1>5

LEMMA WholePacket ==
  ASSUME NEW s \in Seq(Byte), NEW m \in Nat, m <= Len(s),
         NEW b \in Seq(Byte), Len(b) <= m, Len(b) >= 4,
         \A j \in 1 .. 4 : b[j] \in Digit,
         \A j \in 1 .. Len(b) : b[j] = s[m - Len(b) + j],
         Len(b) >= read_num(b), Len(b) = read_num(b) \/ Len(b) = 4
  PROVE  Cuts(s)[m + 1 - Len(b)] = <<SubSeq(b, 1, read_num(b))>> \o Cuts(s)[m + 1]
<1> DEFINE i == m + 1 - Len(b)
           len == read_num(b)
<1>1. /\ i \in 1 .. Len(s) + 1 /\ i \in Nat \ {0} /\ i + 3 <= Len(s)
      /\ IsHeader(s, i) /\ LengthAt(s, i) = len /\ len \in Nat
  BY BufferedHeader
<1>2. Len(b) \in Nat /\ Len(s) \in Nat /\ Len(b) >= len /\ (Len(b) = len \/ Len(b) = 4)
  OBVIOUS
<1> HIDE DEF len
<1>3. i + len - 1 <= Len(s)
  BY <1>1, <1>2
<1>4. Behind(s, i) = m + 1
  <2>1. \A x, y \in Nat : x >= 4 /\ x >= y /\ (x = y \/ x = 4) =>
          IF y < 4 THEN x = 4 ELSE x = y
    OBVIOUS
  <2>2. Len(b) = IF len < 4 THEN 4 ELSE len
    BY <1>1, <1>2, <2>1
  <2>3. i + Len(b) = m + 1
    BY <1>2
  <2> QED
    BY <1>1, <2>2, <2>3 DEF Behind
<1>5. SubSeq(s, i, i + len - 1) = SubSeq(b, 1, len)
  <2>1. /\ SubSeq(s, i, i + len - 1) = [j \in 1 .. len |-> s[i + j - 1]]
        /\ SubSeq(b, 1, len) = [j \in 1 .. len |-> b[1 + j - 1]]
    <3>1. i + len - 1 - i + 1 = len /\ len - 1 + 1 = len
      BY <1>1, <1>2
    <3> QED
      BY <1>1, <1>2, <1>3, <3>1
  <2>2. \A j \in 1 .. len : s[i + j - 1] = b[1 + j - 1]
    <3> SUFFICES ASSUME NEW j \in 1 .. len PROVE s[i + j - 1] = b[1 + j - 1]
      OBVIOUS
    <3>1. j \in 1 .. Len(b) /\ 1 + j - 1 = j /\ i + j - 1 = m - Len(b) + j
      BY <1>1, <1>2
    <3> QED
      BY <3>1
  <2> QED
    BY <2>1, <2>2
<1>6. Cuts(s)[i] = <<SubSeq(s, i, i + len - 1)>> \o Cuts(s)[Behind(s, i)]
  <2>1. ~(i + len - 1 > Len(s))
    BY <1>1, <1>2, <1>3
  <2>2. Cuts(s)[i] = CutAt(s, Cuts(s), i)
    BY <1>1, CutsUnfold
  <2> QED
    BY <1>1, <2>1, <2>2, CutAtCases
<1> QED
  BY <1>4, <1>5, <1>6 DEF len

LEMMA PushFront ==
  ASSUME NEW d \in Seq(Seq(Byte)), NEW p \in Seq(Byte), NEW r \in Seq(Seq(Byte))
  PROVE  Append(d, p) \o r = d \o (<<p>> \o r)
OBVIOUS

\* What is cut are packets.
LEMMA CutsType ==
  ASSUME NEW s \in Seq(Byte), NEW e \in 1 .. Len(s) + 1
  PROVE  Cuts(s)[e] \in Seq(Seq(Byte))
<1> DEFINE N == Len(s)
           Bad == {m \in 0 .. N : Cuts(s)[N + 1 - m] \notin Seq(Seq(Byte))}
<1>1. N \in Nat
  OBVIOUS
<1>2. \A i \in 1 .. N + 1 :
        (\A j \in 1 .. N + 1 : j > i => Cuts(s)[j] \in Seq(Seq(Byte))) => Cuts(s)[i] \in Seq(Seq(Byte))
  <2> SUFFICES ASSUME NEW i \in 1 .. N + 1,
                      \A j \in 1 .. N + 1 : j > i => Cuts(s)[j] \in Seq(Seq(Byte))
               PROVE  Cuts(s)[i] \in Seq(Seq(Byte))
    OBVIOUS
  <2>1. i \in Nat \ {0} /\ Cuts(s)[i] = CutAt(s, Cuts(s), i)
    BY CutsUnfold
  <2>2. <<>> \in Seq(Seq(Byte))
    OBVIOUS
  <2>3. CASE i + 3 > N
    BY <2>1, <2>2, <2>3, NoRoom
  <2>4. CASE i + 3 <= N /\ ~IsHeader(s, i)
    <3>1. i + 1 \in 1 .. N + 1 /\ i + 1 > i
      BY <1>1, <2>1, <2>4
    <3>2. Cuts(s)[i] = Cuts(s)[i + 1]
      BY <2>1, <2>4, CutAtCases
    <3> QED
      BY <3>1, <3>2
  <2>5. CASE i + 3 <= N /\ IsHeader(s, i)
    <3> DEFINE len == LengthAt(s, i)
    <3>1. len \in Nat
      BY <2>1, <2>5, HeaderLength
    <3>2. CASE i + len - 1 > N
      BY <2>1, <2>2, <2>5, <3>2, CutAtCases
    <3>3. CASE ~(i + len - 1 > N)
      <4>1. Behind(s, i) \in 1 .. N + 1 /\ Behind(s, i) > i
        BY <1>1, <2>1, <2>5, <3>1, <3>3 DEF Behind
      <4>2. Cuts(s)[Behind(s, i)] \in Seq(Seq(Byte))
        BY <4>1
      <4>3. Cuts(s)[i] = <<SubSeq(s, i, i + len - 1)>> \o Cuts(s)[Behind(s, i)]
        BY <2>1, <2>5, <3>3, CutAtCases
      <4> HIDE DEF len
      <4>4. SubSeq(s, i, i + len - 1) \in Seq(Byte)
        BY <1>1, <2>1, <3>1, <3>3
      <4> QED
        BY <4>2, <4>3, <4>4
    <3> QED
      BY <3>2, <3>3
  <2> QED
    BY <1>1, <2>1, <2>3, <2>4, <2>5
<1>3. Bad = {}
  <2> SUFFICES ASSUME NEW b \in Bad PROVE FALSE
    OBVIOUS
  <2>0. Bad \subseteq Nat
    BY <1>1
  <2>1. PICK m \in Bad : \A k \in Bad : m <= k
    BY <2>0, MinOfNat
  <2>2. m \in 0 .. N /\ N + 1 - m \in 1 .. N + 1 /\ Cuts(s)[N + 1 - m] \notin Seq(Seq(Byte))
    BY <1>1
  <2>3. PICK j \in 1 .. N + 1 : j > N + 1 - m /\ Cuts(s)[j] \notin Seq(Seq(Byte))
    BY <1>2, <2>2
  <2>4. N + 1 - j \in 0 .. N /\ N + 1 - (N + 1 - j) = j /\ ~(m <= N + 1 - j)
    BY <1>1, <2>2, <2>3
  <2>5. N + 1 - j \in Bad
    BY <2>3, <2>4
  <2> QED
    BY <2>1, <2>4, <2>5
<1>4. N + 1 - e \in 0 .. N /\ N + 1 - (N + 1 - e) = e
  BY <1>1
<1>5. N + 1 - e \notin Bad
  BY <1>3
<1> QED
  BY <1>4, <1>5

-----------------------------------------------------------------------------
(* What has been delivered is how any stream that begins with the bytes read is *)
(* cut, up to the packet in the buffer.                                         *)
Prefix(s) == s \in Seq(Byte) /\ n <= Len(s) /\ \A j \in 1 .. n : s[j] = sent[j]

\* The buffer holds the last bytes read.
Kept == c <= n /\ \A j \in 1 .. c : buffer[j] = sent[n - c + j]

Ahead == \A s : Prefix(s) => Cuts(s)[1] = delivered \o Cuts(s)[n + 1 - c]

\* The inductive invariant.
CutInv == IInv /\ Kept /\ Ahead

LEMMA PrefixShrinks ==
  ASSUME NEW s \in Seq(Byte), NEW m \in Nat, n \in Nat, n <= m, m <= Len(s),
         \A j \in 1 .. m : s[j] = sent[j]
  PROVE  Prefix(s)
<1>1. Len(s) \in Nat /\ n <= Len(s) /\ \A j \in 1 .. n : j \in 1 .. m
  OBVIOUS
<1> QED
  BY <1>1 DEF Prefix

LEMMA LengthIsNat == CutInv => l \in Nat
<1> SUFFICES ASSUME CutInv PROVE l \in Nat
  OBVIOUS
<1>1. l \in 0 .. MAX_REQUEST_LENGTH
  BY DEF CutInv, IInv, TypeOK
<1>2. MAX_REQUEST_LENGTH \in Nat
  BY ONLY FramingAssumption
<1> QED
  BY ONLY <1>1, <1>2

LEMMA CutInit == Init => CutInv
<1> SUFFICES ASSUME Init PROVE CutInv
  OBVIOUS
<1>1. IInv
  BY InitInv
<1>2. Len(buffer) = 0 /\ n = 0 /\ delivered = <<>>
  BY DEF Init
<1>3. Kept
  BY <1>2 DEF Kept, c
<1>4. Ahead
  <2> SUFFICES ASSUME NEW s, Prefix(s) PROVE Cuts(s)[1] = <<>> \o Cuts(s)[1]
    BY <1>2 DEF Ahead, c
  <2>1. \A i \in 1 .. Len(s) + 1 : Cuts(s)[i] \in Seq(Seq(Byte))
    BY CutsType DEF Prefix
  <2>2. 1 \in 1 .. Len(s) + 1
    BY DEF Prefix
  <2>3. Cuts(s)[1] \in Seq(Seq(Byte))
    BY <2>1, <2>2
  <2> QED
    BY ONLY <2>3
<1> QED
  BY <1>1, <1>3, <1>4 DEF CutInv

\* Bytes that only join the buffer, or the stream, change nothing.
LEMMA SameCut ==
  ASSUME CutInv, IInv', delivered' = delivered,
         NEW m \in Nat, n' = m, NEW k \in Nat, c' = k, m - k = n - c, m >= n,
         \A j \in 1 .. n : sent'[j] = sent[j], Kept'
  PROVE  CutInv'
<1>1. n \in Nat /\ c \in Nat
  BY DEF CutInv, IInv, TypeOK, c
<1>2. n' + 1 - c' = n + 1 - c
  BY <1>1
<1>3. ASSUME NEW s, Prefix(s)' PROVE Prefix(s)
  <2>1. s \in Seq(Byte) /\ m <= Len(s) /\ \A j \in 1 .. m : s[j] = sent'[j]
    BY <1>3 DEF Prefix
  <2>2. Len(s) \in Nat /\ \A j \in 1 .. n : j \in 1 .. m
    BY <1>1, <2>1
  <2> QED
    BY <1>1, <2>1, <2>2 DEF Prefix
<1>4. Ahead'
  <2> SUFFICES ASSUME NEW s, Prefix(s)'
               PROVE  Cuts(s)[1] = delivered' \o Cuts(s)[n' + 1 - c']
    BY DEF Ahead
  <2>1. Cuts(s)[1] = delivered \o Cuts(s)[n + 1 - c]
    BY <1>3 DEF CutInv, Ahead
  <2> QED
    BY <1>2, <2>1
<1> QED
  BY <1>4 DEF CutInv

\* A byte that is no digit ends what looked like a header (packet_reception.c:21-24).
LEMMA JunkCut ==
  ASSUME CutInv, IInv', delivered' = delivered, sent' = sent, buffer' = <<>>, n' = n + 1,
         n + 1 <= Len(sent), sent[n + 1] \notin Digit, c < 4
  PROVE  CutInv'
<1>1. n \in Nat /\ c \in Nat /\ c <= n /\ c' = 0 /\ sent \in Seq(Byte)
  BY DEF CutInv, IInv, TypeOK, Kept, c
<1>2. ASSUME NEW s, Prefix(s)' PROVE Cuts(s)[1] = delivered \o Cuts(s)[n + 2]
  <2>1. /\ s \in Seq(Byte) /\ n + 1 <= Len(s) /\ Len(s) \in Nat
        /\ \A j \in 1 .. n + 1 : s[j] = sent[j]
    BY <1>2 DEF Prefix
  <2>2. Prefix(s)
    BY <1>1, <2>1 DEF Prefix
  <2>3. Cuts(s)[1] = delivered \o Cuts(s)[n + 1 - c]
    BY <2>2 DEF CutInv, Ahead
  <2>4. s[n + 1] \notin Digit /\ n + 1 \in 1 .. Len(s)
    BY <1>1, <2>1
  <2>5. \A i \in 1 .. n + 1 : n + 1 <= i + 3 => Cuts(s)[i] = Cuts(s)[i + 1]
    BY <2>1, <2>4, SkipJunk
  <2>6. Cuts(s)[n + 1] = Cuts(s)[n + 2]
    <3>1. n + 1 \in 1 .. n + 1 /\ n + 1 <= n + 1 + 3 /\ n + 1 + 1 = n + 2
      BY <1>1
    <3> QED
      BY <2>5, <3>1
  <2>7. n >= 1 => Cuts(s)[n] = Cuts(s)[n + 1]
    <3>1. n >= 1 => n \in 1 .. n + 1 /\ n + 1 <= n + 3
      BY <1>1
    <3> QED
      BY <2>5, <3>1
  <2>8. n >= 2 => Cuts(s)[n - 1] = Cuts(s)[n]
    <3>1. n >= 2 => n - 1 \in 1 .. n + 1 /\ n + 1 <= n - 1 + 3 /\ n - 1 + 1 = n
      BY <1>1
    <3> QED
      BY <2>5, <3>1
  <2>9. n >= 3 => Cuts(s)[n - 2] = Cuts(s)[n - 1]
    <3>1. n >= 3 => n - 2 \in 1 .. n + 1 /\ n + 1 <= n - 2 + 3 /\ n - 2 + 1 = n - 1
      BY <1>1
    <3> QED
      BY <2>5, <3>1
  <2>10. \/ c = 0 /\ n + 1 - c = n + 1
         \/ c = 1 /\ n + 1 - c = n /\ n >= 1
         \/ c = 2 /\ n + 1 - c = n - 1 /\ n >= 2
         \/ c = 3 /\ n + 1 - c = n - 2 /\ n >= 3
    BY <1>1
  <2>11. Cuts(s)[n + 1 - c] = Cuts(s)[n + 2]
    <3>1. n >= 2 => n >= 1
      BY <1>1
    <3>2. n >= 3 => n >= 2
      BY <1>1
    <3> QED
      BY <2>6, <2>7, <2>8, <2>9, <2>10, <3>1, <3>2
  <2> QED
    BY <2>3, <2>11
<1>3. Ahead'
  <2> SUFFICES ASSUME NEW s, Prefix(s)'
               PROVE  Cuts(s)[1] = delivered' \o Cuts(s)[n' + 1 - c']
    BY DEF Ahead
  <2>1. n' + 1 - c' = n + 2
    BY <1>1
  <2> QED
    BY <1>2, <2>1
<1>4. Kept'
  BY <1>1 DEF Kept
<1> QED
  BY <1>3, <1>4 DEF CutInv

\* A packet that is whole in b is delivered (packet_reception.c:37-42).
LEMMA WholeCut ==
  ASSUME CutInv, IInv', sent' = sent, NEW m \in Nat, n' = m, m <= Len(sent),
         NEW b \in Seq(Byte), Len(b) <= m, Len(b) >= 4, m - Len(b) = n - c, m >= n,
         \A j \in 1 .. 4 : b[j] \in Digit, \A j \in 1 .. Len(b) : b[j] = sent[m - Len(b) + j],
         l = read_num(b), Len(b) >= l, Len(b) = l \/ Len(b) = 4,
         buffer' = <<>>, delivered' = Append(delivered, SubSeq(b, 1, l))
  PROVE  CutInv'
<1>1. n \in Nat /\ c \in Nat /\ c <= n /\ c' = 0 /\ Len(b) \in Nat
      /\ l \in Nat /\ delivered \in Seq(Seq(Byte))
  <2>1. l \in Nat
    <3>1. l \in 0 .. MAX_REQUEST_LENGTH
      BY DEF CutInv, IInv, TypeOK
    <3>2. MAX_REQUEST_LENGTH \in Nat
      BY ONLY FramingAssumption
    <3> QED
      BY ONLY <3>1, <3>2
  <2>2. c' = 0
    BY DEF c
  <2>3. n \in Nat /\ c \in Nat /\ c <= n
    BY DEF CutInv, IInv, TypeOK, Kept, c
  <2>4. delivered \in Seq(Seq(Byte))
    BY DEF CutInv, IInv, TypeOK
  <2>5. Len(b) \in Nat
    OBVIOUS
  <2> QED
    BY ONLY <2>1, <2>2, <2>3, <2>4, <2>5
<1>0. /\ m \in Nat /\ b \in Seq(Byte) /\ Len(b) <= m /\ Len(b) >= 4 /\ m - Len(b) = n - c /\ m >= n
      /\ l = read_num(b) /\ Len(b) >= l /\ (Len(b) = l \/ Len(b) = 4)
  OBVIOUS
<1> DEFINE p == SubSeq(b, 1, l)
<1>2. p \in Seq(Byte)
  BY ONLY <1>0, <1>1
<1> HIDE DEF p
<1>3. ASSUME NEW s, Prefix(s)' PROVE Cuts(s)[1] = delivered' \o Cuts(s)[m + 1]
  <2>1. /\ s \in Seq(Byte) /\ m <= Len(s) /\ Len(s) \in Nat
        /\ \A j \in 1 .. m : s[j] = sent[j]
    BY <1>3 DEF Prefix
  <2>2. Prefix(s)
    BY <1>0, <1>1, <2>1, PrefixShrinks
  <2>3. Cuts(s)[1] = delivered \o Cuts(s)[n + 1 - c]
    BY <2>2 DEF CutInv, Ahead
  <2>4. \A j \in 1 .. Len(b) : b[j] = s[m - Len(b) + j]
    <3> SUFFICES ASSUME NEW j \in 1 .. Len(b) PROVE b[j] = s[m - Len(b) + j]
      OBVIOUS
    <3>1. m - Len(b) + j \in 1 .. m
      BY ONLY <1>0, <1>1, j \in 1 .. Len(b)
    <3>2. b[j] = sent[m - Len(b) + j]
      OBVIOUS
    <3> QED
      BY <2>1, <3>1, <3>2
  <2>5. Cuts(s)[m + 1 - Len(b)] = <<p>> \o Cuts(s)[m + 1]
    BY <1>1, <2>1, <2>4, WholePacket DEF p
  <2>6. m + 1 - Len(b) = n + 1 - c
    <3>1. \A w, x, y, z \in Nat : w - x = y - z => w + 1 - x = y + 1 - z
      OBVIOUS
    <3>2. m \in Nat /\ Len(b) \in Nat /\ n \in Nat /\ c \in Nat /\ m - Len(b) = n - c
      BY ONLY <1>0, <1>1
    <3> QED
      BY ONLY <3>1, <3>2
  <2>7. m + 1 \in 1 .. Len(s) + 1
    BY ONLY <1>1, <2>1
  <2>8. Cuts(s)[m + 1] \in Seq(Seq(Byte))
    BY <2>1, <2>7, CutsType
  <2>9. delivered' = Append(delivered, p)
    BY DEF p
  <2>10. Append(delivered, p) \o Cuts(s)[m + 1] = delivered \o (<<p>> \o Cuts(s)[m + 1])
    BY ONLY <1>1, <1>2, <2>8, PushFront
  <2> QED
    BY <2>3, <2>5, <2>6, <2>9, <2>10
<1>4. Ahead'
  <2> SUFFICES ASSUME NEW s, Prefix(s)'
               PROVE  Cuts(s)[1] = delivered' \o Cuts(s)[n' + 1 - c']
    BY DEF Ahead
  <2>1. n' + 1 - c' = m + 1
    BY <1>1
  <2> QED
    BY <1>3, <2>1
<1>5. Kept'
  BY <1>1 DEF Kept
<1> QED
  BY <1>4, <1>5 DEF CutInv

LEMMA HeaderByteCut ==
  ASSUME CutInv, IInv', HeaderByte
  PROVE  CutInv'
<1> DEFINE b == sent[n + 1]
           h == Scanned(b)
<1>1. /\ n' = n + 1 /\ buffer' = h /\ delivered' = delivered /\ sent' = sent
      /\ at = "header" /\ Len(sent) - n > 0
  BY DEF HeaderByte, Fails, Waiting
<1>2. /\ n \in Nat /\ c \in Nat /\ c < 4 /\ c <= n /\ Len(sent) \in Nat /\ n + 1 <= Len(sent)
      /\ buffer \in Seq(Byte) /\ b \in Byte
  BY <1>1 DEF CutInv, IInv, TypeOK, InBuffer, Kept, c, SIZEOF_NUM
<1>3. CASE b \notin Digit
  <2>1. h = <<>>
    BY <1>3 DEF Scanned
  <2> QED
    BY <1>1, <1>2, <1>3, <2>1, JunkCut
<1>4. CASE b \in Digit
  <2>1. h = Append(buffer, b)
    BY <1>4 DEF Scanned
  <2>2. Len(h) = c + 1 /\ h[c + 1] = b /\ \A j \in 1 .. c : h[j] = buffer[j]
    BY <1>2, <2>1 DEF c
  <2>3. c' = c + 1
    BY <1>1, <2>2 DEF c
  <2> HIDE DEF h
  <2>4. Kept'
    <3>1. (n + 1) - (c + 1) = n - c /\ c + 1 <= n + 1
      BY <1>2
    <3>2. ASSUME NEW j \in 1 .. c + 1 PROVE h[j] = sent[n - c + j]
      <4>1. CASE j = c + 1
        <5>1. n - c + j = n + 1
          BY <1>2, <4>1
        <5> QED
          BY <2>2, <4>1, <5>1
      <4>2. CASE j # c + 1
        <5>1. j \in 1 .. c
          BY <1>2, <4>2
        <5> QED
          BY <2>2, <5>1 DEF CutInv, Kept
      <4> QED
        BY <4>1, <4>2
    <3> QED
      BY <1>1, <2>3, <3>1, <3>2 DEF Kept
  <2>5. n + 1 \in Nat /\ c + 1 \in Nat /\ (n + 1) - (c + 1) = n - c /\ n + 1 >= n
    BY <1>2
  <2> QED
    BY <1>1, <2>3, <2>4, <2>5, SameCut
<1> QED
  BY <1>3, <1>4

LEMMA PayloadReadCut ==
  ASSUME CutInv, IInv', NEW k \in 1 .. Waiting, PayloadRead(k)
  PROVE  CutInv'
<1> DEFINE part == SubSeq(sent, n + 1, n + k)
           b == buffer \o part
<1>1. /\ at = "payload" /\ Len(buffer) >= 4 /\ l = read_num(buffer)
      /\ \A i \in 1 .. 4 : buffer[i] \in Digit
  BY DEF PayloadRead, CutInv, IInv, TypeOK, InBuffer, HeaderDigits, c, SIZEOF_NUM
<1>2. /\ sent \in Seq(Byte) /\ buffer \in Seq(Byte) /\ Len(buffer) \in Nat /\ Len(sent) \in Nat
      /\ n \in Nat /\ k \in Nat /\ k >= 1 /\ n + k <= Len(sent) /\ Len(buffer) + k <= l
      /\ Len(buffer) <= n /\ \A j \in 1 .. Len(buffer) : buffer[j] = sent[n - Len(buffer) + j]
  <2>1. /\ sent \in Seq(Byte) /\ buffer \in Seq(Byte) /\ n \in 0 .. Len(sent)
        /\ Len(buffer) <= n /\ \A j \in 1 .. Len(buffer) : buffer[j] = sent[n - Len(buffer) + j]
    BY DEF CutInv, IInv, TypeOK, Kept, c
  <2>2. k \in 1 .. Len(sent) - n /\ k <= l - Len(buffer) /\ l \in Nat
    BY LengthIsNat DEF PayloadRead, Waiting, c
  <2>3. Len(sent) \in Nat /\ Len(buffer) \in Nat /\ n \in Nat
    BY <2>1
  <2>4. k \in Nat /\ k >= 1 /\ n + k <= Len(sent) /\ Len(buffer) + k <= l
    BY ONLY <2>2, <2>3
  <2> QED
    BY <2>1, <2>3, <2>4
<1>3. part \in Seq(Byte) /\ Len(part) = k /\ \A j \in 1 .. k : part[j] = sent[n + j]
  <2>1. part \in Seq(Byte) /\ Len(part) = k
    BY <1>2, PartOfStream
  <2>2. n + k - (n + 1) + 1 = k
    BY <1>2
  <2>3. part = [j \in 1 .. k |-> sent[n + 1 + j - 1]]
    BY <1>2, <2>2
  <2>4. \A j \in 1 .. k : n + 1 + j - 1 = n + j
    BY <1>2
  <2> QED
    BY <2>1, <2>3, <2>4
<1> HIDE DEF part
<1>4. /\ b \in Seq(Byte) /\ Len(b) = Len(buffer) + k
      /\ \A i \in 1 .. 4 : b[i] = buffer[i]
      /\ read_num(b) = read_num(buffer)
  BY <1>1, <1>2, <1>3, AppendedKeepsHeader DEF SIZEOF_NUM
<1>5. \A j \in 1 .. Len(b) : b[j] = sent[(n + k) - Len(b) + j]
  <2> SUFFICES ASSUME NEW j \in 1 .. Len(b) PROVE b[j] = sent[(n + k) - Len(b) + j]
    OBVIOUS
  <2>1. j \in Nat /\ j >= 1 /\ j <= Len(buffer) + k /\ (n + k) - Len(b) + j = n - Len(buffer) + j
    BY <1>2, <1>4
  <2>2. CASE j <= Len(buffer)
    <3>1. j \in 1 .. Len(buffer) /\ b[j] = buffer[j]
      BY <1>2, <1>3, <2>1, <2>2
    <3> QED
      BY <1>2, <2>1, <3>1
  <2>3. CASE ~(j <= Len(buffer))
    <3>1. j - Len(buffer) \in 1 .. k /\ b[j] = part[j - Len(buffer)]
          /\ n + (j - Len(buffer)) = n - Len(buffer) + j
      BY <1>2, <1>3, <2>1, <2>3
    <3> QED
      BY <1>3, <2>1, <3>1
  <2> QED
    BY <2>2, <2>3
<1>6. /\ n' = n + k /\ sent' = sent
      /\ IF Len(b) < l THEN buffer' = b /\ delivered' = delivered ELSE Deliver(b)
  BY DEF PayloadRead, b, part
<1> HIDE DEF b
<1>7. /\ n + k \in Nat /\ Len(b) \in Nat /\ n + k >= n /\ Len(b) <= n + k /\ Len(b) >= 4
      /\ (n + k) - Len(b) = n - c
  BY <1>1, <1>2, <1>4 DEF c
<1>8. CASE Len(b) < l
  <2>1. buffer' = b /\ delivered' = delivered /\ c' = Len(b)
    BY <1>6, <1>8 DEF c
  <2>2. Kept'
    BY <1>5, <1>6, <1>7, <2>1 DEF Kept
  <2> QED
    BY <1>6, <1>7, <2>1, <2>2, SameCut
<1>9. CASE ~(Len(b) < l)
  <2>1. Deliver(b)
    BY <1>6, <1>9
  <2>2. Len(b) = l
    <3>1. l \in Nat /\ Len(b) <= l
      BY <1>2, <1>4, LengthIsNat
    <3> QED
      BY ONLY <1>7, <1>9, <3>1
  <2>3. SubSeq(b, 1, l) = b
    BY <1>4, <2>2
  <2>4. buffer' = <<>> /\ delivered' = Append(delivered, SubSeq(b, 1, l))
    BY <2>1, <2>3 DEF Deliver
  <2>5. l = read_num(b) /\ Len(b) >= l /\ \A j \in 1 .. 4 : b[j] \in Digit
    BY <1>1, <1>4, <1>7, <2>2
  <2> QED
    BY <1>2, <1>4, <1>5, <1>6, <1>7, <2>2, <2>4, <2>5, WholeCut
<1> QED
  BY <1>8, <1>9

LEMMA PayloadCompleteCut ==
  ASSUME CutInv, IInv', PayloadComplete
  PROVE  CutInv'
<1>1. /\ at = "payload" /\ c >= l /\ n' = n /\ sent' = sent
      /\ buffer' = <<>> /\ delivered' = Append(delivered, SubSeq(buffer, 1, l))
  BY DEF PayloadComplete, Deliver
<1>2. /\ buffer \in Seq(Byte) /\ n \in Nat /\ n <= Len(sent) /\ Len(buffer) <= n /\ c = Len(buffer)
      /\ \A j \in 1 .. Len(buffer) : buffer[j] = sent[n - Len(buffer) + j]
  BY DEF CutInv, IInv, TypeOK, Kept, c
<1>3. /\ Len(buffer) >= 4 /\ l = read_num(buffer) /\ (Len(buffer) <= l \/ Len(buffer) = 4)
      /\ \A i \in 1 .. 4 : buffer[i] \in Digit
  BY <1>1 DEF CutInv, IInv, InBuffer, HeaderDigits, c, SIZEOF_NUM
<1>4. Len(buffer) = l \/ Len(buffer) = 4
  BY <1>1, <1>2, <1>3, LengthIsNat
<1>5. n - Len(buffer) = n - c /\ n >= n /\ Len(buffer) >= l
  BY <1>1, <1>2
<1> QED
  BY <1>1, <1>2, <1>3, <1>4, <1>5, WholeCut

\* One step per action.
LEMMA CutNext == CutInv /\ [Next]_vars => CutInv'
<1> SUFFICES ASSUME CutInv, [Next]_vars PROVE CutInv'
  OBVIOUS
<1>1. IInv'
  BY NextInv DEF CutInv
<1>2. n \in Nat /\ c \in Nat
  BY DEF CutInv, IInv, TypeOK, c
<1>3. ASSUME UNCHANGED <<sent, n, buffer, delivered>> PROVE CutInv'
  <2>1. Kept' /\ c' = c
    BY <1>3 DEF CutInv, Kept, c
  <2> QED
    BY <1>1, <1>2, <1>3, <2>1, SameCut
<1>4. CASE Call \/ Empty \/ UNCHANGED vars
  BY <1>3, <1>4 DEF Call, Empty, vars
<1>5. CASE HeaderByte
  BY <1>1, <1>5, HeaderByteCut
<1>6. CASE \E k \in 1 .. Waiting : PayloadRead(k)
  BY <1>1, <1>6, PayloadReadCut
<1>7. CASE PayloadComplete
  BY <1>1, <1>7, PayloadCompleteCut
<1>8. CASE \E b \in Byte : Write(b)
  <2> PICK b \in Byte : Write(b)
    BY <1>8
  <2>1. sent' = Append(sent, b) /\ UNCHANGED <<n, buffer, delivered>>
    BY DEF Write
  <2>2. c' = c /\ c <= n /\ \A j \in 1 .. n : sent'[j] = sent[j]
    BY <2>1 DEF CutInv, IInv, TypeOK, Kept, c
  <2>3. Kept'
    <3>1. ASSUME NEW j \in 1 .. c PROVE buffer[j] = sent'[n - c + j]
      <4>1. n - c + j \in 1 .. n
        BY <1>2, <2>2
      <4> QED
        BY <2>2, <4>1 DEF CutInv, Kept
    <3> QED
      BY <2>1, <2>2, <3>1 DEF Kept
  <2>4. n' = n /\ delivered' = delivered /\ n - c = n - c /\ n >= n
    BY <1>2, <2>1
  <2> QED
    BY <1>1, <1>2, <2>2, <2>3, <2>4, SameCut
<1> QED
  BY <1>4, <1>5, <1>6, <1>7, <1>8 DEF Next, Read

\* What the invariant says of the stream read so far.
LEMMA CutNow == CutInv => CutsDoNotMatter
<1> SUFFICES ASSUME CutInv PROVE CutsDoNotMatter
  OBVIOUS
<1> DEFINE s == SubSeq(sent, 1, n)
           i == n + 1 - c
<1>1. /\ sent \in Seq(Byte) /\ n \in Nat /\ n <= Len(sent) /\ c \in Nat /\ c <= n
      /\ buffer \in Seq(Byte) /\ c = Len(buffer) /\ delivered \in Seq(Seq(Byte))
      /\ \A j \in 1 .. Len(buffer) : buffer[j] = sent[n - Len(buffer) + j]
  BY DEF CutInv, IInv, TypeOK, Kept, c
<1>2. s \in Seq(Byte) /\ Len(s) = n /\ \A j \in 1 .. n : s[j] = sent[j]
  BY <1>1
<1> HIDE DEF s
<1>3. Cuts(s)[1] = delivered \o Cuts(s)[i]
  <2>1. Prefix(s)
    BY <1>1, <1>2 DEF Prefix
  <2> QED
    BY <2>1 DEF CutInv, Ahead
<1>4. i \in 1 .. Len(s) + 1
  BY <1>1, <1>2
<1>5. CASE ~(c >= 4)
  <2>1. i + 3 > Len(s)
    BY <1>1, <1>2, <1>5
  <2>2. Cuts(s)[i] = <<>>
    BY <1>2, <1>4, <2>1, NoRoom
  <2>3. ~InHand
    BY <1>5 DEF InHand, SIZEOF_NUM
  <2> QED
    BY <1>3, <2>2, <2>3 DEF CutsDoNotMatter, Frames, s
<1>6. CASE c >= 4
  <2>1. /\ l = read_num(buffer) /\ (c <= l \/ c = 4) /\ \A j \in 1 .. 4 : buffer[j] \in Digit
        /\ l \in Nat
    <3>1. l = read_num(buffer) /\ (c <= l \/ c = 4)
      BY <1>6 DEF CutInv, IInv, InBuffer, SIZEOF_NUM
    <3>2. \A j \in 1 .. 4 : j <= c
      BY <1>1, <1>6
    <3>3. \A j \in 1 .. 4 : buffer[j] \in Digit
      BY <3>2 DEF CutInv, IInv, HeaderDigits, SIZEOF_NUM
    <3> QED
      BY <3>1, <3>3, LengthIsNat
  <2>2. \A j \in 1 .. Len(buffer) : buffer[j] = s[n - Len(buffer) + j]
    <3> SUFFICES ASSUME NEW j \in 1 .. Len(buffer) PROVE buffer[j] = s[n - Len(buffer) + j]
      OBVIOUS
    <3>1. n - Len(buffer) + j \in 1 .. n
      BY <1>1
    <3> QED
      BY <1>1, <1>2, <3>1
  <2>5. n <= Len(s) /\ Len(buffer) <= n /\ Len(buffer) >= 4
    BY <1>1, <1>2, <1>6
  <2>3. CASE c >= l
    <3>1. c = l \/ c = 4
      BY <1>1, <2>1, <2>3
    <3>2. Cuts(s)[n + 1 - Len(buffer)] = <<SubSeq(buffer, 1, l)>> \o Cuts(s)[n + 1]
      <4>1. Len(buffer) >= read_num(buffer) /\ (Len(buffer) = read_num(buffer) \/ Len(buffer) = 4)
        BY <1>1, <2>1, <2>3, <3>1
      <4> QED
        BY <1>1, <1>2, <2>1, <2>2, <2>5, <4>1, WholePacket
    <3>3. Cuts(s)[n + 1] = <<>>
      <4>1. n + 1 \in 1 .. Len(s) + 1 /\ n + 1 + 3 > Len(s)
        BY <1>1, <1>2
      <4> QED
        BY <1>2, <4>1, NoRoom
    <3>4. Cuts(s)[i] = <<SubSeq(buffer, 1, l)>>
      BY <1>1, <3>2, <3>3
    <3>5. InHand
      BY <1>6, <2>3 DEF InHand, SIZEOF_NUM
    <3> QED
      BY <1>3, <3>4, <3>5 DEF CutsDoNotMatter, Frames, s
  <2>4. CASE ~(c >= l)
    <3>1. i \in Nat \ {0} /\ i + 3 <= Len(s) /\ IsHeader(s, i) /\ LengthAt(s, i) = l
      <4>1. i = n + 1 - Len(buffer)
        BY <1>1
      <4> HIDE DEF i
      <4> QED
        <5>1. /\ s \in Seq(Byte) /\ n \in Nat /\ n <= Len(s) /\ buffer \in Seq(Byte)
              /\ Len(buffer) <= n /\ Len(buffer) >= 4 /\ l = read_num(buffer)
          BY <1>1, <1>2, <2>1, <2>5
        <5>2. \A j \in 1 .. 4 : buffer[j] \in Digit
          BY <2>1
        <5> QED
          BY ONLY <5>1, <5>2, <2>2, <4>1, BufferedHeader
    <3>2. i + l - 1 > Len(s)
      BY <1>1, <1>2, <2>1, <2>4
    <3>3. Cuts(s)[i] = <<>>
      BY <1>2, <1>4, <3>1, <3>2, CutsUnfold, CutAtCases
    <3>4. ~InHand
      BY <2>4 DEF InHand
    <3> QED
      BY <1>3, <3>3, <3>4 DEF CutsDoNotMatter, Frames, s
  <2> QED
    BY <2>3, <2>4
<1> QED
  BY <1>5, <1>6

\* However a stream of any bytes is cut into reads and calls, what has reached
\* process_packet, with the packet complete in the buffer, is the stream cut at its
\* headers (packet_reception.c:9-46).
THEOREM PacketsAreTheStream == Spec => []CutsDoNotMatter
<1> QED
  BY CutInit, CutNext, CutNow, PTL DEF Spec

=============================================================================
