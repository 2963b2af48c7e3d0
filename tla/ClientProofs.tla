---------------------------- MODULE ClientProofs ----------------------------
(***************************************************************************)
(* What holds of a client whatever its user types and whatever a server    *)
(* sends it, for any number of lines, nicks, files and parts.  Good is the *)
(* invariant of one client; every handler keeps it, and no handler takes   *)
(* back an id (Keeps).                                                     *)
(***************************************************************************)
EXTENDS Client, SequenceTheorems, WellFoundedInduction, TLAPS

\* A sequence whose elements begin with one of the words of T.
Listed(s, T) == \E A : (\A x \in A : x[1] \in T) /\ s \in Seq(A)

Words == {"HELO", "BYEE", "BCST", "PRVT", "LIST", "SHUT", "FILE", "DEBG"}

\* What may be sent without an id.
Quiet == {"HELO", "DEBG"}

Allowed(r) == IF r.has_id THEN Words ELSE Quiet

Fields == {"phase", "no_wait", "has_id", "id", "nick", "last_prvt", "upload", "downloads",
           "hist", "current_hist", "roster", "sent", "waiting", "bye", "blame", "files"}

Shaped(r) == DOMAIN r = Fields

Clean(r) == r.blame \cap Causes = {}

\* There is an upload that an answer may end.
UploadOpen(r) == r.upload # Null /\ ~r.upload.destroyed

\* While nothing has happened that the client is not made for, it waits for one answer
\* at most; with an id, that is the answer about an upload still there.
Caused(r) ==
  /\ r.waiting \in Nat
  /\ r.phase = "undefined" => ~Clean(r)
  /\ Clean(r) => r.waiting <= 1
  /\ Clean(r) /\ r.has_id /\ r.waiting = 1 => UploadOpen(r)

\* A download that still lacks a part.
Coming == {t \in Download : t.series < t.parts}

Increasing(s) ==
  \A j, k \in DOMAIN s : j < k => s[j].id < s[k].id

Apart(s) == s \in Seq(Coming) /\ Increasing(s)

Held(s) == s \in Seq(Coming \cup {Null})

\* The list is in order until one of three is put in or taken out.
Kept(r) == Held(r.downloads) /\ ("third" \notin r.blame => Apart(r.downloads))

Placed(r) ==
  /\ r.hist \in Nat /\ r.current_hist \in Nat
  /\ r.hist > 0 => r.current_hist <= r.hist

Good(r) ==
  /\ Shaped(r)
  /\ r.phase \in {"off", "running", "exited", "undefined"}
  /\ r.id \in 0 .. MAX_NUM + 1
  /\ ~r.has_id => r.id = MAX_NUM + 1
  /\ r.upload = Null \/ r.upload \in Upload
  /\ Placed(r)
  /\ Caused(r)
  /\ Kept(r)
  /\ Listed(r.sent, Allowed(r))

\* A handler leaves s of r: an id is never taken back, and nobody starts twice.
Keeps(r, s) ==
  /\ Good(s)
  /\ r.has_id => s.has_id
  /\ s.phase = "off" => r.phase = "off"

-----------------------------------------------------------------------------
(* Lists.                                                                   *)

LEMMA MinOfNat ==
  ASSUME NEW S \in SUBSET Nat, S # {}
  PROVE  Min(S) \in S /\ \A y \in S : Min(S) <= y
<1> DEFINE R == OpToRel(<, Nat)
<1>1. R = {ss \in Nat \X Nat : ss[1] < ss[2]}
  BY DEF OpToRel
<1>2. IsWellFoundedOn(R, Nat)
  BY NatLessThanWellFounded
<1> HIDE DEF R
<1>3. PICK x \in S : \A y \in S : <<y, x>> \notin R
  BY <1>2, WFMin
<1>4. ASSUME NEW y \in S PROVE x <= y
  <2>1. <<y, x>> \in Nat \X Nat /\ ~(<<y, x>> \in {ss \in Nat \X Nat : ss[1] < ss[2]})
    BY <1>1, <1>3
  <2>2. ~(y < x)
    BY <2>1
  <2> QED  BY <2>2
<1> QED  BY <1>4 DEF Min

LEMMA ListedEmpty == ASSUME NEW T PROVE Listed(<<>>, T)
<1>1. (\A x \in {} : x[1] \in T) /\ <<>> \in Seq({})
  OBVIOUS
<1> QED  BY <1>1 DEF Listed

LEMMA ListedAppend ==
  ASSUME NEW T, NEW s, Listed(s, T), NEW p, p[1] \in T
  PROVE  Listed(Append(s, p), T)
<1>1. PICK A : (\A x \in A : x[1] \in T) /\ s \in Seq(A)
  BY DEF Listed
<1> DEFINE B == A \cup {p}
<1>2. s \in Seq(B)
  BY <1>1
<1>3. Append(s, p) \in Seq(B)
  BY <1>2
<1>4. \A x \in B : x[1] \in T
  BY <1>1
<1> HIDE DEF B
<1> QED  BY <1>3, <1>4 DEF Listed

LEMMA ListedCat ==
  ASSUME NEW T, NEW s, NEW t, Listed(s, T), Listed(t, T)
  PROVE  Listed(s \o t, T)
<1>1. PICK A : (\A x \in A : x[1] \in T) /\ s \in Seq(A)
  BY DEF Listed
<1>2. PICK B : (\A x \in B : x[1] \in T) /\ t \in Seq(B)
  BY DEF Listed
<1> DEFINE D == A \cup B
<1>3. s \in Seq(D) /\ t \in Seq(D)
  BY <1>1, <1>2
<1>4. s \o t \in Seq(D)
  BY <1>3
<1>5. \A x \in D : x[1] \in T
  BY <1>1, <1>2
<1> HIDE DEF D
<1> QED  BY <1>4, <1>5 DEF Listed

LEMMA ListedParts ==
  ASSUME NEW T, NEW n \in Nat, NEW f, f = [k \in 1 .. n |-> f[k]],
         \A k \in 1 .. n : f[k][1] \in T
  PROVE  Listed(f, T)
<1> DEFINE A == {f[k] : k \in 1 .. n}
<1>1. f \in [1 .. n -> A]
  OBVIOUS
<1>2. f \in Seq(A)
  <2> HIDE DEF A
  <2> QED  BY <1>1, IsASeq
<1>3. \A x \in A : x[1] \in T
  OBVIOUS
<1> HIDE DEF A
<1> QED  BY <1>2, <1>3 DEF Listed

LEMMA ListedWider ==
  ASSUME NEW S, NEW T, S \subseteq T, NEW s, Listed(s, S)
  PROVE  Listed(s, T)
BY DEF Listed

LEMMA ListedHeads ==
  ASSUME NEW T, NEW s, Listed(s, T)
  PROVE  \A k \in DOMAIN s : s[k][1] \in T
BY DEF Listed

LEMMA ComingFacts ==
  \A t \in Coming : /\ t # Null /\ t.id \in 0 .. MAX_NUM /\ t.id \in Nat
                    /\ t.series \in Nat /\ t.parts \in 0 .. MAX_NUM
BY ClientAssumption DEF Coming, Download

LEMMA ApartHeld == ASSUME NEW s, Apart(s) PROVE Held(s)
<1>1. s \in Seq(Coming)
  BY DEF Apart
<1>2. Seq(Coming) \subseteq Seq(Coming \cup {Null})
  OBVIOUS
<1> QED  BY <1>1, <1>2 DEF Held

\* A part goes to the download of its number, if there is one; the search ends at a
\* pointer that cannot be read.
LEMMA Found ==
  ASSUME NEW r, Held(r.downloads), NEW id
  PROVE  LET k == transfer_from_id(r, id)
         IN  k = 0 \/ (k \in DOMAIN r.downloads
                       /\ (r.downloads[k] = Null \/ r.downloads[k] \in Coming))
<1> DEFINE S == {i \in 1 .. Len(r.downloads) : r.downloads[i] = Null \/ r.downloads[i].id = id}
<1>1. transfer_from_id(r, id) = IF S # {} THEN Min(S) ELSE 0
  BY DEF transfer_from_id, SelectInSeq
<1>2. S \in SUBSET Nat
  OBVIOUS
<1>3. S # {} => Min(S) \in S
  <2> HIDE DEF S
  <2> QED  BY <1>2, MinOfNat
<1>4. ASSUME S # {}
      PROVE  Min(S) \in DOMAIN r.downloads
             /\ (r.downloads[Min(S)] = Null \/ r.downloads[Min(S)] \in Coming)
  <2>1. Min(S) \in 1 .. Len(r.downloads)
    BY <1>3, <1>4
  <2> HIDE DEF S
  <2> QED  BY <2>1 DEF Held
<1> HIDE DEF S
<1> QED  BY <1>1, <1>4

LEMMA NotBeforeFirst ==
  ASSUME NEW s, Apart(s), NEW t \in Coming
  PROVE  LET k == NotBefore(s, t)
         IN  \/ k = 0 /\ \A i \in 1 .. Len(s) : s[i].id < t.id
             \/ /\ k \in 1 .. Len(s) /\ s[k].id >= t.id
                /\ \A i \in 1 .. k - 1 : s[i].id < t.id
<1> DEFINE S == {i \in 1 .. Len(s) : s[i] = Null \/ s[i].id >= t.id}
           k == NotBefore(s, t)
<1>1. k = IF S # {} THEN Min(S) ELSE 0
  BY DEF NotBefore, SelectInSeq
<1>2. S \in SUBSET Nat
  OBVIOUS
<1>3. S # {} => Min(S) \in S /\ \A y \in S : Min(S) <= y
  <2> HIDE DEF S
  <2> QED  BY <1>2, MinOfNat
<1>4. \A i \in 1 .. Len(s) : s[i] # Null /\ s[i].id \in Nat
  BY ComingFacts DEF Apart
<1>5. t.id \in Nat
  BY ComingFacts
<1> HIDE DEF k
<1>6. CASE S = {}
  <2>1. \A i \in 1 .. Len(s) : ~(s[i].id >= t.id)
    BY <1>6
  <2> QED  BY <2>1, <1>1, <1>4, <1>5, <1>6 DEF k
<1>7. CASE S # {}
  <2>1. k \in S /\ \A y \in S : k <= y
    <3> HIDE DEF S
    <3> QED  BY <1>1, <1>3, <1>7
  <2>2. k \in 1 .. Len(s) /\ s[k].id >= t.id
    BY <1>4, <2>1
  <2>3. ASSUME NEW i \in 1 .. k - 1 PROVE s[i].id < t.id
    <3>1. i \in 1 .. Len(s) /\ i < k
      BY <2>2
    <3>2. i \notin S
      <4> HIDE DEF S
      <4> QED  BY <2>1, <3>1, <1>2
    <3>3. ~(s[i].id >= t.id)
      BY <3>1, <3>2
    <3> QED  BY <1>4, <1>5, <3>1, <3>3
  <2> QED  BY <2>2, <2>3 DEF k
<1> QED  BY <1>6, <1>7

\* The search of arlist_add comes after the last download has been compared.
LEMMA NotBeforeLast ==
  ASSUME NEW s, Held(s), s # <<>>, Last(s) # Null, NEW t, ~(Last(s).id < t.id), t.id \in Nat
  PROVE  NotBefore(s, t) \in 1 .. Len(s)
<1> DEFINE S == {i \in 1 .. Len(s) : s[i] = Null \/ s[i].id >= t.id}
<1>1. NotBefore(s, t) = IF S # {} THEN Min(S) ELSE 0
  BY DEF NotBefore, SelectInSeq
<1>2. S \in SUBSET Nat
  OBVIOUS
<1>3. Len(s) \in 1 .. Len(s)
  BY DEF Held
<1>4. s[Len(s)] \in Coming
  BY <1>3 DEF Held, Last
<1>5. Len(s) \in S
  BY <1>3, <1>4, ComingFacts DEF Last
<1>6. Min(S) \in S
  <2> HIDE DEF S
  <2> QED  BY <1>2, <1>5, MinOfNat
<1> QED  BY <1>1, <1>5, <1>6

\* A download goes behind the others, or in front of one of them.
LEMMA AppendedApart ==
  ASSUME NEW s, Apart(s), NEW t \in Coming, s # <<>> => Last(s).id < t.id
  PROVE  Apart(Append(s, t))
<1> DEFINE e == Append(s, t)
<1>1. s \in Seq(Coming) /\ Len(s) \in Nat
  BY DEF Apart
<1>2. e \in Seq(Coming) /\ Len(e) = Len(s) + 1 /\ DOMAIN e = 1 .. Len(s) + 1
      /\ \A i \in 1 .. Len(s) + 1 : e[i] = IF i <= Len(s) THEN s[i] ELSE t
  BY <1>1
<1> HIDE DEF e
<1>3. \A i, j \in 1 .. Len(s) : i < j => s[i].id < s[j].id
  BY <1>1 DEF Apart, Increasing
<1>4. t.id \in Nat /\ \A i \in 1 .. Len(s) : s[i].id \in Nat
  BY <1>1, ComingFacts
<1>5. ASSUME NEW i \in 1 .. Len(s) PROVE s[i].id < t.id
  <2>1. Len(s) \in 1 .. Len(s) /\ s # <<>>
    BY <1>1
  <2>2. s[Len(s)].id < t.id
    BY <2>1 DEF Last
  <2>3. CASE i = Len(s)
    BY <2>2, <2>3
  <2>4. CASE i < Len(s)
    <3>1. s[i].id < s[Len(s)].id
      BY <1>3, <2>1, <2>4
    <3> QED  BY <1>4, <2>1, <2>2, <3>1
  <2> QED  BY <1>1, <2>3, <2>4
<1>6. Increasing(e)
  <2> SUFFICES ASSUME NEW i \in 1 .. Len(s) + 1, NEW j \in 1 .. Len(s) + 1, i < j
               PROVE  e[i].id < e[j].id
    BY <1>2 DEF Increasing
  <2>1. i \in 1 .. Len(s) /\ e[i] = s[i]
    BY <1>1, <1>2
  <2>2. CASE j <= Len(s)
    BY <1>1, <1>2, <1>3, <2>1, <2>2
  <2>3. CASE ~(j <= Len(s))
    BY <1>1, <1>2, <1>5, <2>1, <2>3
  <2> QED  BY <2>2, <2>3
<1> QED  BY <1>2, <1>6 DEF Apart, e

LEMMA InsertedApart ==
  ASSUME NEW s, Apart(s), NEW t \in Coming, NEW k \in 1 .. Len(s), t.id < s[k].id,
         \A i \in 1 .. k - 1 : s[i].id < t.id
  PROVE  Apart(InsertAt(s, k, t))
<1> DEFINE a == SubSeq(s, 1, k - 1)
           b == SubSeq(s, k, Len(s))
           e == InsertAt(s, k, t)
<1>1. s \in Seq(Coming) /\ Len(s) \in Nat
  BY DEF Apart
<1>2. e = (a \o <<t>>) \o b
  BY DEF InsertAt
<1> HIDE DEF e
<1>3. a \in Seq(Coming) /\ Len(a) = k - 1 /\ \A i \in 1 .. k - 1 : a[i] = s[i]
  BY <1>1
<1>4. b \in Seq(Coming) /\ Len(b) = Len(s) - k + 1
      /\ \A i \in 1 .. Len(s) - k + 1 : b[i] = s[k + i - 1]
  BY <1>1
<1> HIDE DEF a, b
<1> DEFINE at == a \o <<t>>
<1>5. at \in Seq(Coming) /\ Len(at) = k /\ \A i \in 1 .. k : at[i] = IF i < k THEN a[i] ELSE t
  BY <1>1, <1>3
<1>6. e = at \o b
  BY <1>2
<1> HIDE DEF at
<1>7. e \in Seq(Coming) /\ Len(e) = Len(s) + 1 /\ DOMAIN e = 1 .. Len(s) + 1
  <2>1. e \in Seq(Coming) /\ Len(e) = Len(at) + Len(b) /\ DOMAIN e = 1 .. Len(e)
    <3>1. at \in Seq(Coming) /\ b \in Seq(Coming)
      BY <1>4, <1>5
    <3> QED  BY <1>6, <3>1
  <2>2. k \in Int /\ Len(at) + Len(b) = k + (Len(s) - k + 1)
    BY <1>4, <1>5
  <2>3. k + (Len(s) - k + 1) = Len(s) + 1
    BY <1>1, <2>2
  <2> QED  BY <2>1, <2>2, <2>3
<1>8. ASSUME NEW i \in 1 .. Len(s) + 1
      PROVE  /\ i < k => e[i] = s[i]
             /\ i = k => e[i] = t
             /\ i > k => e[i] = s[i - 1]
  <2>1. i <= k => e[i] = at[i]
    BY <1>1, <1>4, <1>5, <1>6
  <2>2. i > k => e[i] = b[i - k]
    BY <1>1, <1>4, <1>5, <1>6
  <2>3. i > k => i - k \in 1 .. Len(s) - k + 1 /\ b[i - k] = s[k + (i - k) - 1]
                 /\ k + (i - k) - 1 = i - 1
    BY <1>1, <1>4
  <2> QED  BY <1>1, <1>3, <1>5, <2>1, <2>2, <2>3
<1>9. \A i, j \in 1 .. Len(s) : i < j => s[i].id < s[j].id
  BY <1>1 DEF Apart, Increasing
<1>10. t.id \in Nat /\ \A i \in 1 .. Len(s) : s[i].id \in Nat
  BY <1>1, ComingFacts
<1>11. \A i \in k .. Len(s) : t.id < s[i].id
  <2> SUFFICES ASSUME NEW i \in k .. Len(s) PROVE t.id < s[i].id
    OBVIOUS
  <2>1. i \in 1 .. Len(s) /\ (i = k \/ s[k].id < s[i].id)
    BY <1>1, <1>9
  <2> QED  BY <1>10, <2>1
<1>12. Increasing(e)
  <2> SUFFICES ASSUME NEW i \in 1 .. Len(s) + 1, NEW j \in 1 .. Len(s) + 1, i < j
               PROVE  e[i].id < e[j].id
    BY <1>7 DEF Increasing
  <2>1. CASE j < k
    <3>1. e[i] = s[i] /\ e[j] = s[j] /\ i \in 1 .. Len(s) /\ j \in 1 .. Len(s)
      BY <1>1, <1>8, <2>1
    <3> QED  BY <1>9, <3>1
  <2>2. CASE j = k
    <3>1. e[i] = s[i] /\ e[j] = t /\ i \in 1 .. k - 1
      BY <1>1, <1>8, <2>2
    <3> QED  BY <3>1
  <2>3. CASE j > k /\ i < k
    <3>1. e[i] = s[i] /\ e[j] = s[j - 1] /\ i \in 1 .. k - 1 /\ i \in 1 .. Len(s)
          /\ j - 1 \in k .. Len(s) /\ j - 1 \in 1 .. Len(s)
      BY <1>1, <1>8, <2>3
    <3>2. s[i].id < t.id /\ t.id < s[j - 1].id
      BY <1>11, <3>1
    <3> QED  BY <1>10, <3>1, <3>2
  <2>4. CASE i = k
    <3>1. e[i] = t /\ e[j] = s[j - 1] /\ j - 1 \in k .. Len(s)
      BY <1>1, <1>8, <2>4
    <3> QED  BY <1>11, <3>1
  <2>5. CASE i > k
    <3>1. e[i] = s[i - 1] /\ e[j] = s[j - 1] /\ i - 1 \in 1 .. Len(s)
          /\ j - 1 \in 1 .. Len(s) /\ i - 1 < j - 1
      BY <1>1, <1>8, <2>5
    <3> QED  BY <1>9, <3>1
  <2> QED  BY <1>1, <2>1, <2>2, <2>3, <2>4, <2>5
<1> QED  BY <1>7, <1>12 DEF Apart, e

\* Whatever bytes memmove leaves behind.
LEMMA InsertedHeld ==
  ASSUME NEW s, Held(s), NEW k \in 1 .. Len(s), NEW t \in Coming, NEW l \in Inserted(s, k, t)
  PROVE  Held(l)
<1> DEFINE B == Coming \cup {Null}
           Moved(x) == Append([s EXCEPT ![k] = t, ![k + 1] = x], Last(s))
<1>1. s \in Seq(B) /\ t \in B /\ Null \in B /\ Len(s) \in Nat
  BY DEF Held
<1> HIDE DEF B
<1>2. Last(s) \in B
  BY <1>1 DEF Last
<1>3. CASE l = InsertAt(s, k, t)
  <2>1. SubSeq(s, 1, k - 1) \in Seq(B) /\ SubSeq(s, k, Len(s)) \in Seq(B) /\ <<t>> \in Seq(B)
    BY <1>1
  <2>2. l \in Seq(B)
    BY <1>3, <2>1 DEF InsertAt
  <2> QED  BY <2>2 DEF Held, B
<1>4. ASSUME NEW x \in B, l = Moved(x) PROVE Held(l)
  <2> DEFINE m == [s EXCEPT ![k] = t, ![k + 1] = x]
             z == Last(s)
  <2>1. l = Append(m, z) /\ z \in B
    BY <1>2, <1>4
  <2>2. k + 1 # k /\ DOMAIN s = 1 .. Len(s)
    BY <1>1
  <2>3. m = [i \in 1 .. Len(s) |-> IF i = k + 1 THEN x ELSE IF i = k THEN t ELSE s[i]]
    BY <1>1, <2>2
  <2> HIDE DEF m, z
  <2>4. m \in [1 .. Len(s) -> B]
    BY <1>1, <1>4, <2>3
  <2>5. m \in Seq(B)
    BY <1>1, <2>4, IsASeq
  <2>6. l \in Seq(B)
    BY <2>1, <2>5
  <2> QED  BY <2>6 DEF Held, B
<1>5. l = InsertAt(s, k, t) \/ \E x \in B : l = Moved(x)
  <2>1. CASE k = Len(s)
    BY <2>1 DEF Inserted
  <2>2. CASE k = Len(s) - 1
    <3>1. l \in {Moved(x) : x \in {s[k], s[k + 1], Null}}
      <4>1. k # Len(s)
        BY <1>1, <2>2
      <4>2. Inserted(s, k, t) = {Moved(x) : x \in {s[k], s[k + 1], Null}}
        BY <2>2, <4>1, Zenon DEF Inserted
      <4> QED  BY <4>2
    <3>2. {s[k], s[k + 1], Null} \subseteq B
      BY <1>1, <2>2
    <3> QED  BY <3>1, <3>2
  <2>3. CASE k # Len(s) /\ k # Len(s) - 1
    <3>1. l = Moved(s[k])
      BY <2>3 DEF Inserted
    <3> QED  BY <1>1, <3>1
  <2> QED  BY <2>1, <2>2, <2>3
<1> QED  BY <1>3, <1>4, <1>5

\* The list without slot k, the download of which has been freed.
Without(s, k) == Removed(Becomes(s, k, Null), k)

LEMMA WithoutHeld ==
  ASSUME NEW s, Held(s), NEW k \in DOMAIN s
  PROVE  Held(Without(s, k))
<1> DEFINE B == Coming \cup {Null}
           b == Becomes(s, k, Null)
           f == [b EXCEPT ![k] = b[k + 1]]
<1>1. s \in Seq(B) /\ Null \in B /\ Len(s) \in Nat /\ k \in 1 .. Len(s)
  BY DEF Held
<1> HIDE DEF B
<1>2. b \in Seq(B) /\ Len(b) = Len(s)
  <2>1. b \in [1 .. Len(s) -> B]
    BY <1>1 DEF Becomes
  <2> QED  BY <1>1, <2>1, IsASeq
<1> HIDE DEF b
<1>3. CASE k = Len(b)
  <2>1. Without(s, k) = SubSeq(b, 1, Len(b) - 1)
    BY <1>3 DEF Without, Removed, Front, b
  <2>2. SubSeq(b, 1, Len(b) - 1) \in Seq(B)
    BY <1>1, <1>2
  <2> QED  BY <2>1, <2>2 DEF Held, B
<1>4. CASE k # Len(b)
  <2>1. Without(s, k) = SubSeq(f, 1, Len(f) - 1)
    BY <1>4 DEF Without, Removed, Front, b
  <2>2. f \in Seq(B) /\ Len(f) = Len(b)
    BY <1>1, <1>2, <1>4
  <2> HIDE DEF f
  <2>3. SubSeq(f, 1, Len(f) - 1) \in Seq(B)
    BY <1>1, <1>2, <2>2
  <2> QED  BY <2>1, <2>3 DEF Held, B
<1> QED  BY <1>3, <1>4

\* A download that ends leaves the others in order, if it is one of the last two.
LEMMA WithoutApart ==
  ASSUME NEW s, Apart(s), NEW k \in DOMAIN s, ~(k < Len(s) - 1)
  PROVE  Apart(Without(s, k))
<1> DEFINE n == Len(s)
           b == Becomes(s, k, Null)
           e == Without(s, k)
<1>1. s \in Seq(Coming) /\ n \in Nat /\ k \in 1 .. n
  BY DEF Apart
<1>2. \A i, j \in 1 .. n : i < j => s[i].id < s[j].id
  BY <1>1 DEF Apart, Increasing
<1>3. \A i \in 1 .. n : s[i].id \in Nat
  BY <1>1, ComingFacts
<1>4. ASSUME NEW j \in 1 .. n, j # k PROVE s[j] # s[k]
  <2>1. j < k \/ k < j
    BY <1>1, <1>4
  <2>2. s[j].id < s[k].id \/ s[k].id < s[j].id
    BY <1>1, <1>2, <2>1
  <2> QED  BY <1>1, <1>3, <2>2
<1>5. DOMAIN b = 1 .. n /\ \A j \in 1 .. n : j # k => b[j] = s[j]
  BY <1>1, <1>4 DEF Becomes
<1>6. b \in Seq(Coming \cup {Null}) /\ Len(b) = n
  <2>1. b \in [1 .. n -> Coming \cup {Null}]
    BY <1>1 DEF Becomes
  <2> HIDE DEF b
  <2> QED  BY <1>1, <2>1, IsASeq
<1>7. n >= 1 /\ n - 1 \in Nat
  BY <1>1
<1> HIDE DEF b, n
<1>8. /\ e = [i \in 1 .. n - 1 |-> IF i < k THEN s[i] ELSE s[i + 1]]
  <2>1. CASE k = n
    <3>1. e = SubSeq(b, 1, n - 1)
      BY <1>6, <2>1 DEF Without, Removed, Front, b
    <3>2. e = [i \in 1 .. n - 1 |-> b[i]]
      BY <1>1, <1>6, <3>1
    <3>3. \A i \in 1 .. n - 1 : i < k /\ i \in 1 .. n /\ b[i] = s[i]
      BY <1>1, <1>5, <2>1
    <3> QED  BY <3>2, <3>3
  <2>2. CASE k # n
    <3> DEFINE f == [b EXCEPT ![k] = b[k + 1]]
    <3>1. k = n - 1 /\ k + 1 \in 1 .. n
      BY <1>1, <2>2 DEF n
    <3>2. f \in Seq(Coming \cup {Null}) /\ Len(f) = n
      BY <1>1, <1>6, <3>1
    <3>3. e = SubSeq(f, 1, n - 1)
      BY <1>6, <2>2, <3>2 DEF Without, Removed, Front, b
    <3>4. \A i \in 1 .. n - 1 : f[i] = IF i < k THEN s[i] ELSE s[i + 1]
      BY <1>1, <1>5, <1>6, <3>1
    <3> HIDE DEF f
    <3>5. e = [i \in 1 .. n - 1 |-> f[i]]
      BY <1>1, <3>2, <3>3
    <3> QED  BY <3>4, <3>5
  <2> QED  BY <2>1, <2>2
<1>9. ASSUME NEW i \in 1 .. n - 1
      PROVE  /\ i \in 1 .. n /\ i + 1 \in 1 .. n
             /\ s[i] \in Coming /\ s[i + 1] \in Coming
  <2>1. i \in 1 .. n /\ i + 1 \in 1 .. n
    BY <1>1, <1>7
  <2> QED  BY <1>1, <2>1 DEF n
<1>10. e \in Seq(Coming) /\ DOMAIN e = 1 .. n - 1
       /\ \A i \in 1 .. n - 1 : e[i] = IF i < k THEN s[i] ELSE s[i + 1]
  <2>1. e \in [1 .. n - 1 -> Coming]
    BY <1>8, <1>9
  <2>2. e \in Seq(Coming)
    <3> HIDE DEF e
    <3> QED  BY <1>7, <2>1, IsASeq
  <2> QED  BY <1>8, <2>2
<1> HIDE DEF e
<1>11. Increasing(e)
  <2> SUFFICES ASSUME NEW i \in 1 .. n - 1, NEW j \in 1 .. n - 1, i < j
               PROVE  e[i].id < e[j].id
    BY <1>10 DEF Increasing
  <2>1. CASE j < k
    <3>1. e[i] = s[i] /\ e[j] = s[j]
      BY <1>1, <1>10, <2>1
    <3> QED  BY <1>2, <1>9, <3>1
  <2>2. CASE j >= k /\ i < k
    <3>1. e[i] = s[i] /\ e[j] = s[j + 1] /\ i < j + 1
      BY <1>1, <1>10, <2>2
    <3> QED  BY <1>2, <1>9, <3>1
  <2>3. CASE i >= k
    <3>1. e[i] = s[i + 1] /\ e[j] = s[j + 1] /\ i + 1 < j + 1
      BY <1>1, <1>10, <2>3
    <3> QED  BY <1>2, <1>9, <3>1
  <2> QED  BY <1>1, <2>1, <2>2, <2>3
<1> QED  BY <1>10, <1>11 DEF Apart, e

\* A part that is not the last one leaves a download one, in every slot that points to it.
LEMMA BecomesHeld ==
  ASSUME NEW s, Held(s), NEW k \in DOMAIN s, NEW t \in Coming
  PROVE  Held(Becomes(s, k, t))
<1> DEFINE B == Coming \cup {Null}
<1>1. s \in Seq(B) /\ t \in B /\ Len(s) \in Nat
  BY DEF Held
<1> HIDE DEF B
<1>2. Becomes(s, k, t) \in [1 .. Len(s) -> B]
  BY <1>1 DEF Becomes
<1>3. Becomes(s, k, t) \in Seq(B)
  BY <1>1, <1>2, IsASeq
<1> QED  BY <1>3 DEF Held, B

LEMMA BecomesApart ==
  ASSUME NEW s, Apart(s), NEW k \in DOMAIN s, NEW t \in Coming, t.id = s[k].id
  PROVE  Apart(Becomes(s, k, t))
<1> DEFINE e == Becomes(s, k, t)
<1>1. s \in Seq(Coming) /\ Len(s) \in Nat /\ DOMAIN s = 1 .. Len(s)
  BY DEF Apart
<1>2. e \in [1 .. Len(s) -> Coming] /\ DOMAIN e = DOMAIN s
  BY <1>1 DEF Becomes
<1>3. \A i \in DOMAIN s : e[i].id = s[i].id
  BY <1>1 DEF Becomes
<1> HIDE DEF e
<1>4. e \in Seq(Coming)
  BY <1>1, <1>2, IsASeq
<1>5. Increasing(e)
  BY <1>2, <1>3 DEF Increasing, Apart
<1> QED  BY <1>4, <1>5 DEF Apart, e

-----------------------------------------------------------------------------
(* What the handlers are made of.                                           *)

LEMMA Itself == ASSUME NEW r, Good(r) PROVE Keeps(r, r)
BY DEF Keeps

LEMMA KeepsOn == ASSUME NEW r, NEW s, NEW t, Keeps(r, s), Keeps(s, t) PROVE Keeps(r, t)
BY DEF Keeps

\* What a record says besides the fields named here is free to change.
LEMMA Alike ==
  ASSUME NEW r, Good(r), NEW s, Shaped(s),
         s.phase = r.phase, s.id = r.id, s.has_id = r.has_id, s.upload = r.upload,
         s.downloads = r.downloads, s.hist = r.hist, s.current_hist = r.current_hist,
         s.sent = r.sent, s.waiting = r.waiting, r.blame \subseteq s.blame
  PROVE  Keeps(r, s)
BY DEF Keeps, Good, Placed, Caused, Clean, UploadOpen, Kept, Allowed

LEMMA InitGood == Good(client_init)
<1>1. /\ Shaped(client_init) /\ client_init.phase = "off" /\ client_init.id = MAX_NUM + 1
      /\ client_init.has_id = FALSE /\ client_init.upload = Null
      /\ client_init.hist = 0 /\ client_init.current_hist = 0
      /\ client_init.waiting = 0 /\ client_init.downloads = <<>> /\ client_init.sent = <<>>
  BY DEF client_init, Shaped, Fields
<1>2. Kept(client_init)
  <2>1. <<>> \in Seq(Coming) /\ Increasing(<<>>)
    BY DEF Increasing
  <2> QED  BY <1>1, <2>1, ApartHeld DEF Kept, Apart
<1>3. Listed(<<>>, Quiet)
  BY ListedEmpty
<1> QED  BY <1>1, <1>2, <1>3, ClientAssumption DEF Good, Placed, Caused, Kept, Allowed

LEMMA WritesGood ==
  ASSUME NEW r, Good(r), NEW p, p[1] \in Allowed(r)
  PROVE  /\ Keeps(r, Writes(r, p))
         /\ Writes(r, p).has_id = r.has_id /\ Writes(r, p).upload = r.upload
         /\ Writes(r, p).phase = r.phase
<1> DEFINE s == Writes(r, p)
<1>1. /\ Shaped(s) /\ s.phase = r.phase /\ s.id = r.id /\ s.has_id = r.has_id
      /\ s.upload = r.upload /\ s.downloads = r.downloads /\ s.hist = r.hist
      /\ s.current_hist = r.current_hist /\ s.waiting = r.waiting /\ s.blame = r.blame
      /\ s.sent = Append(r.sent, p)
  BY DEF Good, Shaped, Fields, Writes
<1>2. Listed(r.sent, Allowed(r))
  BY DEF Good
<1>3. Listed(Append(r.sent, p), Allowed(r))
  BY <1>2, ListedAppend
<1> HIDE DEF s
<1>4. Allowed(s) = Allowed(r)
  BY <1>1 DEF Allowed
<1>5. Good(s)
  BY <1>1, <1>3, <1>4 DEF Good, Placed, Caused, Clean, UploadOpen, Kept
<1> QED  BY <1>1, <1>5 DEF Keeps, s

\* Without an id nothing is written in its name.
LEMMA WritesAsGood ==
  ASSUME NEW r, Good(r), NEW type \in Words, NEW A, NEW rest \in Seq(A)
  PROVE  /\ Keeps(r, WritesAs(r, type, rest))
         /\ WritesAs(r, type, rest).phase = r.phase
<1>1. CASE r.id > MAX_NUM
  BY <1>1, Itself DEF WritesAs
<1>2. CASE ~(r.id > MAX_NUM)
  <2> DEFINE p == <<type, r.id>> \o rest
  <2>1. r.has_id
    BY <1>2, ClientAssumption DEF Good
  <2>2. p[1] = type
    OBVIOUS
  <2>3. WritesAs(r, type, rest) = Writes(r, p)
    BY <1>2 DEF WritesAs
  <2> HIDE DEF p
  <2>4. p[1] \in Allowed(r)
    BY <2>1, <2>2 DEF Allowed
  <2> QED  BY <2>3, <2>4, WritesGood
<1> QED  BY <1>1, <1>2

\* A request is sent when no upload can be ended by its answer, or with one to end.
LEMMA AsksGood ==
  ASSUME NEW r, Good(r), r.has_id => UploadOpen(r)
  PROVE  Keeps(r, Asks(r))
<1> DEFINE s == Asks(r)
<1>1. /\ Shaped(s) /\ s.phase = r.phase /\ s.id = r.id /\ s.has_id = r.has_id
      /\ s.upload = r.upload /\ s.downloads = r.downloads /\ s.hist = r.hist
      /\ s.current_hist = r.current_hist /\ s.waiting = r.waiting + 1 /\ s.sent = r.sent
      /\ s.blame = IF r.waiting > 0 THEN r.blame \cup {"hasty"} ELSE r.blame
  BY DEF Good, Shaped, Fields, Asks
<1> HIDE DEF s
<1>2. Allowed(s) = Allowed(r)
  BY <1>1 DEF Allowed
<1>3. Caused(s)
  <2>1. r.waiting \in Nat /\ (r.phase = "undefined" => ~Clean(r)) /\ (Clean(r) => r.waiting <= 1)
    BY DEF Good, Caused
  <2>2. s.waiting \in Nat
    BY <1>1, <2>1
  <2>3. ASSUME Clean(s) PROVE Clean(r) /\ ~(r.waiting > 0)
    <3>1. "hasty" \notin s.blame
      BY <2>3 DEF Clean, Causes
    <3>2. r.waiting > 0 => s.blame = r.blame \cup {"hasty"}
      BY <1>1
    <3>3. ~(r.waiting > 0)
      BY <3>1, <3>2
    <3> QED  BY <1>1, <2>3, <3>3 DEF Clean
  <2>4. Clean(s) => s.waiting = 1
    BY <1>1, <2>1, <2>3
  <2>5. s.has_id => UploadOpen(s)
    BY <1>1 DEF UploadOpen
  <2> QED  BY <1>1, <2>1, <2>2, <2>3, <2>4, <2>5 DEF Caused
<1>4. Good(s)
  BY <1>1, <1>2, <1>3 DEF Good, Placed, Kept
<1> QED  BY <1>1, <1>4 DEF Keeps, s

LEMMA ExitsGood == ASSUME NEW r, Good(r) PROVE Keeps(r, Exits(r))
<1> DEFINE s == Exits(r)
<1>1. /\ Shaped(s) /\ s.phase = "exited" /\ s.id = r.id /\ s.has_id = r.has_id
      /\ s.upload = r.upload /\ s.downloads = r.downloads /\ s.hist = r.hist
      /\ s.current_hist = r.current_hist /\ s.waiting = r.waiting /\ s.sent = r.sent
      /\ s.blame = r.blame
  BY DEF Good, Shaped, Fields, Exits
<1> HIDE DEF s
<1> QED  BY <1>1 DEF Keeps, Good, Placed, Caused, Clean, UploadOpen, Kept, Allowed, s

\* Undefined behaviour needs a cause.
LEMMA CrashesGood == ASSUME NEW r, Good(r), ~Clean(r) PROVE Keeps(r, Crashes(r))
<1> DEFINE s == Crashes(r)
<1>1. /\ Shaped(s) /\ s.phase = "undefined" /\ s.id = r.id /\ s.has_id = r.has_id
      /\ s.upload = r.upload /\ s.downloads = r.downloads /\ s.hist = r.hist
      /\ s.current_hist = r.current_hist /\ s.waiting = r.waiting /\ s.sent = r.sent
      /\ s.blame = r.blame
  BY DEF Good, Shaped, Fields, Crashes
<1> HIDE DEF s
<1> QED  BY <1>1 DEF Keeps, Good, Placed, Caused, Clean, UploadOpen, Kept, Allowed, s

LEMMA BlamedGood ==
  ASSUME NEW r, Good(r), NEW b
  PROVE  LET s == [r EXCEPT !.blame = @ \cup {b}]
         IN  Keeps(r, s) /\ s.blame = r.blame \cup {b} /\ s.has_id = r.has_id
<1> DEFINE s == [r EXCEPT !.blame = @ \cup {b}]
<1>1. /\ Shaped(s) /\ s.phase = r.phase /\ s.id = r.id /\ s.has_id = r.has_id
      /\ s.upload = r.upload /\ s.downloads = r.downloads /\ s.hist = r.hist
      /\ s.current_hist = r.current_hist /\ s.sent = r.sent
      /\ s.waiting = r.waiting /\ s.blame = r.blame \cup {b}
  BY DEF Good, Shaped, Fields
<1> HIDE DEF s
<1>2. Keeps(r, s)
  BY <1>1, Alike
<1> QED  BY <1>1, <1>2 DEF s

LEMMA CausedGood ==
  ASSUME NEW r, Good(r), NEW b \in Causes
  PROVE  Keeps(r, CrashesBy(r, b))
<1> DEFINE s == [r EXCEPT !.blame = @ \cup {b}]
<1>1. Keeps(r, s) /\ s.blame = r.blame \cup {b}
  BY BlamedGood
<1>2. CrashesBy(r, b) = Crashes(s)
  BY DEF CrashesBy
<1> HIDE DEF s
<1>3. ~Clean(s)
  BY <1>1 DEF Clean
<1>4. Keeps(s, Crashes(s))
  BY <1>1, <1>3, CrashesGood DEF Keeps
<1> QED  BY <1>1, <1>2, <1>4, KeepsOn

\* -M without a nick is a cause.
LEMMA UsesNickGood == ASSUME NEW r, Good(r) PROVE Keeps(r, UsesNick(r))
<1>1. "no nick" \in Causes
  BY DEF Causes
<1> QED  BY <1>1, CausedGood, Itself DEF UsesNick

\* The answer a clean client waited for was the only one, and there is an upload to
\* end when it is about one.
Due(r) == Clean(r) => r.waiting = 0 /\ (r.has_id => UploadOpen(r))

LEMMA AnsweredGood ==
  ASSUME NEW r, Good(r)
  PROVE  Keeps(r, Answered(r)) /\ Due(Answered(r))
<1> DEFINE s == Answered(r)
<1>1. /\ Shaped(s) /\ s.phase = r.phase /\ s.id = r.id /\ s.has_id = r.has_id
      /\ s.upload = r.upload /\ s.downloads = r.downloads /\ s.hist = r.hist
      /\ s.current_hist = r.current_hist /\ s.sent = r.sent
      /\ s.waiting = IF r.waiting = 0 THEN 0 ELSE r.waiting - 1
      /\ s.blame = IF r.waiting = 0 THEN r.blame \cup {"unasked"} ELSE r.blame
  BY DEF Good, Shaped, Fields, Answered
<1> HIDE DEF s
<1>2. Allowed(s) = Allowed(r)
  BY <1>1 DEF Allowed
<1>3. Caused(s) /\ Due(s)
  <2>1. /\ r.waiting \in Nat /\ (r.phase = "undefined" => ~Clean(r))
        /\ Clean(r) => r.waiting <= 1
        /\ Clean(r) /\ r.has_id /\ r.waiting = 1 => UploadOpen(r)
    BY DEF Good, Caused
  <2>2. s.waiting \in Nat
    BY <1>1, <2>1
  <2>3. ASSUME Clean(s) PROVE Clean(r) /\ r.waiting # 0
    <3>1. "unasked" \notin s.blame
      BY <2>3 DEF Clean, Causes
    <3>2. r.waiting = 0 => s.blame = r.blame \cup {"unasked"}
      BY <1>1
    <3>3. r.waiting # 0
      BY <3>1, <3>2
    <3>4. s.blame = r.blame
      BY <1>1, <3>3
    <3> QED  BY <2>3, <3>3, <3>4 DEF Clean
  <2>4. Clean(s) => s.waiting = 0 /\ r.waiting = 1
    BY <1>1, <2>1, <2>3
  <2>5. UploadOpen(s) <=> UploadOpen(r)
    BY <1>1, Zenon DEF UploadOpen
  <2>6. Due(s)
    BY <1>1, <2>1, <2>3, <2>4, <2>5 DEF Due
  <2> QED  BY <1>1, <2>1, <2>2, <2>3, <2>4, <2>6 DEF Caused
<1>4. Good(s)
  BY <1>1, <1>2, <1>3 DEF Good, Placed, Kept
<1> QED  BY <1>1, <1>3, <1>4 DEF Keeps, s

\* Ending the upload that is due leaves a client that waits for nothing.
LEMMA DestroyGood ==
  ASSUME NEW r, Good(r), r.has_id, Due(r)
  PROVE  Keeps(r, destroy_upload(r))
<1>1. CASE ~UploadOpen(r)
  <2>1. ~Clean(r)
    BY <1>1 DEF Due
  <2> QED  BY <1>1, <2>1, CrashesGood DEF destroy_upload, UploadOpen
<1>2. CASE UploadOpen(r)
  <2> DEFINE s == destroy_upload(r)
  <2>1. s = [r EXCEPT !.upload.destroyed = TRUE]
    BY <1>2 DEF destroy_upload, UploadOpen
  <2>2. /\ Shaped(s) /\ s.phase = r.phase /\ s.id = r.id /\ s.has_id = r.has_id
        /\ s.downloads = r.downloads /\ s.hist = r.hist
        /\ s.current_hist = r.current_hist /\ s.waiting = r.waiting /\ s.sent = r.sent
        /\ s.blame = r.blame
        /\ s.upload = [r.upload EXCEPT !.destroyed = TRUE]
    BY <2>1 DEF Good, Shaped, Fields
  <2>3. s.upload \in Upload
    BY <1>2, <2>2 DEF Good, UploadOpen, Upload
  <2> HIDE DEF s
  <2>4. Allowed(s) = Allowed(r)
    BY <2>2 DEF Allowed
  <2>5. Caused(s)
    <3>1. r.waiting \in Nat /\ (r.phase = "undefined" => ~Clean(r))
      BY DEF Good, Caused
    <3>2. Clean(s) <=> Clean(r)
      BY <2>2, Zenon DEF Clean
    <3>3. Clean(r) => r.waiting = 0
      BY DEF Due
    <3> QED  BY <2>2, <3>1, <3>2, <3>3 DEF Caused
  <2>6. Good(s)
    BY <2>2, <2>3, <2>4, <2>5 DEF Good, Placed, Kept
  <2> QED  BY <2>2, <2>6 DEF Keeps, s
<1> QED  BY <1>1, <1>2

-----------------------------------------------------------------------------
(* Packets.                                                                 *)

\* The parts are written under the upload that OKOK gave its number.
LEMMA SendFileGood ==
  ASSUME NEW r, Good(r), r.has_id, UploadOpen(r), Due(r)
  PROVE  Keeps(r, send_file(r))
<1> DEFINE parts == [k \in 1 .. PartsOf[r.upload.file] |->
                       <<"FILE", k, r.upload.id, <<r.upload.file, k>>>>]
           s == [r EXCEPT !.sent = @ \o parts]
<1>1. send_file(r) = destroy_upload(s)
  BY DEF send_file
<1>2. PartsOf[r.upload.file] \in Nat
  BY ClientAssumption DEF Good, UploadOpen, Upload
<1>3. Listed(parts, Allowed(r))
  <2>1. parts = [k \in 1 .. PartsOf[r.upload.file] |-> parts[k]]
        /\ \A k \in 1 .. PartsOf[r.upload.file] : parts[k][1] = "FILE"
    OBVIOUS
  <2> HIDE DEF parts
  <2>2. "FILE" \in Allowed(r)
    BY DEF Allowed, Words
  <2> QED  BY <1>2, <2>1, <2>2, ListedParts
<1> HIDE DEF parts
<1>4. /\ Shaped(s) /\ s.phase = r.phase /\ s.id = r.id /\ s.has_id = r.has_id
      /\ s.upload = r.upload /\ s.downloads = r.downloads /\ s.hist = r.hist
      /\ s.current_hist = r.current_hist /\ s.waiting = r.waiting
      /\ s.blame = r.blame /\ s.sent = r.sent \o parts
  BY DEF Good, Shaped, Fields
<1>5. Listed(r.sent \o parts, Allowed(r))
  BY <1>3, ListedCat DEF Good
<1> HIDE DEF s
<1>6. Allowed(s) = Allowed(r)
  BY <1>4 DEF Allowed
<1>7. Good(s)
  BY <1>4, <1>5, <1>6 DEF Good, Placed, Caused, Clean, UploadOpen, Kept
<1>8. Due(s)
  BY <1>4 DEF Due, Clean, UploadOpen
<1>9. Keeps(s, destroy_upload(s))
  BY <1>4, <1>7, <1>8, DestroyGood
<1> QED  BY <1>1, <1>4, <1>7, <1>9 DEF Keeps

LEMMA OKOKGood ==
  ASSUME NEW r, Good(r), Due(r), NEW id \in 0 .. MAX_NUM
  PROVE  Keeps(r, pro_server_OKOK(r, id))
<1>1. CASE ~r.has_id
  <2> DEFINE s == [r EXCEPT !.has_id = TRUE, !.id = id]
  <2>1. pro_server_OKOK(r, id) = s
    BY <1>1 DEF pro_server_OKOK
  <2>2. /\ Shaped(s) /\ s.phase = r.phase /\ s.id = id /\ s.has_id = TRUE
        /\ s.upload = r.upload /\ s.downloads = r.downloads /\ s.hist = r.hist
        /\ s.current_hist = r.current_hist /\ s.waiting = r.waiting
        /\ s.blame = r.blame /\ s.sent = r.sent
    BY DEF Good, Shaped, Fields
  <2> HIDE DEF s
  <2>3. Listed(s.sent, Allowed(s))
    <3>1. Listed(r.sent, Quiet)
      BY <1>1 DEF Good, Allowed
    <3>2. Quiet \subseteq Words
      BY DEF Quiet, Words
    <3>3. Listed(r.sent, Words)
      BY <3>1, <3>2, ListedWider
    <3> QED  BY <2>2, <3>3 DEF Allowed
  <2>4. Caused(s)
    <3>1. Caused(r)
      BY DEF Good
    <3>2. Clean(s) <=> Clean(r)
      BY <2>2 DEF Clean
    <3>3. Clean(r) => r.waiting = 0
      BY DEF Due
    <3> QED  BY <2>2, <3>1, <3>2, <3>3 DEF Caused
  <2>5. s.id \in 0 .. MAX_NUM + 1
    BY <2>2, ClientAssumption
  <2>6. Good(s)
    BY <2>2, <2>3, <2>4, <2>5 DEF Good, Placed, Kept
  <2> QED  BY <2>1, <2>2, <2>6 DEF Keeps
<1>2. CASE r.has_id /\ ~UploadOpen(r)
  <2>1. ~Clean(r)
    BY <1>2 DEF Due
  <2>2. pro_server_OKOK(r, id) = Crashes(r)
    BY <1>2 DEF pro_server_OKOK, UploadOpen
  <2> QED  BY <2>1, <2>2, CrashesGood
<1>3. CASE r.has_id /\ UploadOpen(r)
  <2> DEFINE s == [r EXCEPT !.upload.id = id]
  <2>1. pro_server_OKOK(r, id) = send_file(s)
    BY <1>3 DEF pro_server_OKOK, UploadOpen
  <2>2. /\ Shaped(s) /\ s.phase = r.phase /\ s.id = r.id /\ s.has_id = r.has_id
        /\ s.downloads = r.downloads /\ s.hist = r.hist
        /\ s.current_hist = r.current_hist /\ s.waiting = r.waiting
        /\ s.blame = r.blame /\ s.sent = r.sent
        /\ s.upload = [r.upload EXCEPT !.id = id]
    BY DEF Good, Shaped, Fields
  <2>3. s.upload \in Upload /\ s.upload.destroyed = r.upload.destroyed
    <3>1. r.upload \in Upload
      BY <1>3 DEF Good, UploadOpen
    <3> QED  BY <2>2, <3>1 DEF Upload
  <2> HIDE DEF s
  <2>4. UploadOpen(s)
    BY <1>3, <2>3, ClientAssumption DEF UploadOpen
  <2>5. Allowed(s) = Allowed(r) /\ (Clean(s) <=> Clean(r))
    BY <2>2 DEF Allowed, Clean
  <2>6. Caused(s)
    BY <2>2, <2>4, <2>5 DEF Good, Caused
  <2>7. Good(s)
    BY <2>2, <2>3, <2>5, <2>6 DEF Good, Placed, Kept
  <2>8. Due(s)
    BY <2>2, <2>4, <2>5 DEF Due
  <2>9. Keeps(s, send_file(s))
    BY <1>3, <2>2, <2>4, <2>7, <2>8, SendFileGood
  <2> QED  BY <2>1, <2>2, <2>9 DEF Keeps
<1> QED  BY <1>1, <1>2, <1>3

LEMMA BADDGood ==
  ASSUME NEW r, Good(r), Due(r)
  PROVE  Keeps(r, pro_server_BADD(r))
BY DestroyGood, Itself DEF pro_server_BADD

\* Packets that are only drawn, or end the client.
LEMMA DrawnGood ==
  ASSUME NEW r, Good(r), NEW x, NEW y
  PROVE  /\ Keeps(r, pro_server_BYEE(r, x))
         /\ Keeps(r, pro_server_PRVT(r, x))
         /\ Keeps(r, pro_server_LIST(r, x, y))
<1>1. Keeps(r, pro_server_BYEE(r, x))
  BY ExitsGood, Itself DEF pro_server_BYEE
<1>2. Keeps(r, pro_server_PRVT(r, x))
  <2> DEFINE s == pro_server_PRVT(r, x)
  <2>1. /\ Shaped(s) /\ s.phase = r.phase /\ s.id = r.id /\ s.has_id = r.has_id
        /\ s.upload = r.upload /\ s.downloads = r.downloads /\ s.hist = r.hist
        /\ s.current_hist = r.current_hist /\ s.sent = r.sent
        /\ s.waiting = r.waiting /\ s.blame = r.blame
    BY DEF Good, Shaped, Fields, pro_server_PRVT
  <2> HIDE DEF s
  <2>2. Keeps(r, s)
    BY <2>1, Alike
  <2> QED  BY <2>2 DEF s
<1>3. Keeps(r, pro_server_LIST(r, x, y))
  <2> DEFINE s == pro_server_LIST(r, x, y)
  <2>1. PICK v : s = [r EXCEPT !.roster = v]
    BY DEF pro_server_LIST
  <2> HIDE DEF s
  <2>2. /\ Shaped(s) /\ s.phase = r.phase /\ s.id = r.id /\ s.has_id = r.has_id
        /\ s.upload = r.upload /\ s.downloads = r.downloads /\ s.hist = r.hist
        /\ s.current_hist = r.current_hist /\ s.sent = r.sent
        /\ s.waiting = r.waiting /\ s.blame = r.blame
    BY <2>1 DEF Good, Shaped, Fields
  <2>3. Keeps(r, s)
    BY <2>2, Alike
  <2> QED  BY <2>3 DEF s
<1> QED  BY <1>1, <1>2, <1>3

LEMMA ReceivedGood ==
  ASSUME NEW r, Good(r), NEW t
  PROVE  /\ Keeps(r, Received(r, t))
         /\ Received(r, t).downloads = r.downloads
         /\ Shaped(Received(r, t))
<1> DEFINE s == Received(r, t)
<1>1. /\ Shaped(s) /\ s.phase = r.phase /\ s.id = r.id /\ s.has_id = r.has_id
      /\ s.upload = r.upload /\ s.downloads = r.downloads /\ s.hist = r.hist
      /\ s.current_hist = r.current_hist /\ s.sent = r.sent
      /\ s.waiting = r.waiting /\ s.blame = r.blame
  BY DEF Good, Shaped, Fields, Received
<1> HIDE DEF s
<1>2. Keeps(r, s)
  BY <1>1, Alike
<1> QED  BY <1>1, <1>2 DEF s

\* The list of downloads may be replaced by any that is in order, and by any at all once
\* it has been one of three.
LEMMA DownloadsGood ==
  ASSUME NEW r, Good(r), NEW ds, Held(ds), "third" \notin r.blame => Apart(ds)
  PROVE  Keeps(r, [r EXCEPT !.downloads = ds])
<1> DEFINE s == [r EXCEPT !.downloads = ds]
<1>1. /\ Shaped(s) /\ s.phase = r.phase /\ s.id = r.id /\ s.has_id = r.has_id
      /\ s.upload = r.upload /\ s.downloads = ds /\ s.hist = r.hist
      /\ s.current_hist = r.current_hist /\ s.sent = r.sent
      /\ s.waiting = r.waiting /\ s.blame = r.blame
  BY DEF Good, Shaped, Fields
<1> HIDE DEF s
<1>2. Allowed(s) = Allowed(r)
  BY <1>1 DEF Allowed
<1>3. Good(s)
  BY <1>1, <1>2 DEF Good, Placed, Caused, Clean, UploadOpen, Kept
<1> QED  BY <1>1, <1>3 DEF Keeps, s

LEMMA InexactGood ==
  ASSUME NEW r, Good(r), NEW ds, Held(ds)
  PROVE  Keeps(r, Inexact([r EXCEPT !.downloads = ds]))
<1> DEFINE b == [r EXCEPT !.blame = @ \cup {"third"}]
           s == [b EXCEPT !.downloads = ds]
<1>1. Keeps(r, b) /\ b.blame = r.blame \cup {"third"}
  BY BlamedGood
<1>2. Inexact([r EXCEPT !.downloads = ds]) = s
  BY DEF Inexact, Good, Shaped, Fields
<1> HIDE DEF b
<1>3. Keeps(b, s)
  BY <1>1, DownloadsGood DEF Keeps
<1> HIDE DEF s
<1> QED  BY <1>1, <1>2, <1>3, KeepsOn

\* Reading through a pointer of the list that cannot be read takes a third download.
LEMMA LostGood ==
  ASSUME NEW r, Good(r), NEW k \in DOMAIN r.downloads, r.downloads[k] = Null
  PROVE  Keeps(r, Crashes(r))
<1>1. ~Apart(r.downloads)
  BY ComingFacts DEF Apart
<1>2. "third" \in r.blame
  BY <1>1 DEF Good, Kept
<1>3. ~Clean(r)
  BY <1>2 DEF Clean, Causes
<1> QED  BY <1>3, CrashesGood

LEMMA EnlistedGood ==
  ASSUME NEW r, Good(r), NEW t \in Coming, NEW q \in Enlisted(r, t)
  PROVE  Keeps(r, q)
<1> DEFINE s == r.downloads
           k == NotBefore(s, t)
           Holding(l) == [r EXCEPT !.downloads = l]
<1>1. Held(s) /\ ("third" \notin r.blame => Apart(s)) /\ t.id \in Nat /\ Len(s) \in Nat
  BY ComingFacts DEF Good, Kept, Held
<1>2. CASE s = <<>>
  <2>1. q = Holding(<<t>>)
    BY <1>2 DEF Enlisted
  <2>2. Apart(<<t>>)
    BY DEF Apart, Increasing
  <2> QED  BY <2>1, <2>2, ApartHeld, DownloadsGood
<1>3. CASE s # <<>> /\ Last(s) = Null
  <2>1. q = Crashes(r)
    BY <1>3 DEF Enlisted
  <2>2. Len(s) \in DOMAIN s
    BY <1>1, <1>3 DEF Held
  <2> QED  BY <1>3, <2>1, <2>2, LostGood DEF Last
<1>4. CASE s # <<>> /\ Last(s) # Null /\ Last(s).id < t.id
  <2>1. q = Holding(Append(s, t))
    BY <1>4 DEF Enlisted
  <2>2. Held(Append(s, t))
    BY <1>1 DEF Held
  <2>3. "third" \notin r.blame => Apart(Append(s, t))
    BY <1>1, <1>4, AppendedApart
  <2> QED  BY <2>1, <2>2, <2>3, DownloadsGood
<1>5. CASE s # <<>> /\ Last(s) # Null /\ ~(Last(s).id < t.id)
  <2>1. k \in 1 .. Len(s)
    BY <1>1, <1>5, NotBeforeLast
  <2>2. k \in DOMAIN s
    BY <1>1, <2>1 DEF Held
  <2>3. CASE s[k] = Null
    <3>1. q = Crashes(r)
      BY <1>5, <2>3 DEF Enlisted
    <3> QED  BY <2>2, <2>3, <3>1, LostGood
  <2>4. CASE s[k] # Null /\ s[k].id = t.id
    <3>1. q = r
      BY <1>5, <2>4 DEF Enlisted
    <3> QED  BY <3>1, Itself
  <2>5. CASE s[k] # Null /\ s[k].id # t.id
    <3>1. PICK l \in Inserted(s, k, t) :
            q = IF k = Len(s) THEN Holding(l) ELSE Inexact(Holding(l))
      BY <1>5, <2>5 DEF Enlisted
    <3> HIDE DEF k
    <3>2. Held(l)
      BY <1>1, <2>1, <3>1, InsertedHeld
    <3>3. CASE k # Len(s)
      BY <3>1, <3>2, <3>3, InexactGood
    <3>4. CASE k = Len(s)
      <4>1. l = InsertAt(s, Len(s), t) /\ q = Holding(l)
        BY <3>1, <3>4 DEF Inserted
      <4>2. ASSUME Apart(s) PROVE Apart(l)
        <5>1. LET m == NotBefore(s, t)
              IN  \/ m = 0 /\ \A i \in 1 .. Len(s) : s[i].id < t.id
                  \/ /\ m \in 1 .. Len(s) /\ s[m].id >= t.id
                     /\ \A i \in 1 .. m - 1 : s[i].id < t.id
          BY <4>2, NotBeforeFirst
        <5>2. s[k].id >= t.id /\ \A i \in 1 .. k - 1 : s[i].id < t.id
          BY <2>1, <5>1 DEF k
        <5>3. s[k].id \in Nat /\ s[k].id # t.id
          BY <2>1, <2>5, <4>2, ComingFacts DEF Apart
        <5>4. t.id < s[k].id
          BY <1>1, <5>2, <5>3
        <5>5. l = InsertAt(s, k, t)
          BY <3>4, <4>1
        <5> QED  BY <2>1, <4>2, <5>2, <5>4, <5>5, InsertedApart
      <4> QED  BY <1>1, <3>2, <4>1, <4>2, DownloadsGood
    <3> QED  BY <3>3, <3>4
  <2> QED  BY <2>3, <2>4, <2>5
<1> QED  BY <1>2, <1>3, <1>4, <1>5

LEMMA EndsDownloadGood ==
  ASSUME NEW r, Good(r), NEW k \in DOMAIN r.downloads, NEW q \in EndsDownload(r, k)
  PROVE  Keeps(r, q)
<1> DEFINE ds == Without(r.downloads, k)
           left == [r EXCEPT !.downloads = ds]
<1>1. Held(r.downloads) /\ ("third" \notin r.blame => Apart(r.downloads))
  BY DEF Good, Kept
<1>2. Held(ds)
  BY <1>1, WithoutHeld
<1>3. \/ q = Inexact(left)
      \/ q = left /\ ~(k < Len(r.downloads) - 1)
      \/ q = CrashesBy(r, "behind")
  BY DEF EndsDownload, Without
<1>4. CASE q = Inexact(left)
  <2> HIDE DEF ds
  <2> QED  BY <1>2, <1>4, InexactGood
<1>5. CASE q = left /\ ~(k < Len(r.downloads) - 1)
  <2>1. "third" \notin r.blame => Apart(ds)
    BY <1>1, <1>5, WithoutApart
  <2> HIDE DEF ds
  <2> QED  BY <1>2, <1>5, <2>1, DownloadsGood
<1>6. CASE q = CrashesBy(r, "behind")
  <2>1. "behind" \in Causes
    BY DEF Causes
  <2> QED  BY <1>6, <2>1, CausedGood
<1> QED  BY <1>3, <1>4, <1>5, <1>6

LEMMA AnnounceGood ==
  ASSUME NEW r, Good(r), NEW id \in 0 .. MAX_NUM, NEW parts \in 0 .. MAX_NUM,
         NEW file \in File, NEW s \in pro_server_FILE_announce(r, id, parts, file)
  PROVE  Keeps(r, s)
<1> DEFINE t == [id |-> id, series |-> 0, parts |-> parts, file |-> file, got |-> <<>>]
<1>1. s \in {r} \cup IF parts = 0 THEN {Received(r, t)} ELSE Enlisted(r, t)
  BY DEF pro_server_FILE_announce
<1>2. parts # 0 => t \in Coming
  BY ClientAssumption DEF Coming, Download
<1> HIDE DEF t
<1>3. CASE s = r
  BY <1>3, Itself
<1>4. CASE parts = 0 /\ s = Received(r, t)
  BY <1>4, ReceivedGood
<1>5. CASE parts # 0 /\ s \in Enlisted(r, t)
  BY <1>2, <1>5, EnlistedGood
<1> QED  BY <1>1, <1>3, <1>4, <1>5

LEMMA TransferGood ==
  ASSUME NEW r, Good(r), NEW serie, NEW id, NEW bytes \in File \X Nat,
         NEW s \in pro_server_FILE_transfer(r, serie, id, bytes)
  PROVE  Keeps(r, s)
<1> DEFINE k == transfer_from_id(r, id)
           t == [r.downloads[k] EXCEPT !.series = @ + 1, !.got = Append(@, bytes)]
<1>1. Held(r.downloads) /\ ("third" \notin r.blame => Apart(r.downloads))
  BY DEF Good, Kept
<1>2. k = 0 \/ (k \in DOMAIN r.downloads
                /\ (r.downloads[k] = Null \/ r.downloads[k] \in Coming))
  BY <1>1, Found
<1>3. CASE k = 0
  <2>1. s = r
    BY <1>3 DEF pro_server_FILE_transfer
  <2> QED  BY <2>1, Itself
<1>4. CASE k # 0 /\ r.downloads[k] = Null
  <2>1. s = Crashes(r)
    BY <1>4 DEF pro_server_FILE_transfer
  <2> HIDE DEF k
  <2> QED  BY <1>2, <1>4, <2>1, LostGood
<1>5. CASE k # 0 /\ r.downloads[k] # Null
  <2>1. s \in {[r EXCEPT !.blame = @ \cup {"lost part"}]}
                \cup IF t.series >= t.parts THEN EndsDownload(Received(r, t), k)
                     ELSE {[r EXCEPT !.downloads = Becomes(r.downloads, k, t)]}
    BY <1>5 DEF pro_server_FILE_transfer
  <2> HIDE DEF k
  <2>2. k \in DOMAIN r.downloads /\ r.downloads[k] \in Coming
    BY <1>2, <1>5
  <2>3. t \in Download /\ t.id = r.downloads[k].id
    <3>1. r.downloads[k] \in Download
      BY <2>2 DEF Coming
    <3>2. r.downloads[k].series + 1 \in Nat /\ Append(r.downloads[k].got, bytes) \in Seq(File \X Nat)
      BY <3>1 DEF Download
    <3> QED  BY <3>1, <3>2 DEF Download
  <2> HIDE DEF t
  <2>4. ~(t.series >= t.parts) => t \in Coming
    <3>1. t.series \in Nat /\ t.parts \in Int
      BY <2>3 DEF Download
    <3> QED  BY <2>3, <3>1 DEF Coming
  <2>5. CASE s = [r EXCEPT !.blame = @ \cup {"lost part"}]
    BY <2>5, BlamedGood
  <2>6. CASE s \in EndsDownload(Received(r, t), k)
    <3> DEFINE q == Received(r, t)
    <3>1. Keeps(r, q) /\ q.downloads = r.downloads
      BY ReceivedGood
    <3>2. s \in EndsDownload(q, k)
      BY <2>6
    <3> HIDE DEF q
    <3>3. Keeps(q, s)
      BY <2>2, <3>1, <3>2, EndsDownloadGood DEF Keeps
    <3> QED  BY <3>1, <3>3, KeepsOn
  <2>7. CASE ~(t.series >= t.parts) /\ s = [r EXCEPT !.downloads = Becomes(r.downloads, k, t)]
    <3> DEFINE ds == Becomes(r.downloads, k, t)
    <3>1. Held(ds)
      BY <1>1, <2>2, <2>4, <2>7, BecomesHeld
    <3>2. "third" \notin r.blame => Apart(ds)
      BY <1>1, <2>2, <2>3, <2>4, <2>7, BecomesApart
    <3> HIDE DEF ds
    <3> QED  BY <2>7, <3>1, <3>2, DownloadsGood DEF ds
  <2> QED  BY <2>1, <2>5, <2>6, <2>7
<1> QED  BY <1>3, <1>4, <1>5

\* Whatever packet arrives.
LEMMA PacketGood ==
  ASSUME NEW r, Good(r), NEW p \in Packets, NEW s \in process_packet(r, p)
  PROVE  Keeps(r, s)
<1>1. CASE p[1] = "OKOK"
  <2>1. s = pro_server_OKOK(Answered(r), p[2]) /\ p[2] \in 0 .. MAX_NUM
    BY <1>1, InstanceAssumption DEF process_packet
  <2>2. Keeps(r, Answered(r)) /\ Due(Answered(r))
    BY AnsweredGood
  <2>3. Keeps(Answered(r), s)
    BY <2>1, <2>2, OKOKGood DEF Keeps
  <2> QED  BY <2>2, <2>3, KeepsOn
<1>2. CASE p[1] = "BADD"
  <2>1. s = pro_server_BADD(Answered(r))
    BY <1>2 DEF process_packet
  <2>2. Keeps(r, Answered(r)) /\ Due(Answered(r))
    BY AnsweredGood
  <2>3. Keeps(Answered(r), s)
    BY <2>1, <2>2, BADDGood DEF Keeps
  <2> QED  BY <2>2, <2>3, KeepsOn
<1>3. CASE p[1] = "BYEE"
  BY <1>3, DrawnGood DEF process_packet
<1>4. CASE p[1] = "BCST"
  BY <1>4, UsesNickGood DEF process_packet
<1>5. CASE p[1] = "PRVT"
  BY <1>5, DrawnGood DEF process_packet
<1>6. CASE p[1] = "LIST"
  BY <1>6, DrawnGood DEF process_packet
<1>7. CASE p[1] = "SHUT"
  BY <1>7, ExitsGood DEF process_packet
<1>8. CASE p[1] = "FILE" /\ p[2] = 0
  <2>1. s \in pro_server_FILE_announce(r, p[3], p[4], p[6])
    BY <1>8 DEF process_packet
  <2>2. p[3] \in 0 .. MAX_NUM /\ p[4] \in 0 .. MAX_NUM /\ p[6] \in File
    BY <1>8, InstanceAssumption
  <2> QED  BY <2>1, <2>2, AnnounceGood
<1>9. CASE /\ p[1] \notin {"OKOK", "BADD", "BYEE", "BCST", "PRVT", "LIST", "SHUT"}
           /\ ~(p[1] = "FILE" /\ p[2] = 0)
  <2>1. s \in pro_server_FILE_transfer(r, p[2], p[3], p[4])
    BY <1>9 DEF process_packet
  <2>2. p[4] \in File \X Nat
    BY <1>9, InstanceAssumption
  <2> QED  BY <2>1, <2>2, TransferGood
<1> QED  BY <1>1, <1>2, <1>3, <1>4, <1>5, <1>6, <1>7, <1>8, <1>9

-----------------------------------------------------------------------------
(* Lines and keys.                                                          *)

\* A HELO needs no id.
LEMMA HELOGood ==
  ASSUME NEW r, Good(r), ~r.has_id, NEW self
  PROVE  Keeps(r, Asks(req_client_HELO(r, self)))
<1> DEFINE p == <<"HELO", r.nick, self>>
           w == Writes(r, p)
<1>1. p[1] \in Allowed(r)
  BY DEF Allowed, Quiet
<1>2. Keeps(r, w) /\ w.has_id = r.has_id
  <2> HIDE DEF p
  <2> QED  BY <1>1, WritesGood
<1>3. Asks(req_client_HELO(r, self)) = Asks(w)
  BY DEF req_client_HELO
<1> HIDE DEF w
<1>4. Keeps(w, Asks(w))
  BY <1>2, AsksGood DEF Keeps
<1> QED  BY <1>2, <1>3, <1>4, KeepsOn

LEMMA NickGood ==
  ASSUME NEW r, Good(r), NEW nick
  PROVE  LET s == [r EXCEPT !.nick = nick] IN Keeps(r, s) /\ s.has_id = r.has_id
<1> DEFINE s == [r EXCEPT !.nick = nick]
<1>1. /\ Shaped(s) /\ s.phase = r.phase /\ s.id = r.id /\ s.has_id = r.has_id
      /\ s.upload = r.upload /\ s.downloads = r.downloads /\ s.hist = r.hist
      /\ s.current_hist = r.current_hist /\ s.sent = r.sent
      /\ s.waiting = r.waiting /\ s.blame = r.blame
  BY DEF Good, Shaped, Fields
<1> HIDE DEF s
<1>2. Keeps(r, s)
  BY <1>1, Alike
<1> QED  BY <1>1, <1>2 DEF s

LEMMA LastPrvtGood ==
  ASSUME NEW r, Good(r), NEW nick
  PROVE  Keeps(r, [r EXCEPT !.last_prvt = nick])
BY DrawnGood DEF pro_server_PRVT

LEMMA ConnectingGood ==
  ASSUME NEW r, Good(r), ~r.has_id, NEW self, NEW l
  PROVE  Keeps(r, Connecting(r, self, l))
<1>1. CASE l[1] = "nick"
  <2> DEFINE s == [r EXCEPT !.nick = l[2]]
  <2>1. Keeps(r, s) /\ s.has_id = r.has_id
    BY NickGood
  <2>2. Connecting(r, self, l) = Asks(req_client_HELO(s, self))
    BY <1>1 DEF Connecting
  <2> HIDE DEF s
  <2>3. Keeps(s, Asks(req_client_HELO(s, self)))
    BY <2>1, HELOGood DEF Keeps
  <2> QED  BY <2>1, <2>2, <2>3, KeepsOn
<1>2. CASE l[1] = "quit"
  BY <1>2, ExitsGood DEF Connecting
<1>3. CASE l[1] # "nick" /\ l[1] # "quit"
  BY <1>3, Itself DEF Connecting
<1> QED  BY <1>1, <1>2, <1>3

\* What is read past the line, or written past last_prvt, is.
LEMMA MsgGood ==
  ASSUME NEW r, Good(r), NEW nick, NEW fills
  PROVE  Keeps(r, CMD_MSG(r, nick, fills)) /\ Keeps(r, CMD_RESP(r, fills))
<1>1. "full line" \in Causes /\ "long nick" \in Causes
  BY DEF Causes
<1>2. "PRVT" \in Words /\ \A n : <<n>> \in Seq({n})
  BY DEF Words
<1>3. Keeps(r, CMD_MSG(r, nick, fills))
  <2> DEFINE w == WritesAs(r, "PRVT", <<nick>>)
  <2>1. Keeps(r, w)
    BY <1>2, WritesAsGood
  <2>2. \/ CMD_MSG(r, nick, fills) = CrashesBy(w, "full line")
        \/ CMD_MSG(r, nick, fills) = CrashesBy(w, "long nick")
        \/ CMD_MSG(r, nick, fills) = [w EXCEPT !.last_prvt = nick]
    BY DEF CMD_MSG
  <2> HIDE DEF w
  <2>3. Good(w)
    BY <2>1 DEF Keeps
  <2>4. Keeps(w, CrashesBy(w, "full line")) /\ Keeps(w, CrashesBy(w, "long nick"))
    BY <1>1, <2>3, CausedGood
  <2>5. Keeps(w, [w EXCEPT !.last_prvt = nick])
    BY <2>3, LastPrvtGood
  <2>6. Keeps(w, CMD_MSG(r, nick, fills))
    BY <2>2, <2>4, <2>5
  <2> QED  BY <2>1, <2>6, KeepsOn
<1>4. Keeps(r, CMD_RESP(r, fills))
  <2> DEFINE w == WritesAs(r, "PRVT", <<r.last_prvt>>)
  <2>1. Keeps(r, w)
    BY <1>2, WritesAsGood
  <2>2. CMD_RESP(r, fills) = IF fills THEN CrashesBy(w, "full line") ELSE w
    BY DEF CMD_RESP
  <2> HIDE DEF w
  <2>3. Keeps(w, CrashesBy(w, "full line"))
    BY <1>1, <2>1, CausedGood DEF Keeps
  <2> QED  BY <2>1, <2>2, <2>3, KeepsOn
<1> QED  BY <1>3, <1>4

\* What is typed and what the command prints are two messages.
LEMMA TextGood ==
  ASSUME NEW r, Good(r)
  PROVE  Keeps(r, UsesNick(WritesAs(r, "BCST", <<>>))) /\ Keeps(r, CMD_SHELL(r))
<1> DEFINE w == WritesAs(r, "BCST", <<>>)
           v == UsesNick(w)
<1>1. <<>> \in Seq({}) /\ "BCST" \in Words
  BY DEF Words
<1>2. Keeps(r, w)
  BY <1>1, WritesAsGood
<1> HIDE DEF w
<1>3. Keeps(r, v)
  BY <1>2, UsesNickGood, KeepsOn DEF Keeps
<1>4. CMD_SHELL(r) = IF v.phase = "undefined" THEN v ELSE WritesAs(v, "BCST", <<>>)
  BY DEF CMD_SHELL, w
<1> HIDE DEF v
<1>5. Keeps(v, WritesAs(v, "BCST", <<>>))
  BY <1>1, <1>3, WritesAsGood DEF Keeps
<1>6. Keeps(r, CMD_SHELL(r))
  BY <1>3, <1>4, <1>5, KeepsOn
<1> QED  BY <1>3, <1>6 DEF v, w

\* The upload the answer is about is there when the request leaves.
LEMMA SendGood ==
  ASSUME NEW r, Good(r), r.has_id, NEW nick, NEW file \in File
  PROVE  Keeps(r, CMD_SEND(r, nick, file))
<1> DEFINE t == [id |-> 0, file |-> file, destroyed |-> FALSE]
           s == [r EXCEPT !.upload = t,
                          !.blame = IF file \in LongFile THEN @ \cup {"long name"} ELSE @]
           p == <<"FILE", 0, r.id, nick, PartsOf[file], file>>
           w == Writes(s, p)
<1>1. CMD_SEND(r, nick, file) = Asks(w)
  BY DEF CMD_SEND
<1>2. t \in Upload /\ ~t.destroyed
  BY ClientAssumption DEF Upload
<1>3. t # Null
  BY <1>2, ClientAssumption
<1> HIDE DEF t
<1>4. /\ Shaped(s) /\ s.phase = r.phase /\ s.id = r.id /\ s.has_id = r.has_id
      /\ s.upload = t /\ s.downloads = r.downloads /\ s.hist = r.hist
      /\ s.current_hist = r.current_hist /\ s.waiting = r.waiting
      /\ (s.blame = r.blame \/ s.blame = r.blame \cup {"long name"}) /\ s.sent = r.sent
  BY DEF Good, Shaped, Fields
<1> HIDE DEF s
<1>5. UploadOpen(s) /\ Allowed(s) = Allowed(r)
  BY <1>2, <1>3, <1>4 DEF UploadOpen, Allowed
<1>6. Caused(s) /\ Kept(s)
  <2>1. r.blame \subseteq s.blame
    BY <1>4
  <2> QED  BY <1>4, <1>5, <2>1 DEF Good, Caused, Clean, Kept
<1>7. Good(s)
  BY <1>2, <1>4, <1>5, <1>6 DEF Good, Placed, Kept
<1>8. p[1] \in Allowed(s)
  BY <1>4 DEF Allowed, Words
<1> HIDE DEF p
<1>9. Keeps(s, w) /\ w.upload = s.upload
  BY <1>7, <1>8, WritesGood
<1> HIDE DEF w
<1>10. Keeps(w, Asks(w))
  BY <1>5, <1>9, AsksGood DEF Keeps, UploadOpen
<1> QED  BY <1>1, <1>4, <1>9, <1>10 DEF Keeps

LEMMA ConnectedGood ==
  ASSUME NEW r, Good(r), r.has_id, NEW l \in Line
  PROVE  Keeps(r, Connected(r, l))
<1>1. <<>> \in Seq({})
  OBVIOUS
<1>2. {"BCST", "LIST", "PRVT", "BYEE", "SHUT"} \subseteq Words
  BY DEF Words
<1>3. \A type \in {"BCST", "LIST", "PRVT", "BYEE", "SHUT"} : Keeps(r, WritesAs(r, type, <<>>))
  BY <1>1, <1>2, WritesAsGood
<1>5. CASE l[1] = "text"
  BY <1>5, TextGood DEF Connected
<1>6. CASE l[1] = "who"
  BY <1>3, <1>6 DEF Connected
<1>7. CASE l[1] = "msg"
  BY <1>7, MsgGood DEF Connected
<1>8. CASE l[1] = "r"
  BY <1>8, MsgGood DEF Connected
<1>9. CASE l[1] = "quit"
  BY <1>3, <1>9 DEF Connected
<1>10. CASE l[1] = "send"
  <2>1. l[3] \in File
    BY <1>10 DEF Line
  <2>2. Connected(r, l) = CMD_SEND(r, l[2], l[3])
    BY <1>10 DEF Connected
  <2> QED  BY <2>1, <2>2, SendGood
<1>11. CASE l[1] = "shut"
  BY <1>3, <1>11 DEF Connected
<1>12. CASE l[1] \notin {"text", "who", "msg", "r", "quit", "send", "shut"}
  BY <1>12, Itself DEF Connected
<1> QED  BY <1>5, <1>6, <1>7, <1>8, <1>9, <1>10, <1>11, <1>12

LEMMA CommandGood ==
  ASSUME NEW r, Good(r), NEW self, NEW l \in Line
  PROVE  Keeps(r, exec_command(r, self, l))
<1>1. CASE l[1] = "shell"
  BY <1>1, TextGood DEF exec_command
<1>2. CASE l[1] = "debug"
  <2> DEFINE p == <<"DEBG">>
  <2>1. exec_command(r, self, l) = Writes(r, p)
    BY <1>2 DEF exec_command
  <2>2. p[1] \in Allowed(r)
    BY DEF Allowed, Words, Quiet
  <2> HIDE DEF p
  <2> QED  BY <2>1, <2>2, WritesGood
<1>3. CASE l[1] # "shell" /\ l[1] # "debug"
  BY <1>3, ConnectedGood, ConnectingGood DEF exec_command
<1> QED  BY <1>1, <1>2, <1>3

\* The cursor may be put anywhere in a history that grew.
LEMMA CursorGood ==
  ASSUME NEW r, Good(r), NEW h \in Nat, NEW k \in Nat, h > 0 => k <= h
  PROVE  Keeps(r, [r EXCEPT !.hist = h, !.current_hist = k])
<1> DEFINE s == [r EXCEPT !.hist = h, !.current_hist = k]
<1>1. /\ Shaped(s) /\ s.phase = r.phase /\ s.id = r.id /\ s.has_id = r.has_id
      /\ s.upload = r.upload /\ s.downloads = r.downloads /\ s.hist = h
      /\ s.current_hist = k /\ s.sent = r.sent
      /\ s.waiting = r.waiting /\ s.blame = r.blame
  BY DEF Good, Shaped, Fields
<1> HIDE DEF s
<1>2. Allowed(s) = Allowed(r)
  BY <1>1 DEF Allowed
<1>3. Good(s)
  BY <1>1, <1>2 DEF Good, Placed, Caused, Clean, UploadOpen, Kept
<1> QED  BY <1>1, <1>3 DEF Keeps, s

LEMMA InputGood ==
  ASSUME NEW r, Good(r), NEW self, NEW l \in Line
  PROVE  Keeps(r, input_handler(r, self, l))
<1> DEFINE s == [r EXCEPT !.hist = r.hist + 1, !.current_hist = r.hist + 1]
<1>1. input_handler(r, self, l) = exec_command(s, self, l)
  BY DEF input_handler
<1>2. r.hist + 1 \in Nat
  BY DEF Good, Placed, Kept
<1>3. Keeps(r, s)
  <2> DEFINE h == r.hist + 1
  <2>1. h \in Nat /\ h <= h
    BY <1>2
  <2>2. s = [r EXCEPT !.hist = h, !.current_hist = h]
    OBVIOUS
  <2> HIDE DEF h, s
  <2> QED  BY <2>1, <2>2, CursorGood
<1> HIDE DEF s
<1>4. Keeps(s, exec_command(s, self, l))
  BY <1>3, CommandGood DEF Keeps
<1> QED  BY <1>1, <1>3, <1>4, KeepsOn

LEMMA ArrowsGood ==
  ASSUME NEW r, Good(r)
  PROVE  Keeps(r, KEY_UP(r)) /\ Keeps(r, KEY_DOWN(r))
<1>1. r.hist \in Nat /\ r.current_hist \in Nat /\ (r.hist > 0 => r.current_hist <= r.hist)
  BY DEF Good, Placed, Kept
<1>2. \A k : [r EXCEPT !.current_hist = k] = [r EXCEPT !.hist = r.hist, !.current_hist = k]
  BY DEF Good, Shaped, Fields
<1>3. \A k \in Nat : (r.hist > 0 => k <= r.hist) => Keeps(r, [r EXCEPT !.current_hist = k])
  BY <1>1, <1>2, CursorGood
<1> DEFINE a == IF r.current_hist > 0 THEN r.current_hist - 1 ELSE 0
           b == IF r.hist = 0 \/ r.current_hist < r.hist THEN r.current_hist + 1 ELSE r.current_hist
<1>4. a \in Nat /\ (r.hist > 0 => a <= r.hist)
  BY <1>1
<1>5. b \in Nat /\ (r.hist > 0 => b <= r.hist)
  BY <1>1
<1>6. KEY_UP(r) = [r EXCEPT !.current_hist = a]
  BY DEF KEY_UP
<1>7. KEY_DOWN(r) = [r EXCEPT !.current_hist = b]
  BY DEF KEY_DOWN
<1> HIDE DEF a, b
<1> QED  BY <1>3, <1>4, <1>5, <1>6, <1>7

-----------------------------------------------------------------------------
(* Steps.                                                                   *)

Inv ==
  /\ cl = [c \in Clients |-> cl[c]]
  /\ \A c \in Clients : Good(cl[c]) /\ cl[c].sent = <<>>
  /\ \A c \in Clients : cl[c].phase = "off" => ~cl[c].has_id
  /\ inbox \in [Clients -> Seq(Packets)]
  /\ Listed(outbox, Words)
  /\ \A c \in Clients : Clients = {c} /\ ~cl[c].has_id => Listed(outbox, Quiet)

LEMMA InvInit == Init => Inv
<1> SUFFICES ASSUME Init PROVE Inv
  OBVIOUS
<1>1. cl = [c \in Clients |-> client_init] /\ outbox = <<>>
  BY DEF Init
<1>2. cl = [c \in Clients |-> cl[c]] /\ \A c \in Clients : cl[c] = client_init
  BY <1>1
<1>3. client_init.sent = <<>>
  BY DEF client_init
<1>4. inbox \in [Clients -> Seq(Packets)]
  BY DEF Init
<1>5. Listed(outbox, Words) /\ Listed(outbox, Quiet)
  BY <1>1, ListedEmpty
<1>6. client_init.has_id = FALSE
  BY DEF client_init
<1> QED  BY <1>2, <1>3, <1>4, <1>5, <1>6, InitGood DEF Inv

\* What a handler sent is taken out of its record and into the FIFO of the server.
LEMMA StepsKeep ==
  ASSUME Inv, NEW c \in Clients, NEW r, Keeps(cl[c], r), Steps(c, r), r.phase # "off",
         inbox' \in [Clients -> Seq(Packets)]
  PROVE  Inv'
<1> DEFINE s == [r EXCEPT !.sent = <<>>]
<1>1. cl' = [cl EXCEPT ![c] = s] /\ outbox' = outbox \o r.sent
  BY DEF Steps
<1>2. /\ Shaped(s) /\ s.phase = r.phase /\ s.id = r.id /\ s.has_id = r.has_id
      /\ s.upload = r.upload /\ s.downloads = r.downloads /\ s.hist = r.hist
      /\ s.current_hist = r.current_hist /\ s.sent = <<>>
      /\ s.waiting = r.waiting /\ s.blame = r.blame
  BY DEF Keeps, Good, Shaped, Fields
<1> HIDE DEF s
<1>3. Good(r) /\ (cl[c].has_id => r.has_id)
  BY DEF Keeps
<1>4. Good(s)
  <2>1. Listed(s.sent, Allowed(s))
    BY <1>2, ListedEmpty
  <2> QED  BY <1>2, <1>3, <2>1 DEF Good, Placed, Caused, Clean, UploadOpen, Kept
<1>5. cl = [x \in Clients |-> cl[x]]
  BY DEF Inv
<1>6. /\ cl' = [x \in Clients |-> cl'[x]]
      /\ cl'[c] = s
      /\ \A x \in Clients \ {c} : cl'[x] = cl[x]
  BY <1>1, <1>5
<1>7. \A x \in Clients : Good(cl'[x]) /\ cl'[x].sent = <<>>
  BY <1>2, <1>4, <1>6 DEF Inv
<1>8. \A x \in Clients : cl'[x].phase = "off" => ~cl'[x].has_id
  BY <1>2, <1>6 DEF Inv
<1>9. Listed(outbox', Words)
  <2>1. Listed(r.sent, Allowed(r)) /\ Quiet \subseteq Words
    BY <1>3 DEF Good, Quiet, Words
  <2>2. Listed(r.sent, Words)
    BY <2>1, ListedWider DEF Allowed
  <2> QED  BY <1>1, <2>2, ListedCat DEF Inv
<1>10. ASSUME NEW x \in Clients, Clients = {x}, ~cl'[x].has_id
      PROVE  Listed(outbox', Quiet)
  <2>1. x = c /\ ~r.has_id
    BY <1>2, <1>6, <1>10
  <2>2. Listed(outbox, Quiet)
    BY <1>3, <1>10, <2>1 DEF Inv
  <2>3. Listed(r.sent, Quiet)
    BY <1>3, <2>1 DEF Good, Allowed
  <2> QED  BY <1>1, <2>2, <2>3, ListedCat
<1> QED  BY <1>6, <1>7, <1>9, <1>10, <1>8 DEF Inv

LEMMA StartInv == ASSUME Inv, NEW c \in Clients, Start(c) PROVE Inv'
<1>1. PICK nick, no_wait :
        LET r == [cl[c] EXCEPT !.phase = "running", !.nick = nick, !.no_wait = no_wait]
        IN  Steps(c, IF nick = Null THEN r ELSE Asks(req_client_HELO(r, c)))
  BY DEF Start
<1> DEFINE r == [cl[c] EXCEPT !.phase = "running", !.nick = nick, !.no_wait = no_wait]
           s == IF nick = Null THEN r ELSE Asks(req_client_HELO(r, c))
<1>2. Steps(c, s) /\ inbox' \in [Clients -> Seq(Packets)]
  BY <1>1 DEF Start, Inv
<1> SUFFICES Keeps(cl[c], s) /\ s.phase # "off"
  <2> HIDE DEF s
  <2> QED  BY <1>2, StepsKeep
<1>3. Good(cl[c])
  BY DEF Inv
<1>4. /\ Shaped(r) /\ r.phase = "running" /\ r.id = cl[c].id /\ r.has_id = cl[c].has_id
      /\ r.upload = cl[c].upload /\ r.downloads = cl[c].downloads /\ r.hist = cl[c].hist
      /\ r.current_hist = cl[c].current_hist /\ r.sent = cl[c].sent
      /\ r.waiting = cl[c].waiting /\ r.blame = cl[c].blame
  BY <1>3 DEF Good, Shaped, Fields
<1> HIDE DEF r
<1>5. Keeps(cl[c], r)
  BY <1>3, <1>4 DEF Keeps, Good, Placed, Caused, Clean, UploadOpen, Kept, Allowed
<1>6. ~r.has_id
  BY <1>4 DEF Inv, Start
<1>7. Keeps(r, Asks(req_client_HELO(r, c)))
  BY <1>5, <1>6, HELOGood DEF Keeps
<1>8. Keeps(cl[c], s)
  BY <1>5, <1>7, KeepsOn
<1>9. s.phase # "off"
  BY <1>4, <1>7 DEF Keeps
<1> QED  BY <1>8, <1>9

LEMMA ReadsInv == ASSUME Inv, NEW c \in Clients, Reads(c) PROVE Inv'
<1>1. PICK r \in process_packet(cl[c], Head(inbox[c])) : Steps(c, r)
  BY DEF Reads
<1>2. inbox[c] \in Seq(Packets) /\ inbox[c] # <<>>
  BY DEF Inv, Reads
<1>3. Head(inbox[c]) \in Packets /\ Tail(inbox[c]) \in Seq(Packets)
  BY <1>2
<1>4. inbox' \in [Clients -> Seq(Packets)]
  BY <1>3 DEF Inv, Reads
<1>5. Keeps(cl[c], r)
  BY <1>3, PacketGood DEF Inv
<1>6. r.phase # "off"
  BY <1>5 DEF Keeps, Reads, Running
<1> QED  BY <1>1, <1>4, <1>5, <1>6, StepsKeep

LEMMA TypesInv == ASSUME Inv, NEW c \in Clients, Types(c) PROVE Inv'
<1>1. PICK l \in Lines : Steps(c, input_handler(cl[c], c, l))
  BY DEF Types
<1>2. Keeps(cl[c], input_handler(cl[c], c, l))
  BY InputGood, InstanceAssumption DEF Inv
<1>3. inbox' \in [Clients -> Seq(Packets)]
  BY DEF Types, Inv
<1>4. input_handler(cl[c], c, l).phase # "off"
  BY <1>2 DEF Keeps, Types, Running
<1> QED  BY <1>1, <1>2, <1>3, <1>4, StepsKeep

LEMMA BrowsesInv == ASSUME Inv, NEW c \in Clients, Browses(c) PROVE Inv'
<1>1. Keeps(cl[c], KEY_UP(cl[c])) /\ Keeps(cl[c], KEY_DOWN(cl[c]))
  BY ArrowsGood DEF Inv
<1>2. inbox' \in [Clients -> Seq(Packets)]
  BY DEF Browses, Inv
<1>3. KEY_UP(cl[c]).phase # "off" /\ KEY_DOWN(cl[c]).phase # "off"
  BY <1>1 DEF Keeps, Browses, Running
<1>4. Steps(c, KEY_UP(cl[c])) \/ Steps(c, KEY_DOWN(cl[c]))
  BY DEF Browses
<1> QED  BY <1>1, <1>2, <1>3, <1>4, StepsKeep

LEMMA CtrlDInv == ASSUME Inv, NEW c \in Clients, CtrlD(c) PROVE Inv'
<1> DEFINE w == WritesAs(cl[c], "BYEE", <<>>)
<1>1. Steps(c, Exits(w)) /\ inbox' \in [Clients -> Seq(Packets)]
  BY DEF CtrlD, Inv
<1>2. Keeps(cl[c], w)
  <2>1. <<>> \in Seq({}) /\ "BYEE" \in Words
    BY DEF Words
  <2> QED  BY <2>1, WritesAsGood DEF Inv
<1> HIDE DEF w
<1>3. Keeps(w, Exits(w))
  BY <1>2, ExitsGood DEF Keeps
<1>4. Keeps(cl[c], Exits(w)) /\ Exits(w).phase # "off"
  <2>1. w.phase # "off"
    BY <1>2 DEF Keeps, CtrlD, Running
  <2>2. Exits(w).phase # "off"
    BY <1>3, <2>1 DEF Keeps
  <2> QED  BY <1>2, <1>3, <2>2, KeepsOn
<1> QED  BY <1>1, <1>4, StepsKeep

LEMMA ServerInv == ASSUME Inv, NEW c \in Clients, AnyServer(c) PROVE Inv'
<1>1. CASE outbox # <<>> /\ outbox' = <<>> /\ UNCHANGED <<cl, inbox>>
  <2>1. Listed(outbox', Words) /\ Listed(outbox', Quiet)
    BY <1>1, ListedEmpty
  <2> QED  BY <1>1, <2>1 DEF Inv
<1>2. CASE UNCHANGED <<cl, outbox>> /\ \E p \in Packets : inbox' = [inbox EXCEPT ![c] = <<p>>]
  <2>1. inbox' \in [Clients -> Seq(Packets)]
    BY <1>2 DEF Inv
  <2> QED  BY <1>2, <2>1 DEF Inv
<1> QED  BY <1>1, <1>2 DEF AnyServer

\* Every client keeps a record of the shape Good says, and what it wrote before it had
\* an id was a HELO or a DEBG.
THEOREM ClientInvariant == Spec => []Inv
<1>1. Inv /\ [Next]_session => Inv'
  <2> SUFFICES ASSUME Inv, [Next]_session PROVE Inv'
    OBVIOUS
  <2>1. CASE UNCHANGED session
    BY <2>1 DEF session, Inv
  <2>2. ASSUME NEW c \in Clients, Start(c) PROVE Inv'
    BY <2>2, StartInv
  <2>3. ASSUME NEW c \in Clients, Reads(c) PROVE Inv'
    BY <2>3, ReadsInv
  <2>4. ASSUME NEW c \in Clients, Types(c) PROVE Inv'
    BY <2>4, TypesInv
  <2>5. ASSUME NEW c \in Clients, Browses(c) PROVE Inv'
    BY <2>5, BrowsesInv
  <2>6. ASSUME NEW c \in Clients, CtrlD(c) PROVE Inv'
    BY <2>6, CtrlDInv
  <2>7. ASSUME NEW c \in Clients, AnyServer(c) PROVE Inv'
    BY <2>7, ServerInv
  <2> QED  BY <2>1, <2>2, <2>3, <2>4, <2>5, <2>6, <2>7 DEF Next, Acts
<1> QED  BY InvInit, <1>1, PTL DEF Spec

\* Records and packets have the types TypeOK says, whatever the numbers in packets: an
\* id fits in a packet or is the one no packet can carry, and a download still lacks a
\* part (client.c, process.c).
THEOREM ClientTyped == Spec => []TypeOK
<1>1. Inv => TypeOK
  <2> SUFFICES ASSUME Inv PROVE TypeOK
    OBVIOUS
  <2>1. ASSUME NEW c \in Clients
        PROVE  /\ cl[c].phase \in {"off", "running", "exited", "undefined"}
               /\ cl[c].id \in 0 .. MAX_NUM + 1
               /\ cl[c].upload = Null \/ cl[c].upload.id \in 0 .. MAX_NUM
               /\ \A t \in Range(cl[c].downloads) :
                    t # Null => t \in Download /\ t.series < t.parts
    <3>1. Good(cl[c])
      BY DEF Inv
    <3>2. \A k \in DOMAIN cl[c].downloads : cl[c].downloads[k] \in Coming \cup {Null}
      BY <3>1 DEF Good, Kept, Held
    <3>3. cl[c].upload = Null \/ cl[c].upload.id \in 0 .. MAX_NUM
      BY <3>1 DEF Good, Upload
    <3>4. \A t \in Range(cl[c].downloads) : t \in Coming \cup {Null}
      BY <3>2 DEF Range
    <3> QED  BY <3>1, <3>3, <3>4 DEF Good, Coming
  <2>2. \A c \in Clients : \A k \in DOMAIN inbox[c] : inbox[c][k] \in Packets
    BY DEF Inv
  <2>3. \A k \in DOMAIN outbox : outbox[k][1] \in Words
    BY ListedHeads DEF Inv
  <2> QED  BY <2>1, <2>2, <2>3 DEF TypeOK, Words
<1> QED  BY ClientInvariant, <1>1, PTL

\* The arrow keys never leave a history with a line in it, though they run ahead of one
\* that is empty (KEY_DOWN compares with an unsigned size - 1, client.c).
THEOREM CursorStays == Spec => []CursorInHistory
<1>1. Inv => CursorInHistory
  BY DEF Inv, Good, Placed, CursorInHistory
<1> QED  BY ClientInvariant, <1>1, PTL

\* A client reaches undefined behaviour only after one of the seven causes: an answer it
\* did not wait for, a request sent before the last one was answered, -M without a nick, a
\* nick too long for last_prvt, a /msg or /r line that fills the field, a download that
\* ends behind another one, one that is put in front of two others or taken out from there
\* (process.c, client.c, arraylist.c).
THEOREM CrashesHaveCauses == Spec => []UndefinedHasCause
<1>1. Inv => UndefinedHasCause
  BY DEF Inv, Good, Caused, Clean, UndefinedHasCause
<1> QED  BY ClientInvariant, <1>1, PTL

\* However many downloads are open, they are kept in the order of their numbers, each with
\* a number of its own, so that transfer_from_id has one to find: until one is put in front
\* of two others or taken out from there, which the memmove of bytes does not do exactly
\* (arlist_add with compare_transfers, arlist_remove).
THEOREM DownloadsStayApart == Spec => []DownloadsApart
<1>1. Inv => DownloadsApart
  <2> SUFFICES ASSUME Inv, NEW c \in Clients, "third" \notin cl[c].blame,
                      NEW j \in DOMAIN cl[c].downloads, NEW k \in DOMAIN cl[c].downloads
               PROVE  LET s == cl[c].downloads
                      IN  s[j] # Null /\ s[k] # Null /\ (j < k => s[j].id < s[k].id)
    BY DEF DownloadsApart
  <2>1. Apart(cl[c].downloads)
    BY DEF Inv, Good, Kept
  <2> QED  BY <2>1, ComingFacts DEF Apart, Increasing
<1> QED  BY ClientInvariant, <1>1, PTL

\* A client that is alone with its server sends nothing under an id before OKOK gave it
\* one: not the output of a shell command, nor the BYEE of Ctrl-D (request.c).
THEOREM NothingWithoutId ==
  ASSUME \E c : Clients = {c} PROVE Spec => []NothingUnderNoId
<1>1. Inv => NothingUnderNoId
  BY ListedHeads DEF Inv, Quiet, NothingUnderNoId
<1> QED  BY ClientInvariant, <1>1, PTL

=============================================================================
