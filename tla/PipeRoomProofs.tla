---------------------------- MODULE PipeRoomProofs ----------------------------
(***************************************************************************)
(* Circular waits and their causes: for any number of clients and files,   *)
(* parts of any number, any lines and FIFOs of any room.                   *)
(***************************************************************************)
EXTENDS PipeRoom, SequenceTheorems, FiniteSetTheorems, TLAPS

\* To whom a file has been announced when the uploaders A have asked.
Receivers(A) == {To[x] : x \in A}

-----------------------------------------------------------------------------
\* How many entries of s are in X.
Count(s, X) == Cardinality({k \in DOMAIN s : s[k] \in X})

LEMMA CountNat ==
  ASSUME NEW S, NEW s \in Seq(S), NEW X
  PROVE  /\ IsFiniteSet({k \in DOMAIN s : s[k] \in X})
         /\ Count(s, X) \in Nat
<1>1. Len(s) \in Nat /\ DOMAIN s = 1 .. Len(s)
  OBVIOUS
<1>2. IsFiniteSet(1 .. Len(s))
  BY <1>1, FS_Interval
<1>3. IsFiniteSet({k \in DOMAIN s : s[k] \in X})
  BY <1>1, <1>2, FS_Subset
<1> QED  BY <1>3, FS_CardinalityType DEF Count

LEMMA CountEmpty ==
  ASSUME NEW X
  PROVE  Count(<<>>, X) = 0
<1>1. {k \in DOMAIN <<>> : <<>>[k] \in X} = {}
  OBVIOUS
<1> QED  BY <1>1, FS_EmptySet DEF Count

LEMMA CountNone ==
  ASSUME NEW s, NEW X, \A k \in DOMAIN s : s[k] \notin X
  PROVE  Count(s, X) = 0
<1>1. {k \in DOMAIN s : s[k] \in X} = {}
  OBVIOUS
<1> QED  BY <1>1, FS_EmptySet DEF Count

LEMMA CountAppend ==
  ASSUME NEW S, NEW s \in Seq(S), NEW e \in S, NEW X
  PROVE  Count(Append(s, e), X) = Count(s, X) + IF e \in X THEN 1 ELSE 0
<1> DEFINE P == {k \in DOMAIN s : s[k] \in X}
           t == Append(s, e)
           Q == {k \in DOMAIN t : t[k] \in X}
           n == Len(s) + 1
<1>1. /\ Len(s) \in Nat /\ DOMAIN s = 1 .. Len(s) /\ DOMAIN t = 1 .. n
      /\ \A k \in 1 .. Len(s) : t[k] = s[k]
      /\ t[n] = e
  BY AppendProperties
<1>2. Count(s, X) = Cardinality(P) /\ Count(t, X) = Cardinality(Q)
  BY DEF Count
<1>3. IsFiniteSet(P) /\ Count(s, X) \in Nat
  BY CountNat
<1>4. n \notin P
  BY <1>1
<1>5. CASE e \in X
  <2>1. Q = P \cup {n}
    BY <1>1, <1>5
  <2> HIDE DEF P, Q, n, t
  <2>2. Cardinality(Q) = Cardinality(P) + 1
    BY <1>3, <1>4, <2>1, FS_AddElement
  <2> QED  BY <1>2, <1>5, <2>2 DEF t
<1>6. CASE e \notin X
  <2>1. Q = P
    BY <1>1, <1>6
  <2> HIDE DEF P, Q, n
  <2> QED  BY <1>2, <1>3, <1>6, <2>1
<1> QED  BY <1>5, <1>6

LEMMA CountTail ==
  ASSUME NEW S, NEW s \in Seq(S), s # <<>>, NEW X
  PROVE  Count(s, X) = Count(Tail(s), X) + IF Head(s) \in X THEN 1 ELSE 0
<1> DEFINE P == {k \in DOMAIN s : s[k] \in X}
           t == Tail(s)
           Q == {k \in DOMAIN t : t[k] \in X}
           R == P \ {1}
           f == [k \in R |-> k - 1]
<1>1. /\ Len(s) \in Nat \ {0} /\ DOMAIN s = 1 .. Len(s) /\ Head(s) = s[1]
      /\ t \in Seq(S) /\ DOMAIN t = 1 .. Len(s) - 1
      /\ \A k \in 1 .. Len(s) - 1 : t[k] = s[k + 1]
  BY HeadTailProperties, EmptySeq
<1>2. IsFiniteSet(P) /\ Count(s, X) \in Nat /\ Count(t, X) \in Nat
  BY <1>1, CountNat
<1>c. Count(s, X) = Cardinality(P) /\ Count(t, X) = Cardinality(Q)
  BY DEF Count
<1>3. f \in Bijection(R, Q)
  <2>1. R = {k \in 2 .. Len(s) : s[k] \in X}
    BY <1>1
  <2>2. Q = {k \in 1 .. Len(s) - 1 : s[k + 1] \in X}
    BY <1>1
  <2> HIDE DEF R, Q, P, t
  <2>3. f \in [R -> Q]
    BY <1>1, <2>1, <2>2
  <2>4. \A j, k \in R : f[j] = f[k] => j = k
    BY <2>1
  <2>5. ASSUME NEW q \in Q PROVE \E k \in R : f[k] = q
    <3>1. q + 1 \in R /\ f[q + 1] = q
      BY <1>1, <2>1, <2>2
    <3> QED  BY <3>1
  <2> HIDE DEF f
  <2> QED  BY <2>3, <2>4, <2>5 DEF Bijection, Injection, Surjection, IsInjective
<1>4. /\ IsFiniteSet(R)
      /\ Cardinality(R) = IF 1 \in P THEN Cardinality(P) - 1 ELSE Cardinality(P)
  <2> HIDE DEF P
  <2> QED  BY <1>2, FS_RemoveElement
<1>5. Cardinality(Q) = Cardinality(R)
  <2> HIDE DEF R, Q, f
  <2> QED  BY <1>3, <1>4, FS_Bijection DEF ExistsBijection
<1>6. 1 \in P <=> Head(s) \in X
  BY <1>1
<1> HIDE DEF P, Q, R, t
<1> QED  BY <1>2, <1>c, <1>4, <1>5, <1>6 DEF t

\* A sequence of two kinds of entries is as long as there are of both.
LEMMA CountBoth ==
  ASSUME NEW S, NEW s \in Seq(S), NEW X, NEW Y, X \cap Y = {}, S \subseteq X \cup Y
  PROVE  Len(s) = Count(s, X) + Count(s, Y)
<1> DEFINE P == {k \in DOMAIN s : s[k] \in X}
           Q == {k \in DOMAIN s : s[k] \in Y}
<1>1. Len(s) \in Nat /\ DOMAIN s = 1 .. Len(s) /\ \A k \in 1 .. Len(s) : s[k] \in S
  OBVIOUS
<1>2. P \cup Q = 1 .. Len(s) /\ P \cap Q = {}
  BY <1>1
<1>3. Count(s, X) = Cardinality(P) /\ Count(s, Y) = Cardinality(Q)
  BY DEF Count
<1>4. IsFiniteSet(P) /\ IsFiniteSet(Q) /\ Count(s, X) \in Nat /\ Count(s, Y) \in Nat
  BY CountNat
<1> HIDE DEF P, Q
<1>5. Cardinality(P \cup Q) = Cardinality(P) + Cardinality(Q) - Cardinality(P \cap Q)
  BY <1>4, FS_Union
<1>6. Cardinality(P \cap Q) = 0
  BY <1>2, FS_EmptySet
<1>7. Cardinality(1 .. Len(s)) = Len(s)
  <2>1. Cardinality(1 .. Len(s)) = IF 1 > Len(s) THEN 0 ELSE Len(s) - 1 + 1
    BY <1>1, FS_Interval, SMTT(40)
  <2> QED  BY <1>1, <2>1
<1>8. Len(s) = Cardinality(P \cup Q)
  BY <1>2, <1>7, Zenon
<1> QED  BY <1>3, <1>4, <1>5, <1>6, <1>8

LEMMA CountOnce ==
  ASSUME NEW S, NEW s \in Seq(S), NEW X,
         \A j, k \in DOMAIN s : s[j] \in X /\ s[k] \in X => j = k
  PROVE  Count(s, X) <= 1
<1> DEFINE P == {k \in DOMAIN s : s[k] \in X}
<1>1. Count(s, X) = Cardinality(P)
  BY DEF Count
<1>2. P = {} \/ \E k \in P : P = {k}
  OBVIOUS
<1> HIDE DEF P
<1>3. Cardinality(P) = 0 \/ Cardinality(P) = 1
  BY <1>2, FS_EmptySet, FS_Singleton
<1> QED  BY <1>1, <1>3

-----------------------------------------------------------------------------
\* What may be in the FIFOs then.
Request(A) == ({"BCST"} \X Clients) \cup ({"FILE", "PART"} \X A)

\* The packets of the server and whom they are for.
Answer(A) ==
  (Clients \X {"BCST"}) \cup (A \X {"OKOK"}) \cup (Receivers(A) \X {"FILE", "PART"})

PacketsFor(A, c) == {x \in {"BCST", "OKOK", "FILE", "PART"} : <<c, x>> \in Answer(A)}

\* What a client has still to write: one line, one announce, or the rest of a file.
Writing(c) ==
  \/ todo[c] = <<>>
  \/ todo[c] = <<<<"BCST", c>>>>
  \/ todo[c] = <<<<"FILE", c>>>> /\ c \in asked
  \/ todo[c] \in Seq({<<"PART", c>>}) /\ todo[c] # <<>> /\ c \in asked

TypeInv ==
  /\ DOMAIN todo = Clients /\ \A c \in Clients : Writing(c)
  /\ pipe \in Seq(Request(asked)) /\ Len(pipe) <= CapS
  /\ sending \in Seq(Answer(asked))
  /\ DOMAIN box = Clients
  /\ \A c \in Clients : box[c] \in Seq(PacketsFor(asked, c)) /\ Len(box[c]) <= CapC
  /\ lines \in [Clients -> Nat] /\ \A c \in Clients : lines[c] <= MaxLines[c]
  /\ asked \subseteq Uploaders

Uploads(c) == todo[c] = <<<<"FILE", c>>>> \/ (todo[c] # <<>> /\ Head(todo[c]) = <<"PART", c>>)

\* A client has at most one announce, answer to it, or file on its way, which begins
\* with its /send.
OneFile(c) ==
  (IF Uploads(c) THEN 1 ELSE 0)
    + Count(pipe, {<<"FILE", c>>})
    + Count(sending, {<<c, "OKOK">>})
    + Count(box[c], {"OKOK"})
  <= IF c \in asked THEN 1 ELSE 0

Saying == {c \in Clients : todo[c] = <<<<"BCST", c>>>>}

\* What has been typed bounds the messages that c has not read yet, wherever they are.
Heard(c) ==
  Count(box[c], {"BCST"})
    + Count(sending, {<<c, "BCST">>})
    + Count(pipe, {"BCST"} \X Clients)
    + Cardinality(Saying)
  <= Cardinality(Typed)

\* The inductive invariant.
Inv == TypeInv /\ \A c \in Clients : OneFile(c) /\ Heard(c)

-----------------------------------------------------------------------------
LEMMA MarksFinite ==
  ASSUME IsFiniteSet(Clients), NEW m \in [Clients -> Nat]
  PROVE  IsFiniteSet(Marks(m)) /\ Cardinality(Marks(m)) \in Nat
<1> DEFINE R(c) == {c} \X (1 .. m[c])
           U == {R(c) : c \in Clients}
           f == [c \in Clients |-> R(c)]
<1>1. ASSUME NEW c \in Clients PROVE IsFiniteSet(R(c))
  <2>1. IsFiniteSet({c})
    BY FS_Singleton
  <2>2. IsFiniteSet(1 .. m[c])
    BY FS_Interval
  <2> QED  BY <2>1, <2>2, FS_Product
<1>2. f \in Surjection(Clients, U)
  <2> HIDE DEF R
  <2> QED  BY DEF Surjection
<1>3. IsFiniteSet(U)
  <2> HIDE DEF U, f
  <2> QED  BY <1>2, FS_Surjection
<1>4. \A T \in U : IsFiniteSet(T)
  BY <1>1
<1>5. IsFiniteSet(UNION U)
  <2> HIDE DEF U
  <2> QED  BY <1>3, <1>4, FS_UNION
<1>6. Marks(m) = UNION U
  BY DEF Marks
<1> HIDE DEF U
<1> QED  BY <1>5, <1>6, FS_CardinalityType

\* One line more.
LEMMA MarksMore ==
  ASSUME IsFiniteSet(Clients), NEW m \in [Clients -> Nat], NEW c \in Clients
  PROVE  Cardinality(Marks([m EXCEPT ![c] = @ + 1])) = Cardinality(Marks(m)) + 1
<1> DEFINE n == [m EXCEPT ![c] = @ + 1]
           x == <<c, m[c] + 1>>
<1>1. n \in [Clients -> Nat] /\ n[c] = m[c] + 1 /\ \A d \in Clients \ {c} : n[d] = m[d]
  OBVIOUS
<1> HIDE DEF n
<1>2. ASSUME NEW d, NEW k PROVE <<d, k>> \in Marks(m) <=> d \in Clients /\ k \in 1 .. m[d]
  BY DEF Marks
<1>3. ASSUME NEW d, NEW k PROVE <<d, k>> \in Marks(n) <=> d \in Clients /\ k \in 1 .. n[d]
  BY DEF Marks
<1>4. \A y \in Marks(m) \cup Marks(n) : \E d, k : y = <<d, k>>
  BY DEF Marks
<1>5. x \notin Marks(m) /\ x \in Marks(n)
  BY <1>1, <1>2, <1>3
<1>6. ASSUME NEW d, NEW k, <<d, k>> # x
      PROVE  <<d, k>> \in Marks(n) <=> <<d, k>> \in Marks(m)
  BY <1>1, <1>2, <1>3, <1>6
<1> HIDE DEF x
<1>7. \A y : y \in Marks(n) <=> y \in Marks(m) \cup {x}
  BY <1>4, <1>5, <1>6
<1>8. Marks(n) = Marks(m) \cup {x}
  BY <1>7
<1>9. IsFiniteSet(Marks(m)) /\ Cardinality(Marks(m)) \in Nat
  BY MarksFinite
<1> QED  BY <1>5, <1>8, <1>9, FS_AddElement DEF n

LEMMA TypedNat ==
  ASSUME IsFiniteSet(Clients), TypeInv
  PROVE  Cardinality(Typed) \in Nat
BY MarksFinite DEF TypeInv, Typed

\* The numbers the invariant adds up.
LEMMA Numbers ==
  ASSUME IsFiniteSet(Clients), TypeInv, NEW c \in Clients, NEW X
  PROVE  /\ Count(pipe, X) \in Nat /\ Count(sending, X) \in Nat /\ Count(box[c], X) \in Nat
         /\ IsFiniteSet(Saying) /\ Cardinality(Saying) \in Nat
<1>1. Count(pipe, X) \in Nat /\ Count(sending, X) \in Nat /\ Count(box[c], X) \in Nat
  BY CountNat DEF TypeInv
<1>2. IsFiniteSet(Saying)
  <2>1. Saying \in SUBSET Clients  BY DEF Saying
  <2> QED  BY <2>1, FS_Subset
<1> QED  BY <1>1, <1>2, FS_CardinalityType

-----------------------------------------------------------------------------
\* A client who is waited for, and waits, and to whom nobody sends a file, has too many
\* messages to read.
LEMMA InvLockHasCause ==
  ASSUME IsFiniteSet(Clients), Inv
  PROVE  LockHasCause
<1> SUFFICES ASSUME NEW c \in Clients, LockedWith(c), c \notin Receivers(asked),
                    ~(Cardinality(Typed) > CapC)
             PROVE  FALSE
  BY DEF LockHasCause, Receivers
<1>1. TypeInv /\ OneFile(c) /\ Heard(c)
  BY DEF Inv
<1>2. todo[c] # <<>> /\ Writing(c)
  BY <1>1 DEF TypeInv, LockedWith
<1>3. c \notin Receivers(asked)
  OBVIOUS
<1>4. /\ Count(sending, {<<c, "BCST">>}) \in Nat /\ Count(sending, {<<c, "OKOK">>}) \in Nat
      /\ Count(pipe, {"BCST"} \X Clients) \in Nat /\ Count(pipe, {<<"FILE", c>>}) \in Nat
      /\ Count(box[c], {"BCST"}) \in Nat /\ Count(box[c], {"OKOK"}) \in Nat
      /\ IsFiniteSet(Saying) /\ Cardinality(Saying) \in Nat
  BY <1>1, Numbers
<1>5. Len(box[c]) = Count(box[c], {"BCST"}) + Count(box[c], {"OKOK"})
  <2>1. PacketsFor(asked, c) \subseteq {"BCST"} \cup {"OKOK"}
    BY <1>3 DEF PacketsFor, Answer
  <2>2. box[c] \in Seq(PacketsFor(asked, c))
    BY <1>1 DEF TypeInv
  <2>3. {"BCST"} \cap {"OKOK"} = {}
    OBVIOUS
  <2> QED  BY <2>1, <2>2, <2>3, CountBoth
<1>6. Count(sending, {<<c, "BCST">>}) + Count(sending, {<<c, "OKOK">>}) >= 1
  <2>1. sending \in Seq(Answer(asked)) /\ sending # <<>> /\ Head(sending) \in Answer(asked) /\ Head(sending)[1] = c
    BY <1>1 DEF TypeInv, LockedWith
  <2>2. Head(sending) = <<c, "BCST">> \/ Head(sending) = <<c, "OKOK">>
    BY <1>3, <2>1 DEF Answer
  <2>3. \A X : Count(sending, X) = Count(Tail(sending), X) + IF Head(sending) \in X THEN 1 ELSE 0
    BY <2>1, CountTail
  <2>4. Tail(sending) \in Seq(Answer(asked))
    BY <2>1, HeadTailProperties
  <2>5. \A X : Count(Tail(sending), X) \in Nat
    BY <2>4, CountNat
  <2>6. CASE Head(sending) = <<c, "BCST">>
    <3>1. Count(sending, {<<c, "BCST">>}) = Count(Tail(sending), {<<c, "BCST">>}) + 1
      BY <2>3, <2>6
    <3> QED  BY <1>4, <2>5, <3>1
  <2>7. CASE Head(sending) = <<c, "OKOK">>
    <3>1. Count(sending, {<<c, "OKOK">>}) = Count(Tail(sending), {<<c, "OKOK">>}) + 1
      BY <2>3, <2>7
    <3> QED  BY <1>4, <2>5, <3>1
  <2> QED  BY <2>2, <2>6, <2>7
<1>7. Cardinality(Typed) \in Nat /\ Cardinality(Typed) <= CapC
  BY <1>1, TypedNat, RoomAssumption
<1>8. Len(box[c]) = CapC /\ CapC \in Nat
  BY RoomAssumption DEF LockedWith
<1>9. Uploads(c) \/ Cardinality(Saying) >= 1
  <2>1. CASE todo[c] = <<<<"BCST", c>>>>
    <3>1. Saying # {}
      BY <2>1 DEF Saying
    <3>2. Cardinality(Saying) # 0
      BY <1>4, <3>1, FS_EmptySet
    <3> QED  BY <1>4, <3>2
  <2>2. CASE todo[c] \in Seq({<<"PART", c>>})
    BY <1>2, <2>2 DEF Uploads
  <2> QED  BY <1>2, <2>1, <2>2 DEF Writing, Uploads
<1>10. (IF Uploads(c) THEN 1 ELSE 0)
         + Count(pipe, {<<"FILE", c>>}) + Count(sending, {<<c, "OKOK">>}) + Count(box[c], {"OKOK"}) <= 1
  BY <1>1, <1>4 DEF OneFile
<1>11. Count(box[c], {"BCST"}) + Count(sending, {<<c, "BCST">>})
         + Count(pipe, {"BCST"} \X Clients) + Cardinality(Saying) <= CapC
  BY <1>1, <1>4, <1>7, <1>8 DEF Heard
<1> DEFINE bb == Count(box[c], {"BCST"})
           bo == Count(box[c], {"OKOK"})
           sb == Count(sending, {<<c, "BCST">>})
           so == Count(sending, {<<c, "OKOK">>})
           pf == Count(pipe, {<<"FILE", c>>})
           pb == Count(pipe, {"BCST"} \X Clients)
           sy == Cardinality(Saying)
<1>12. /\ bb \in Nat /\ bo \in Nat /\ sb \in Nat /\ so \in Nat /\ pf \in Nat /\ pb \in Nat
       /\ sy \in Nat /\ CapC \in Nat
       /\ CapC = bb + bo /\ sb + so >= 1 /\ bb + sb + pb + sy <= CapC
       /\ (IF Uploads(c) THEN 1 ELSE 0) + pf + so + bo <= 1
  BY <1>4, <1>5, <1>6, <1>8, <1>10, <1>11
<1> HIDE DEF bb, bo, sb, so, pf, pb, sy
<1>13. CASE Uploads(c)
  <2>1. so = 0 /\ bo = 0
    BY <1>12, <1>13
  <2> QED  BY <1>12, <2>1
<1>14. CASE sy >= 1
  <2>1. so + bo <= 1
    BY <1>12
  <2> QED  BY <1>12, <1>14, <2>1
<1> QED  BY <1>9, <1>13, <1>14 DEF sy

-----------------------------------------------------------------------------
\* A broadcast writes to each client once.
LEMMA UsersOnce ==
  ASSUME IsFiniteSet(Clients)
  PROVE  /\ Users \in Seq(Clients)
         /\ \A j, k \in DOMAIN Users : Users[j] = Users[k] => j = k
<1> DEFINE n == Cardinality(Clients)
           F == {f \in [1 .. n -> Clients] : \A j, k \in DOMAIN f : f[j] = f[k] => j = k}
<1>1. n \in Nat /\ F # {}
  <2>1. n \in Nat /\ Bijection(1 .. n, Clients) # {}
    BY FS_CardinalityType DEF ExistsBijection
  <2> QED  BY <2>1 DEF Bijection, Injection, IsInjective
<1>2. Users = CHOOSE f \in [1 .. n -> Clients] : \A j, k \in DOMAIN f : f[j] = f[k] => j = k
  BY DEF Users, SetToSeq, IsInjective
<1>3. Users \in F
  BY <1>1, <1>2
<1> QED  BY <1>1, <1>3

LEMMA InitInv ==
  ASSUME IsFiniteSet(Clients), Init
  PROVE  Inv
<1>1. TypeInv
  BY RoomAssumption DEF Init, TypeInv, Writing
<1>2. Saying = {} /\ Cardinality(Saying) = 0
  <2>1. Saying = {}
    BY DEF Init, Saying
  <2> QED  BY <2>1, FS_EmptySet
<1>3. Cardinality(Typed) \in Nat
  BY <1>1, TypedNat
<1>4. ASSUME NEW c \in Clients PROVE OneFile(c) /\ Heard(c)
  <2>1. pipe = <<>> /\ sending = <<>> /\ box[c] = <<>> /\ ~Uploads(c)
    BY DEF Init, Uploads
  <2> QED  BY <1>2, <1>3, <2>1, CountEmpty DEF OneFile, Heard
<1> QED  BY <1>1, <1>4 DEF Inv

LEMMA ReadsInv ==
  ASSUME IsFiniteSet(Clients), Inv, NEW r \in Clients, Reads(r)
  PROVE  Inv'
<1> DEFINE h == Head(box[r])
<1>1. TypeInv /\ \A c \in Clients : OneFile(c) /\ Heard(c)
  BY DEF Inv
<1>2. /\ box[r] \in Seq(PacketsFor(asked, r)) /\ box[r] # <<>> /\ h \in PacketsFor(asked, r)
      /\ Tail(box[r]) \in Seq(PacketsFor(asked, r)) /\ Len(Tail(box[r])) <= CapC
  <2>1. box[r] \in Seq(PacketsFor(asked, r)) /\ box[r] # <<>> /\ Len(box[r]) <= CapC
    BY <1>1 DEF TypeInv, Reads
  <2>2. h \in PacketsFor(asked, r) /\ Tail(box[r]) \in Seq(PacketsFor(asked, r)) /\ Len(Tail(box[r])) = Len(box[r]) - 1
    BY <2>1, HeadTailProperties
  <2> QED  BY <2>1, <2>2, RoomAssumption
<1>3. /\ todo' = [todo EXCEPT ![r] = Reply(r, h)]
      /\ box' = [box EXCEPT ![r] = Tail(box[r])]
      /\ DOMAIN todo = Clients /\ DOMAIN box = Clients
      /\ todo[r] = <<>>
      /\ pipe' = pipe /\ sending' = sending /\ lines' = lines /\ asked' = asked
  BY <1>1 DEF Reads, TypeInv
<1>4. /\ h = "OKOK" => r \in asked
      /\ Reply(r, h) = <<>> \/ h = "OKOK"
      /\ Reply(r, h) \in Seq({<<"PART", r>>})
      /\ Reply(r, h) # <<>> => Head(Reply(r, h)) = <<"PART", r>>
  <2>1. h = "OKOK" => r \in asked
    BY <1>2 DEF PacketsFor, Answer
  <2>2. Reply(r, h) \in Seq({<<"PART", r>>})
    BY RoomAssumption DEF Reply
  <2>3. Reply(r, h) # <<>> => Head(Reply(r, h)) \in {<<"PART", r>>}
    BY <2>2, HeadTailProperties
  <2> QED  BY <2>1, <2>2, <2>3 DEF Reply
<1> HIDE DEF h
<1>5. \A c \in Clients : Writing(c)'
  <2>1. Writing(r)'
    BY <1>3, <1>4 DEF Writing
  <2>2. ASSUME NEW c \in Clients, c # r PROVE Writing(c)'
    <3>1. Writing(c) /\ todo'[c] = todo[c]
      BY <1>1, <1>3, <2>2 DEF TypeInv
    <3> QED  BY <1>3, <3>1 DEF Writing
  <2> QED  BY <2>1, <2>2
<1>6. TypeInv'
  BY <1>1, <1>2, <1>3, <1>5 DEF TypeInv
<1>7. Saying' = Saying
  <2>1. todo[r] # <<<<"BCST", r>>>> /\ todo'[r] # <<<<"BCST", r>>>>
    BY <1>3, <1>4
  <2>2. \A c \in Clients \ {r} : todo'[c] = todo[c]
    BY <1>3
  <2> QED  BY <2>1, <2>2 DEF Saying
<1>8. \A X : Count(box[r], X) = Count(Tail(box[r]), X) + IF h \in X THEN 1 ELSE 0
  BY <1>2, CountTail DEF h
<1>9. ASSUME NEW c \in Clients, c # r PROVE OneFile(c)' /\ Heard(c)'
  <2>1. box'[c] = box[c] /\ todo'[c] = todo[c]
    BY <1>3, <1>9
  <2>2. Uploads(c)' <=> Uploads(c)
    BY <2>1 DEF Uploads
  <2> QED  BY <1>1, <1>3, <1>7, <2>1, <2>2 DEF OneFile, Heard, Typed
<1>10. box'[r] = Tail(box[r])
  BY <1>3
<1>n. /\ \A X : Count(pipe, X) \in Nat /\ Count(sending, X) \in Nat /\ Count(box[r], X) \in Nat
      /\ \A X : Count(Tail(box[r]), X) \in Nat
      /\ Cardinality(Saying) \in Nat /\ Cardinality(Typed) \in Nat
  <2>1. \A X : Count(Tail(box[r]), X) \in Nat
    BY <1>2, CountNat
  <2> QED  BY <1>1, <2>1, Numbers, TypedNat
<1>11. Heard(r)'
  <2>1. Count(box[r], {"BCST"}) >= Count(Tail(box[r]), {"BCST"})
    BY <1>8, <1>n
  <2>2. Heard(r)
    BY <1>1
  <2>3. /\ Count(box[r], {"BCST"}) \in Nat /\ Count(Tail(box[r]), {"BCST"}) \in Nat
        /\ Count(sending, {<<r, "BCST">>}) \in Nat /\ Count(pipe, {"BCST"} \X Clients) \in Nat
    BY <1>n
  <2>4. Count(Tail(box[r]), {"BCST"}) + Count(sending, {<<r, "BCST">>})
          + Count(pipe, {"BCST"} \X Clients) + Cardinality(Saying) <= Cardinality(Typed)
    BY <1>n, <2>1, <2>2, <2>3 DEF Heard
  <2>5. Typed' = Typed
    BY <1>3 DEF Typed
  <2> QED  BY <1>3, <1>7, <1>10, <2>4, <2>5 DEF Heard
<1>12. OneFile(r)'
  <2>1. ~Uploads(r)
    BY <1>3 DEF Uploads
  <2>2. Uploads(r)' => h = "OKOK"
    <3>1. todo'[r] = Reply(r, h)
      BY <1>3
    <3>2. ASSUME h # "OKOK" PROVE todo'[r] = <<>>
      BY <1>4, <3>1, <3>2
    <3> QED  BY <3>2 DEF Uploads
  <2>3. Count(box[r], {"OKOK"}) = Count(Tail(box[r]), {"OKOK"}) + IF h = "OKOK" THEN 1 ELSE 0
    BY <1>8
  <2>4. OneFile(r)
    BY <1>1
  <2>5. /\ Count(box[r], {"OKOK"}) \in Nat /\ Count(Tail(box[r]), {"OKOK"}) \in Nat
        /\ Count(sending, {<<r, "OKOK">>}) \in Nat /\ Count(pipe, {<<"FILE", r>>}) \in Nat
    BY <1>n
  <2>6. (IF Uploads(r)' THEN 1 ELSE 0) + Count(pipe, {<<"FILE", r>>})
          + Count(sending, {<<r, "OKOK">>}) + Count(Tail(box[r]), {"OKOK"})
        <= IF r \in asked THEN 1 ELSE 0
    BY <2>1, <2>2, <2>3, <2>4, <2>5 DEF OneFile
  <2> QED  BY <1>3, <1>10, <2>6 DEF OneFile
<1> QED  BY <1>6, <1>9, <1>11, <1>12 DEF Inv

LEMMA TypesInv ==
  ASSUME IsFiniteSet(Clients), Inv, NEW t \in Clients, Types(t)
  PROVE  Inv'
<1>1. TypeInv /\ \A c \in Clients : OneFile(c) /\ Heard(c)
  BY DEF Inv
<1>2. /\ DOMAIN todo = Clients /\ todo[t] = <<>>
      /\ todo' = [todo EXCEPT ![t] = <<<<"BCST", t>>>>]
      /\ lines \in [Clients -> Nat] /\ lines' = [lines EXCEPT ![t] = @ + 1]
      /\ pipe' = pipe /\ sending' = sending /\ box' = box /\ asked' = asked
      /\ MaxLines \in [Clients -> Nat]
      /\ lines[t] < MaxLines[t] /\ \A c \in Clients : lines[c] <= MaxLines[c]
  BY <1>1, RoomAssumption DEF Types, TypeInv
<1>4. \A c \in Clients : Writing(c)'
  <2>1. Writing(t)'
    BY <1>2 DEF Writing
  <2>2. ASSUME NEW c \in Clients, c # t PROVE Writing(c)'
    <3>1. Writing(c) /\ todo'[c] = todo[c]
      BY <1>1, <1>2, <2>2 DEF TypeInv
    <3> QED  BY <1>2, <3>1 DEF Writing
  <2> QED  BY <2>1, <2>2
<1>5. TypeInv'
  <2>1. lines' \in [Clients -> Nat] /\ \A c \in Clients : lines'[c] <= MaxLines[c]
    BY <1>2
  <2> QED  BY <1>1, <1>2, <1>4, <2>1 DEF TypeInv
<1>6. Cardinality(Saying') = Cardinality(Saying) + 1
  <2>1. t \notin Saying /\ Saying' = Saying \cup {t}
    BY <1>2 DEF Saying
  <2>2. IsFiniteSet(Saying)
    BY <1>1, Numbers
  <2> QED  BY <2>1, <2>2, FS_AddElement
<1>7. Cardinality(Typed') = Cardinality(Typed) + 1
  <2>1. Cardinality(Marks([lines EXCEPT ![t] = @ + 1])) = Cardinality(Marks(lines)) + 1
    BY <1>2, MarksMore
  <2>2. Typed' = Marks([lines EXCEPT ![t] = @ + 1])
    BY <1>2 DEF Typed, Marks
  <2> QED  BY <2>1, <2>2 DEF Typed
<1>8. ASSUME NEW c \in Clients PROVE OneFile(c)' /\ Heard(c)'
  <2>1. Uploads(c)' <=> Uploads(c)
    BY <1>2 DEF Uploads
  <2>2. OneFile(c)'
    BY <1>1, <1>2, <2>1 DEF OneFile
  <2>3. /\ Count(box[c], {"BCST"}) \in Nat /\ Count(sending, {<<c, "BCST">>}) \in Nat
        /\ Count(pipe, {"BCST"} \X Clients) \in Nat
        /\ Cardinality(Saying) \in Nat /\ Cardinality(Typed) \in Nat
    BY <1>1, Numbers, TypedNat
  <2>4. Heard(c)
    BY <1>1
  <2> QED  BY <1>2, <1>6, <1>7, <2>2, <2>3, <2>4, SMTT(40) DEF Heard
<1> QED  BY <1>5, <1>8 DEF Inv

LEMMA AsksInv ==
  ASSUME IsFiniteSet(Clients), Inv, NEW u \in Clients, Asks(u)
  PROVE  Inv'
<1>1. TypeInv /\ \A c \in Clients : OneFile(c) /\ Heard(c)
  BY DEF Inv
<1>2. /\ DOMAIN todo = Clients /\ todo[u] = <<>>
      /\ u \in Uploaders /\ u \notin asked
      /\ todo' = [todo EXCEPT ![u] = <<<<"FILE", u>>>>]
      /\ asked' = asked \cup {u}
      /\ pipe' = pipe /\ sending' = sending /\ box' = box /\ lines' = lines
  BY <1>1 DEF Asks, TypeInv
<1>3. \A c \in Clients : Writing(c)'
  <2>1. Writing(u)'
    BY <1>2 DEF Writing
  <2>2. ASSUME NEW c \in Clients, c # u PROVE Writing(c)'
    <3>1. Writing(c) /\ todo'[c] = todo[c]
      BY <1>1, <1>2, <2>2 DEF TypeInv
    <3> QED  BY <1>2, <3>1 DEF Writing
  <2> QED  BY <2>1, <2>2
<1>4. TypeInv'
  <2>1. /\ Request(asked) \subseteq Request(asked')
        /\ Answer(asked) \subseteq Answer(asked')
        /\ \A c \in Clients : PacketsFor(asked, c) \subseteq PacketsFor(asked', c)
    BY <1>2 DEF Request, Answer, PacketsFor, Receivers
  <2>2. ASSUME NEW S, NEW T, S \subseteq T, NEW s \in Seq(S) PROVE s \in Seq(T)
    BY <2>2
  <2>3. pipe \in Seq(Request(asked')) /\ sending \in Seq(Answer(asked'))
    BY <1>1, <2>1, <2>2 DEF TypeInv
  <2>4. \A c \in Clients : box[c] \in Seq(PacketsFor(asked', c))
    BY <1>1, <2>1, <2>2 DEF TypeInv
  <2> QED  BY <1>1, <1>2, <1>3, <2>3, <2>4 DEF TypeInv
<1>5. Saying' = Saying
  BY <1>2 DEF Saying
<1>6. ASSUME NEW c \in Clients PROVE Heard(c)'
  BY <1>1, <1>2, <1>5 DEF Heard, Typed
<1>7. ASSUME NEW c \in Clients, c # u PROVE OneFile(c)'
  <2>1. Uploads(c)' <=> Uploads(c)
    BY <1>2, <1>7 DEF Uploads
  <2>2. c \in asked' <=> c \in asked
    BY <1>2, <1>7
  <2> QED  BY <1>1, <1>2, <2>1, <2>2 DEF OneFile
<1>8. OneFile(u)'
  <2>1. ~Uploads(u)
    BY <1>2 DEF Uploads
  <2>2. /\ Count(pipe, {<<"FILE", u>>}) \in Nat /\ Count(sending, {<<u, "OKOK">>}) \in Nat
        /\ Count(box[u], {"OKOK"}) \in Nat
    BY <1>1, Numbers
  <2>3. /\ Count(pipe, {<<"FILE", u>>}) + Count(sending, {<<u, "OKOK">>})
             + Count(box[u], {"OKOK"}) <= 0
    <3>1. OneFile(u)
      BY <1>1
    <3> QED  BY <1>2, <2>1, <2>2, <3>1 DEF OneFile
  <2>4. u \in asked'
    BY <1>2
  <2>5. (IF Uploads(u)' THEN 1 ELSE 0) \in 0 .. 1
    OBVIOUS
  <2>6. (IF Uploads(u)' THEN 1 ELSE 0) + Count(pipe, {<<"FILE", u>>})
          + Count(sending, {<<u, "OKOK">>}) + Count(box[u], {"OKOK"}) <= 1
    BY <2>2, <2>3, <2>5
  <2> QED  BY <1>2, <2>4, <2>6 DEF OneFile
<1> QED  BY <1>4, <1>6, <1>7, <1>8 DEF Inv

LEMMA WritesInv ==
  ASSUME IsFiniteSet(Clients), Inv, NEW w \in Clients, Writes(w)
  PROVE  Inv'
<1> DEFINE e == Head(todo[w])
<1>1. TypeInv /\ \A c \in Clients : OneFile(c) /\ Heard(c)
  BY DEF Inv
<1>2. /\ DOMAIN todo = Clients /\ todo[w] # <<>> /\ Writing(w)
      /\ todo' = [todo EXCEPT ![w] = Tail(todo[w])]
      /\ pipe \in Seq(Request(asked)) /\ Len(pipe) < CapS
      /\ pipe' = Append(pipe, e)
      /\ sending' = sending /\ box' = box /\ lines' = lines /\ asked' = asked
  BY <1>1 DEF Writes, TypeInv
<1>3. \/ todo[w] = <<<<"BCST", w>>>> /\ e = <<"BCST", w>> /\ Tail(todo[w]) = <<>>
      \/ todo[w] = <<<<"FILE", w>>>> /\ w \in asked /\ e = <<"FILE", w>> /\ Tail(todo[w]) = <<>>
      \/ /\ w \in asked /\ e = <<"PART", w>>
         /\ Tail(todo[w]) \in Seq({<<"PART", w>>})
         /\ Tail(todo[w]) = <<>> \/ Head(Tail(todo[w])) = <<"PART", w>>
  <2>1. CASE todo[w] \in Seq({<<"PART", w>>}) /\ w \in asked
    <3>1. e \in {<<"PART", w>>} /\ Tail(todo[w]) \in Seq({<<"PART", w>>})
      BY <1>2, <2>1, HeadTailProperties
    <3>2. Tail(todo[w]) = <<>> \/ Head(Tail(todo[w])) \in {<<"PART", w>>}
      BY <3>1, HeadTailProperties
    <3> QED  BY <2>1, <3>1, <3>2
  <2>2. CASE todo[w] = <<<<"BCST", w>>>>
    BY <2>2
  <2>3. CASE todo[w] = <<<<"FILE", w>>>> /\ w \in asked
    BY <2>3
  <2> QED  BY <1>2, <2>1, <2>2, <2>3 DEF Writing
<1>4. todo'[w] = Tail(todo[w]) /\ \A c \in Clients \ {w} : todo'[c] = todo[c]
  BY <1>2
<1>5. e \in Request(asked)
  BY <1>3 DEF Request
<1>6. \A X : Count(pipe', X) = Count(pipe, X) + IF e \in X THEN 1 ELSE 0
  BY <1>2, <1>5, CountAppend
<1> HIDE DEF e
<1>7. \A c \in Clients : Writing(c)'
  <2>1. Writing(w)'
    BY <1>2, <1>3, <1>4 DEF Writing
  <2>2. ASSUME NEW c \in Clients, c # w PROVE Writing(c)'
    <3>1. Writing(c) /\ todo'[c] = todo[c]
      BY <1>1, <1>4, <2>2 DEF TypeInv
    <3> QED  BY <1>2, <3>1 DEF Writing
  <2> QED  BY <2>1, <2>2
<1>8. TypeInv'
  <2>1. pipe' \in Seq(Request(asked)) /\ Len(pipe') = Len(pipe) + 1
    BY <1>2, <1>5, AppendProperties
  <2>2. Len(pipe') <= CapS
    BY <1>2, <2>1, RoomAssumption
  <2> QED  BY <1>1, <1>2, <1>7, <2>1, <2>2 DEF TypeInv
<1>n. /\ \A c \in Clients : \A X : Count(pipe, X) \in Nat /\ Count(sending, X) \in Nat /\ Count(box[c], X) \in Nat
      /\ IsFiniteSet(Saying) /\ Cardinality(Saying) \in Nat /\ Cardinality(Typed) \in Nat
  BY <1>1, Numbers, TypedNat
<1>9. Cardinality(Saying') + Count(pipe', {"BCST"} \X Clients)
        = Cardinality(Saying) + Count(pipe, {"BCST"} \X Clients)
  <2>1. CASE todo[w] = <<<<"BCST", w>>>>
    <3>1. e \in {"BCST"} \X Clients /\ Tail(todo[w]) = <<>>
      BY <2>1 DEF e
    <3>2. w \in Saying /\ Saying' = Saying \ {w}
      BY <1>4, <2>1, <3>1 DEF Saying
    <3>3. Cardinality(Saying') = Cardinality(Saying) - 1
      BY <1>n, <3>2, FS_RemoveElement
    <3>4. Count(pipe', {"BCST"} \X Clients) = Count(pipe, {"BCST"} \X Clients) + 1
      BY <1>6, <3>1
    <3> QED  BY <1>n, <3>3, <3>4
  <2>2. CASE todo[w] # <<<<"BCST", w>>>>
    <3>1. e \notin {"BCST"} \X Clients /\ todo'[w] # <<<<"BCST", w>>>>
      <4>1. e = <<"FILE", w>> \/ e = <<"PART", w>>
        BY <1>3, <2>2
      <4>2. Tail(todo[w]) = <<>> \/ Head(Tail(todo[w])) = <<"PART", w>>
        BY <1>3
      <4>3. e \notin {"BCST"} \X Clients
        BY <4>1
      <4>4. Tail(todo[w]) # <<<<"BCST", w>>>>
        <5>1. Head(<<<<"BCST", w>>>>) # <<"PART", w>> /\ <<<<"BCST", w>>>> # <<>>
          OBVIOUS
        <5> QED  BY <4>2, <5>1
      <4> QED  BY <1>4, <4>3, <4>4
    <3>2. Saying' = Saying
      BY <1>4, <2>2, <3>1 DEF Saying
    <3>3. Count(pipe', {"BCST"} \X Clients) = Count(pipe, {"BCST"} \X Clients)
      BY <1>6, <1>n, <3>1
    <3> QED  BY <3>2, <3>3
  <2> QED  BY <2>1, <2>2
<1>10. ASSUME NEW c \in Clients PROVE Heard(c)'
  <2>1. Cardinality(Saying') \in Nat /\ Count(pipe', {"BCST"} \X Clients) \in Nat
    <3>1. IsFiniteSet(Clients) /\ TypeInv' => Cardinality(Saying') \in Nat /\ Count(pipe', {"BCST"} \X Clients) \in Nat
      <4>1. Saying' \in SUBSET Clients
        BY DEF Saying
      <4>2. IsFiniteSet(Saying')
        BY <4>1, FS_Subset
      <4>3. Cardinality(Saying') \in Nat
        BY <4>2, FS_CardinalityType
      <4>4. Count(pipe', {"BCST"} \X Clients) \in Nat
        BY <1>8, CountNat DEF TypeInv
      <4> QED  BY <4>3, <4>4
    <3> QED  BY <1>8, <3>1
  <2>2. Heard(c)
    BY <1>1
  <2>3. Typed' = Typed
    BY <1>2 DEF Typed, Marks
  <2>4. Count(box[c], {"BCST"}) + Count(sending, {<<c, "BCST">>})
          + Count(pipe', {"BCST"} \X Clients) + Cardinality(Saying') <= Cardinality(Typed)
    BY <1>9, <1>n, <2>1, <2>2 DEF Heard
  <2> QED  BY <1>2, <2>3, <2>4 DEF Heard
<1>11. ASSUME NEW c \in Clients, c # w PROVE OneFile(c)'
  <2>1. Uploads(c)' <=> Uploads(c)
    BY <1>4, <1>11 DEF Uploads
  <2>2. e \notin {<<"FILE", c>>}
    BY <1>3, <1>11
  <2>3. Count(pipe', {<<"FILE", c>>}) = Count(pipe, {<<"FILE", c>>})
    BY <1>6, <1>n, <2>2
  <2> QED  BY <1>1, <1>2, <2>1, <2>3 DEF OneFile
<1>12. OneFile(w)'
  <2> DEFINE U == IF Uploads(w) THEN 1 ELSE 0
             V == IF Uploads(w)' THEN 1 ELSE 0
             A == IF w \in asked THEN 1 ELSE 0
  <2>1. /\ U + Count(pipe, {<<"FILE", w>>}) + Count(sending, {<<w, "OKOK">>})
             + Count(box[w], {"OKOK"}) <= A
    BY <1>1 DEF OneFile
  <2>2. V + Count(pipe', {<<"FILE", w>>}) <= U + Count(pipe, {<<"FILE", w>>})
    <3>1. CASE todo[w] = <<<<"FILE", w>>>>
      <4>1. Uploads(w) /\ ~Uploads(w)' /\ e \in {<<"FILE", w>>}
        <5>1. todo'[w] = <<>>
          BY <1>4, <3>1
        <5> QED  BY <3>1, <5>1 DEF Uploads, e
      <4>2. Count(pipe', {<<"FILE", w>>}) = Count(pipe, {<<"FILE", w>>}) + 1
        BY <1>6, <4>1
      <4> QED  BY <1>n, <4>1, <4>2
    <3>2. CASE todo[w] # <<<<"FILE", w>>>>
      <4>1. e \notin {<<"FILE", w>>}
        BY <1>3, <3>2
      <4>a. Uploads(w)' => Uploads(w)
        <5>1. CASE e = <<"PART", w>>
          <6>1. Head(todo[w]) = <<"PART", w>> /\ todo[w] # <<>>
            BY <1>2, <5>1 DEF e
          <6> QED  BY <6>1 DEF Uploads
        <5>2. CASE Tail(todo[w]) = <<>>
          <6>1. todo'[w] = <<>>
            BY <1>4, <5>2
          <6>2. <<>> # <<<<"FILE", w>>>>
            OBVIOUS
          <6> QED  BY <6>1, <6>2 DEF Uploads
        <5> QED  BY <1>3, <3>2, <5>1, <5>2
      <4>2. Count(pipe', {<<"FILE", w>>}) = Count(pipe, {<<"FILE", w>>})
        BY <1>6, <1>n, <4>1
      <4> QED  BY <1>n, <4>a, <4>2
    <3> QED  BY <3>1, <3>2
  <2>3. Count(pipe', {<<"FILE", w>>}) \in Nat
    BY <1>8, CountNat DEF TypeInv
  <2>4. U \in Nat /\ V \in Nat /\ A \in Nat
    OBVIOUS
  <2> HIDE DEF U, V, A
  <2>5. V + Count(pipe', {<<"FILE", w>>}) + Count(sending, {<<w, "OKOK">>})
             + Count(box[w], {"OKOK"}) <= A
    <3>1. /\ Count(pipe, {<<"FILE", w>>}) \in Nat /\ Count(sending, {<<w, "OKOK">>}) \in Nat
          /\ Count(box[w], {"OKOK"}) \in Nat
      BY <1>n
    <3> QED  BY <2>1, <2>2, <2>3, <2>4, <3>1
  <2> QED  BY <1>2, <2>5 DEF OneFile, V, A
<1> QED  BY <1>8, <1>10, <1>11, <1>12 DEF Inv

\* What the server writes in answer to one request.
LEMMA AnswersOnce ==
  ASSUME IsFiniteSet(Clients), asked \subseteq Uploaders, NEW q \in Request(asked), NEW c \in Clients
  PROVE  /\ Answers(q) \in Seq(Answer(asked))
         /\ Count(Answers(q), {<<c, "BCST">>}) <= IF q \in {"BCST"} \X Clients THEN 1 ELSE 0
         /\ Count(Answers(q), {<<c, "OKOK">>}) <= IF q \in {<<"FILE", c>>} THEN 1 ELSE 0
<1> DEFINE a == Answers(q)
<1>1. CASE q \in {"BCST"} \X Clients
  <2>1. a = [k \in DOMAIN Users |-> <<Users[k], "BCST">>]
    BY <1>1 DEF Answers
  <2>2. Users \in Seq(Clients) /\ \A j, k \in DOMAIN Users : Users[j] = Users[k] => j = k
    BY UsersOnce
  <2>3. a \in Seq(Clients \X {"BCST"})
    BY <2>1, <2>2
  <2>4. a \in Seq(Answer(asked))
    BY <2>1, <2>2 DEF Answer
  <2>5. \A j, k \in DOMAIN a : a[j] \in {<<c, "BCST">>} /\ a[k] \in {<<c, "BCST">>} => j = k
    BY <2>1, <2>2
  <2>6. \A k \in DOMAIN a : a[k] \notin {<<c, "OKOK">>}
    BY <2>1
  <2> HIDE DEF a
  <2>7. Count(a, {<<c, "BCST">>}) <= 1
    BY <2>4, <2>5, CountOnce
  <2>8. Count(a, {<<c, "OKOK">>}) = 0
    BY <2>6, CountNone
  <2> QED  BY <1>1, <2>4, <2>7, <2>8 DEF a
<1>2. CASE q \in {"FILE"} \X asked
  <2>1. a = <<<<To[q[2]], "FILE">>, <<q[2], "OKOK">>>> /\ q[2] \in asked
    BY <1>2 DEF Answers
  <2>2. a \in Seq(Answer(asked))
    BY <2>1 DEF Answer, Receivers
  <2>3. \A k \in DOMAIN a : a[k] \notin {<<c, "BCST">>}
    BY <2>1
  <2>4. \A j, k \in DOMAIN a : a[j] \in {<<c, "OKOK">>} /\ a[k] \in {<<c, "OKOK">>} => j = k
    BY <2>1
  <2>5. q \notin {<<"FILE", c>>} => \A k \in DOMAIN a : a[k] \notin {<<c, "OKOK">>}
    BY <1>2, <2>1
  <2> HIDE DEF a
  <2>6. Count(a, {<<c, "BCST">>}) = 0
    BY <2>3, CountNone
  <2>7. Count(a, {<<c, "OKOK">>}) <= 1
    BY <2>2, <2>4, CountOnce
  <2>8. q \notin {<<"FILE", c>>} => Count(a, {<<c, "OKOK">>}) = 0
    BY <2>5, CountNone
  <2>9. q \notin {"BCST"} \X Clients
    BY <1>2
  <2> QED  BY <2>2, <2>6, <2>7, <2>8, <2>9 DEF a
<1>3. CASE q \in {"PART"} \X asked
  <2>1. a = <<<<To[q[2]], "PART">>>> /\ q[2] \in asked
    BY <1>3 DEF Answers
  <2>2. a \in Seq(Answer(asked))
    BY <2>1 DEF Answer, Receivers
  <2>3. /\ \A k \in DOMAIN a : a[k] \notin {<<c, "BCST">>}
        /\ \A k \in DOMAIN a : a[k] \notin {<<c, "OKOK">>}
    BY <2>1
  <2> HIDE DEF a
  <2>4. Count(a, {<<c, "BCST">>}) = 0 /\ Count(a, {<<c, "OKOK">>}) = 0
    BY <2>3, CountNone
  <2> QED  BY <2>2, <2>4 DEF a
<1> QED  BY <1>1, <1>2, <1>3 DEF Request

LEMMA TakesInv ==
  ASSUME IsFiniteSet(Clients), Inv, Takes
  PROVE  Inv'
<1> DEFINE q == Head(pipe)
<1>1. TypeInv /\ \A c \in Clients : OneFile(c) /\ Heard(c)
  BY DEF Inv
<1>2. /\ sending = <<>> /\ pipe # <<>> /\ pipe \in Seq(Request(asked))
      /\ sending' = Answers(q) /\ pipe' = Tail(pipe)
      /\ todo' = todo /\ box' = box /\ lines' = lines /\ asked' = asked
  BY <1>1 DEF Takes, TypeInv
<1>3. q \in Request(asked) /\ Tail(pipe) \in Seq(Request(asked)) /\ Len(Tail(pipe)) = Len(pipe) - 1
  BY <1>2, HeadTailProperties
<1>4. \A X : Count(pipe, X) = Count(pipe', X) + IF q \in X THEN 1 ELSE 0
  BY <1>2, CountTail
<1> HIDE DEF q
<1>5. /\ sending' \in Seq(Answer(asked))
      /\ \A c \in Clients :
           /\ Count(sending', {<<c, "BCST">>}) <= IF q \in {"BCST"} \X Clients THEN 1 ELSE 0
           /\ Count(sending', {<<c, "OKOK">>}) <= IF q \in {<<"FILE", c>>} THEN 1 ELSE 0
  <2>1. /\ Answers(q) \in Seq(Answer(asked))
        /\ \A c \in Clients :
             /\ Count(Answers(q), {<<c, "BCST">>}) <= IF q \in {"BCST"} \X Clients THEN 1 ELSE 0
             /\ Count(Answers(q), {<<c, "OKOK">>}) <= IF q \in {<<"FILE", c>>} THEN 1 ELSE 0
    <3>1. Clients # {}
      BY <1>1, <1>3, RoomAssumption DEF TypeInv, Request
    <3>2. asked \subseteq Uploaders
      BY <1>1 DEF TypeInv
    <3> QED  BY <1>3, <3>1, <3>2, AnswersOnce, Zenon
  <2> QED  BY <1>2, <2>1, Zenon
<1>6. TypeInv'
  <2>1. Len(pipe') <= CapS
    BY <1>1, <1>2, <1>3, RoomAssumption DEF TypeInv
  <2>2. \A c \in Clients : Writing(c)'
    BY <1>1, <1>2 DEF TypeInv, Writing
  <2> QED  BY <1>1, <1>2, <1>3, <1>5, <2>1, <2>2 DEF TypeInv
<1>7. Saying' = Saying /\ Typed' = Typed
  BY <1>2 DEF Saying, Typed, Marks
<1>8. ASSUME NEW c \in Clients PROVE Heard(c)' /\ OneFile(c)'
  <2>1. /\ Count(pipe, {"BCST"} \X Clients) \in Nat /\ Count(pipe, {<<"FILE", c>>}) \in Nat
        /\ Count(box[c], {"BCST"}) \in Nat /\ Count(box[c], {"OKOK"}) \in Nat
        /\ Cardinality(Saying) \in Nat /\ Cardinality(Typed) \in Nat
    BY <1>1, Numbers, TypedNat
  <2>2. /\ \A X : Count(sending', X) \in Nat
        /\ \A X : Count(pipe', X) \in Nat
    BY <1>2, <1>3, <1>5, CountNat
  <2>3. Count(sending, {<<c, "BCST">>}) = 0 /\ Count(sending, {<<c, "OKOK">>}) = 0
    BY <1>2, CountEmpty
  <2>4. Count(sending', {<<c, "BCST">>}) + Count(pipe', {"BCST"} \X Clients)
          <= Count(pipe, {"BCST"} \X Clients)
    <3>1. Count(pipe, {"BCST"} \X Clients) = Count(pipe', {"BCST"} \X Clients)
            + IF q \in {"BCST"} \X Clients THEN 1 ELSE 0
      BY <1>4
    <3>2. Count(sending', {<<c, "BCST">>}) <= IF q \in {"BCST"} \X Clients THEN 1 ELSE 0
      BY <1>5
    <3>3. CASE q \in {"BCST"} \X Clients
      <4>1. /\ Count(pipe, {"BCST"} \X Clients) = Count(pipe', {"BCST"} \X Clients) + 1
            /\ Count(sending', {<<c, "BCST">>}) <= 1
        BY <3>1, <3>2, <3>3, Zenon
      <4> QED  BY <2>1, <2>2, <4>1
    <3>4. CASE q \notin {"BCST"} \X Clients
      <4>1. /\ Count(pipe, {"BCST"} \X Clients) = Count(pipe', {"BCST"} \X Clients) + 0
            /\ Count(sending', {<<c, "BCST">>}) <= 0
        BY <3>1, <3>2, <3>4, Zenon
      <4> QED  BY <2>1, <2>2, <4>1
    <3> QED  BY <3>3, <3>4
  <2>5. Count(sending', {<<c, "OKOK">>}) + Count(pipe', {<<"FILE", c>>})
          <= Count(pipe, {<<"FILE", c>>})
    <3>1. Count(pipe, {<<"FILE", c>>}) = Count(pipe', {<<"FILE", c>>})
            + IF q \in {<<"FILE", c>>} THEN 1 ELSE 0
      BY <1>4
    <3>2. Count(sending', {<<c, "OKOK">>}) <= IF q \in {<<"FILE", c>>} THEN 1 ELSE 0
      BY <1>5
    <3>3. CASE q \in {<<"FILE", c>>}
      <4>1. /\ Count(pipe, {<<"FILE", c>>}) = Count(pipe', {<<"FILE", c>>}) + 1
            /\ Count(sending', {<<c, "OKOK">>}) <= 1
        BY <3>1, <3>2, <3>3, Zenon
      <4> QED  BY <2>1, <2>2, <4>1
    <3>4. CASE q \notin {<<"FILE", c>>}
      <4>1. /\ Count(pipe, {<<"FILE", c>>}) = Count(pipe', {<<"FILE", c>>}) + 0
            /\ Count(sending', {<<c, "OKOK">>}) <= 0
        BY <3>1, <3>2, <3>4, Zenon
      <4> QED  BY <2>1, <2>2, <4>1
    <3> QED  BY <3>3, <3>4
  <2>6. Heard(c)'
    <3>1. Count(box[c], {"BCST"}) + Count(sending', {<<c, "BCST">>})
            + Count(pipe', {"BCST"} \X Clients) + Cardinality(Saying) <= Cardinality(Typed)
      BY <1>1, <2>1, <2>2, <2>3, <2>4, SMTT(40) DEF Heard
    <3> QED  BY <1>2, <1>7, <3>1 DEF Heard
  <2>7. OneFile(c)'
    <3> DEFINE U == IF Uploads(c) THEN 1 ELSE 0
               A == IF c \in asked THEN 1 ELSE 0
    <3>1. U + Count(pipe, {<<"FILE", c>>}) + 0 + Count(box[c], {"OKOK"}) <= A
      BY <1>1, <2>3 DEF OneFile
    <3>2. U \in Nat /\ A \in Nat
      OBVIOUS
    <3>3. U' = U /\ A' = A
      BY <1>2 DEF Uploads
    <3> HIDE DEF U, A
    <3>4. U + Count(pipe', {<<"FILE", c>>}) + Count(sending', {<<c, "OKOK">>})
            + Count(box[c], {"OKOK"}) <= A
      BY <2>1, <2>2, <2>5, <3>1, <3>2
    <3>5. U' + Count(pipe', {<<"FILE", c>>}) + Count(sending', {<<c, "OKOK">>})
            + Count(box'[c], {"OKOK"}) <= A'
      BY <1>2, <3>3, <3>4
    <3> QED  BY <3>5 DEF OneFile, U, A
  <2> QED  BY <2>6, <2>7
<1> QED  BY <1>6, <1>8 DEF Inv

LEMMA SendsInv ==
  ASSUME IsFiniteSet(Clients), Inv, Sends
  PROVE  Inv'
<1> DEFINE h == Head(sending)
           d == h[1]
           x == h[2]
<1>1. TypeInv /\ \A c \in Clients : OneFile(c) /\ Heard(c)
  BY DEF Inv
<1>2. /\ sending # <<>> /\ sending \in Seq(Answer(asked)) /\ sending' = Tail(sending)
      /\ DOMAIN box = Clients
      /\ Len(box[d]) < CapC /\ box' = [box EXCEPT ![d] = Append(box[d], x)]
      /\ todo' = todo /\ pipe' = pipe /\ lines' = lines /\ asked' = asked
  BY <1>1 DEF Sends, TypeInv
<1>3. h \in Answer(asked) /\ Tail(sending) \in Seq(Answer(asked))
  BY <1>2, HeadTailProperties
<1>4. \A X : Count(sending, X) = Count(sending', X) + IF h \in X THEN 1 ELSE 0
  BY <1>2, CountTail
<1>5. d \in Clients /\ x \in PacketsFor(asked, d) /\ h = <<d, x>>
  BY <1>1, <1>3, RoomAssumption DEF TypeInv, Answer, PacketsFor, Receivers
<1> HIDE DEF h
<1> HIDE DEF d, x
<1>6. box'[d] = Append(box[d], x) /\ \A c \in Clients \ {d} : box'[c] = box[c]
  BY <1>2, <1>5
<1>7. box[d] \in Seq(PacketsFor(asked, d))
  BY <1>1, <1>5 DEF TypeInv
<1>8. \A X : Count(box'[d], X) = Count(box[d], X) + IF x \in X THEN 1 ELSE 0
  BY <1>5, <1>6, <1>7, CountAppend
<1>9. TypeInv'
  <2>1. box'[d] \in Seq(PacketsFor(asked, d)) /\ Len(box'[d]) = Len(box[d]) + 1
    BY <1>5, <1>6, <1>7, AppendProperties
  <2>2. Len(box'[d]) <= CapC
    BY <1>2, <1>7, <2>1, RoomAssumption
  <2>3. \A c \in Clients : box'[c] \in Seq(PacketsFor(asked, c)) /\ Len(box'[c]) <= CapC
    BY <1>1, <1>6, <2>1, <2>2 DEF TypeInv
  <2>4. \A c \in Clients : Writing(c)'
    BY <1>1, <1>2 DEF TypeInv, Writing
  <2>5. DOMAIN box' = Clients
    BY <1>2
  <2> QED  BY <1>1, <1>2, <1>3, <2>3, <2>4, <2>5 DEF TypeInv
<1>10. Saying' = Saying /\ Typed' = Typed
  BY <1>2 DEF Saying, Typed, Marks
<1>11. ASSUME NEW c \in Clients PROVE Heard(c)' /\ OneFile(c)'
  <2>1. /\ \A X : Count(sending, X) \in Nat /\ Count(box[c], X) \in Nat /\ Count(pipe, X) \in Nat
        /\ Cardinality(Saying) \in Nat /\ Cardinality(Typed) \in Nat
    BY <1>1, Numbers, TypedNat
  <2>2. /\ \A X : Count(sending', X) \in Nat
        /\ \A X : Count(box'[c], X) \in Nat
    BY <1>9, CountNat DEF TypeInv
  <2>3. ASSUME NEW y
        PROVE  Count(box'[c], {y}) + Count(sending', {<<c, y>>})
                 = Count(box[c], {y}) + Count(sending, {<<c, y>>})
    <3>1. CASE c = d /\ y = x
      <4>1. Count(sending, {<<c, y>>}) = Count(sending', {<<c, y>>}) + 1
        BY <1>4, <1>5, <3>1
      <4>2. Count(box'[c], {y}) = Count(box[c], {y}) + 1
        BY <1>8, <3>1
      <4> QED  BY <2>1, <2>2, <4>1, <4>2
    <3>2. CASE c = d /\ y # x
      <4>1. Count(sending, {<<c, y>>}) = Count(sending', {<<c, y>>}) + 0
        BY <1>4, <1>5, <3>2
      <4>2. Count(box'[c], {y}) = Count(box[c], {y}) + 0
        BY <1>8, <3>2
      <4> QED  BY <2>1, <2>2, <4>1, <4>2
    <3>3. CASE c # d
      <4>1. Count(sending, {<<c, y>>}) = Count(sending', {<<c, y>>}) + 0
        BY <1>4, <1>5, <3>3
      <4>2. box'[c] = box[c]
        BY <1>6, <3>3
      <4> QED  BY <2>1, <2>2, <4>1, <4>2
    <3> QED  BY <3>1, <3>2, <3>3
  <2>4. Heard(c)'
    <3>1. Count(box'[c], {"BCST"}) + Count(sending', {<<c, "BCST">>})
            = Count(box[c], {"BCST"}) + Count(sending, {<<c, "BCST">>})
      BY <2>3
    <3>2. Count(box'[c], {"BCST"}) + Count(sending', {<<c, "BCST">>})
            + Count(pipe, {"BCST"} \X Clients) + Cardinality(Saying) <= Cardinality(Typed)
      BY <1>1, <3>1 DEF Heard
    <3> QED  BY <1>2, <1>10, <3>2 DEF Heard
  <2>5. OneFile(c)'
    <3> DEFINE U == IF Uploads(c) THEN 1 ELSE 0
               A == IF c \in asked THEN 1 ELSE 0
    <3>1. Count(box'[c], {"OKOK"}) + Count(sending', {<<c, "OKOK">>})
            = Count(box[c], {"OKOK"}) + Count(sending, {<<c, "OKOK">>})
      BY <2>3
    <3>2. U + Count(pipe, {<<"FILE", c>>}) + Count(sending, {<<c, "OKOK">>})
            + Count(box[c], {"OKOK"}) <= A
      BY <1>1 DEF OneFile
    <3>3. U \in Nat /\ A \in Nat
      OBVIOUS
    <3>4. U' = U /\ A' = A
      BY <1>2 DEF Uploads
    <3> HIDE DEF U, A
    <3>5. U + Count(pipe, {<<"FILE", c>>}) + Count(sending', {<<c, "OKOK">>})
            + Count(box'[c], {"OKOK"}) <= A
      BY <2>1, <2>2, <3>1, <3>2, <3>3
    <3>6. U' + Count(pipe', {<<"FILE", c>>}) + Count(sending', {<<c, "OKOK">>})
            + Count(box'[c], {"OKOK"}) <= A'
      BY <1>2, <3>4, <3>5
    <3> QED  BY <3>6 DEF OneFile, U, A
  <2> QED  BY <2>4, <2>5
<1> QED  BY <1>9, <1>11 DEF Inv

LEMMA NextInv ==
  ASSUME IsFiniteSet(Clients), Inv, [Next]_vars
  PROVE  Inv'
<1>1. CASE Next
  <2>1. CASE \E c \in Clients : Reads(c) \/ Types(c) \/ Asks(c) \/ Writes(c)
    BY <2>1, ReadsInv, TypesInv, AsksInv, WritesInv
  <2>2. CASE Takes
    BY <2>2, TakesInv
  <2>3. CASE Sends
    BY <2>3, SendsInv
  <2> QED  BY <1>1, <2>1, <2>2, <2>3 DEF Next
<1>2. CASE UNCHANGED vars
  BY <1>2 DEF vars, Inv, TypeInv, Writing, OneFile, Heard, Uploads, Typed, Marks, Saying
<1> QED  BY <1>1, <1>2

-----------------------------------------------------------------------------
\* Whatever is typed and sent, by any number of clients, and however much room there is in
\* the FIFOs: the server waits in send_to or broadcast for a client that waits in
\* input_handler or send_file for the server only if somebody has asked to send this client
\* a file, or more lines have been typed than its FIFO holds.
THEOREM CircularWaitHasCause ==
  ASSUME IsFiniteSet(Clients)
  PROVE  Spec => []LockHasCause
<1>1. Init => Inv
  BY InitInv
<1>2. Inv /\ [Next]_vars => Inv'
  BY NextInv
<1>3. Inv => LockHasCause
  BY InvLockHasCause
<1> QED  BY <1>1, <1>2, <1>3, PTL DEF Spec
=============================================================================
