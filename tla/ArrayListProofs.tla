--------------------------- MODULE ArrayListProofs ---------------------------
(***************************************************************************)
(* What arlist_add and arlist_remove do to the slots, for lists of any     *)
(* length and pointers of any size: their types and lengths, where they    *)
(* are exact, and what a removal in the middle loses.                      *)
(***************************************************************************)
EXTENDS ArrayList, SequenceTheorems, WellFoundedInduction, TLAPS

\* A set of numbers has a least one, which is what a scan of slots stops at.
LEMMA MinOfNat ==
  ASSUME NEW S \in SUBSET Nat, S # {}
  PROVE  Min(S) \in S /\ \A y \in S : Min(S) <= y
<1> DEFINE R == OpToRel(<, Nat)
<1>1. R = {ss \in Nat \X Nat : ss[1] < ss[2]}
  BY DEF OpToRel
<1>2. IsWellFoundedOn(R, Nat)
  BY NatLessThanWellFounded
<1> HIDE DEF R
<1>3. PICK x \in S : \A y \in S : <<y, x>> \notin R
  BY <1>2, WFMin
<1>4. ASSUME NEW y \in S PROVE x <= y
  <2>1. <<y, x>> \in Nat \X Nat /\ ~(<<y, x>> \in {ss \in Nat \X Nat : ss[1] < ss[2]})
    BY <1>1, <1>3
  <2>2. ~(y < x)
    BY <2>1
  <2> QED  BY <2>2
<1> QED  BY <1>4 DEF Min

\* Overwriting bytes of a pointer with bytes of a pointer gives a pointer.
LEMMA MixType ==
  ASSUME NEW p \in Ptr, NEW q \in Ptr, NEW k \in Int
  PROVE  Mix(p, q, k) \in Ptr
BY DEF Mix, Ptr

\* memmove keeps a list of pointers one, if it reads inside the list.
LEMMA MemmoveType ==
  ASSUME NEW s \in Seq(Ptr), NEW dst \in Int, NEW src \in Int, NEW n \in Int,
         \A j \in 1 .. Len(s) :
           j >= dst /\ n - PtrSize * (j - dst) > 0 => j - dst + src \in 1 .. Len(s)
  PROVE  /\ memmove(s, dst, src, n) \in Seq(Ptr)
         /\ Len(memmove(s, dst, src, n)) = Len(s)
<1> DEFINE m == memmove(s, dst, src, n)
<1>1. m = [j \in 1 .. Len(s) |-> m[j]]
  BY DEF memmove
<1>2. \A j \in 1 .. Len(s) : m[j] \in Ptr
  <2> SUFFICES ASSUME NEW j \in 1 .. Len(s) PROVE m[j] \in Ptr
    OBVIOUS
  <2> DEFINE k == n - PtrSize * (j - dst)
  <2>1. k \in Int
    BY PtrSizeAssumption
  <2>2. CASE j >= dst /\ k > 0
    <3>1. m[j] = Mix(s[j], s[j - dst + src], k)
      BY <2>2 DEF memmove
    <3>2. s[j] \in Ptr /\ s[j - dst + src] \in Ptr
      BY <2>2
    <3> HIDE DEF m, k
    <3> QED  BY <2>1, <3>1, <3>2, MixType
  <2>3. CASE ~(j >= dst /\ k > 0)
    BY <2>3 DEF memmove
  <2> QED  BY <2>2, <2>3
<1> HIDE DEF m
<1>3. m \in Seq(Ptr) /\ Len(m) = Len(s)
  BY <1>1, <1>2
<1> QED  BY <1>3 DEF m

\* A removal gives a list of pointers with one slot less, if the slot exists.
LEMMA RemoveType ==
  ASSUME NEW s \in Seq(Ptr), NEW n \in Nat
  PROVE  /\ arlist_remove(s, n) \in Seq(Ptr)
         /\ Len(arlist_remove(s, n)) = IF n \in 1 .. Len(s) THEN Len(s) - 1 ELSE Len(s)
<1>1. CASE n \notin 1 .. Len(s)
  BY <1>1 DEF arlist_remove
<1>2. CASE n \in 1 .. Len(s) /\ n = Len(s)
  BY <1>2 DEF arlist_remove, arlist_pop, Front
<1>3. CASE n \in 1 .. Len(s) /\ n # Len(s)
  <2> DEFINE m == memmove(s, n, n + 1, Len(s) - n + 1)
  <2>1. \A j \in 1 .. Len(s) :
          j >= n /\ (Len(s) - n + 1) - PtrSize * (j - n) > 0 => j - n + (n + 1) \in 1 .. Len(s)
    <3> SUFFICES ASSUME NEW j \in 1 .. Len(s), j >= n, j = Len(s)
                 PROVE  (Len(s) - n + 1) - PtrSize * (j - n) <= 0
      BY PtrSizeAssumption
    <3> DEFINE r == Len(s) - n
    <3>1. r \in Nat /\ r >= 1
      BY <1>3
    <3>2. PtrSize * r >= 4 * r
      <4> HIDE DEF r
      <4> QED  BY <3>1, PtrSizeAssumption
    <3> QED  BY <3>1, <3>2, PtrSizeAssumption
  <2>2. m \in Seq(Ptr) /\ Len(m) = Len(s)
    BY <2>1, <1>3, MemmoveType
  <2>3. arlist_remove(s, n) = Front(m)
    BY <1>3 DEF arlist_remove
  <2> HIDE DEF m
  <2> QED  BY <1>3, <2>2, <2>3 DEF Front
<1> QED  BY <1>1, <1>2, <1>3

\* Making room for a new pointer gives a list of pointers with one slot more.
LEMMA InsertType ==
  ASSUME NEW s \in Seq(Ptr), NEW n \in 1 .. Len(s), NEW e \in Ptr
  PROVE  /\ InsertAtSlot(s, n, e) \in Seq(Ptr)
         /\ Len(InsertAtSlot(s, n, e)) = Len(s) + 1
<1> DEFINE m == memmove(s, n + 1, n, Len(s) - n)
<1>1. \A j \in 1 .. Len(s) : j >= n + 1 => j - (n + 1) + n \in 1 .. Len(s)
  OBVIOUS
<1>2. m \in Seq(Ptr) /\ Len(m) = Len(s)
  BY <1>1, MemmoveType
<1>3. InsertAtSlot(s, n, e) = [Append(m, s[Len(s)]) EXCEPT ![n] = e]
  BY DEF InsertAtSlot, arlist_push, Last
<1> HIDE DEF m
<1>4. Append(m, s[Len(s)]) \in Seq(Ptr) /\ Len(Append(m, s[Len(s)])) = Len(s) + 1
  BY <1>2
<1> QED  BY <1>3, <1>4

LEMMA FrontOf ==
  ASSUME NEW s \in Seq(Ptr), s # <<>>
  PROVE  /\ Front(s) \in Seq(Ptr)
         /\ Len(Front(s)) = Len(s) - 1
         /\ \A j \in 1 .. Len(s) - 1 : Front(s)[j] = s[j]
<1>1. PICK l \in Int : l = Len(s) - 1 /\ l >= 0
  OBVIOUS
<1>2. \A j \in 1 .. l : s[j] \in Ptr
  BY <1>1
<1> DEFINE f == SubSeq(s, 1, l)
<1>3. /\ f \in Seq(Ptr)
      /\ Len(f) = IF 1 <= l THEN l - 1 + 1 ELSE 0
      /\ \A j \in 1 .. l - 1 + 1 : f[j] = s[1 + j - 1]
  BY <1>2, SubSeqProperties
<1> HIDE DEF f
<1>4. Front(s) = f
  BY <1>1 DEF Front, f
<1>5. Len(f) = l
  <2>1. CASE l = 0  BY <2>1, <1>3
  <2>2. CASE l >= 1  BY <2>2, <1>3
  <2> QED  BY <1>1, <2>1, <2>2
<1>6. \A j \in 1 .. l : f[j] = s[j]
  BY <1>3
<1> QED  BY <1>1, <1>3, <1>4, <1>5, <1>6

-----------------------------------------------------------------------------
(* Pointers that differ in their two lowest bytes only.                     *)
SameRegion(s) ==
  \A j, k \in 1 .. Len(s) : \A b \in 2 .. PtrSize - 1 : s[j][b] = s[k][b]

LEMMA MixSameRegion ==
  ASSUME NEW p \in Ptr, NEW q \in Ptr, NEW k \in Int, k >= 2,
         \A b \in 2 .. PtrSize - 1 : p[b] = q[b]
  PROVE  Mix(p, q, k) = q
BY PtrSizeAssumption DEF Mix, Ptr

\* Removing the last or the last but one element does what its callers expect.
THEOREM RemoveExactNearTail ==
  ASSUME NEW s \in Seq(Ptr), SameRegion(s), NEW n \in 1 .. Len(s), n >= Len(s) - 1
  PROVE  arlist_remove(s, n) = RemoveAt(s, n)
<1>1. CASE n = Len(s)
  BY <1>1 DEF arlist_remove, arlist_pop, Front, RemoveAt
<1>2. CASE n = Len(s) - 1
  <2> DEFINE m == memmove(s, n, n + 1, Len(s) - n + 1)
  <2>1. Mix(s[n], s[n + 1], 2) = s[n + 1]
    BY <1>2, MixSameRegion DEF SameRegion
  <2>2. m[n] = s[n + 1]
    <3>1. PtrSize * (n - n) = 0 /\ Len(s) - n + 1 = 2
      BY <1>2, PtrSizeAssumption
    <3> QED  BY <2>1, <3>1 DEF memmove
  <2>3. \A j \in 1 .. n - 1 : m[j] = s[j]
    BY DEF memmove
  <2>4. m = [j \in 1 .. Len(s) |-> m[j]]
    BY DEF memmove
  <2>5. arlist_remove(s, n) = Front(m)
    BY <1>2 DEF arlist_remove
  <2> HIDE DEF m
  <2>6. /\ Front(m) \in Seq({m[j] : j \in 1 .. Len(s)})
        /\ Len(Front(m)) = n
        /\ \A j \in 1 .. n : Front(m)[j] = m[j]
    BY <1>2, <2>4 DEF Front
  <2>7. /\ RemoveAt(s, n) \in Seq(Ptr)
        /\ Len(RemoveAt(s, n)) = n
        /\ \A j \in 1 .. n : RemoveAt(s, n)[j] = IF j = n THEN s[n + 1] ELSE s[j]
    BY <1>2 DEF RemoveAt
  <2>8. ASSUME NEW j \in 1 .. n
        PROVE  Front(m)[j] = RemoveAt(s, n)[j]
    <3>1. CASE j = n
      BY <3>1, <2>2, <2>6, <2>7
    <3>2. CASE j # n
      <4>1. j \in 1 .. n - 1
        BY <3>2
      <4> QED  BY <4>1, <3>2, <2>3, <2>6, <2>7
    <3> QED  BY <3>1, <3>2
  <2> QED  BY <2>5, <2>6, <2>7, <2>8
<1> QED  BY <1>1, <1>2

\* Removing any other element of a list short enough for the bytes moved to stay in
\* one slot copies its successor over it, moves nothing else, and drops the last
\* element: the successor is in the list twice and the last element not at all.
THEOREM RemoveDropsTail ==
  ASSUME NEW s \in Seq(Ptr), SameRegion(s), NEW n \in 1 .. Len(s), n <= Len(s) - 2,
         Len(s) - n < PtrSize
  PROVE  arlist_remove(s, n) = [Front(s) EXCEPT ![n] = s[n + 1]]
<1> DEFINE m == memmove(s, n, n + 1, Len(s) - n + 1)
<1>1. Mix(s[n], s[n + 1], Len(s) - n + 1) = s[n + 1]
  <2>1. s[n] \in Ptr /\ s[n + 1] \in Ptr /\ Len(s) - n + 1 \in Int /\ Len(s) - n + 1 >= 2
    OBVIOUS
  <2>2. \A b \in 2 .. PtrSize - 1 : s[n][b] = s[n + 1][b]
    BY DEF SameRegion
  <2> QED  BY <2>1, <2>2, MixSameRegion
<1>2. m[n] = s[n + 1]
  <2>1. PtrSize * (n - n) = 0
    BY PtrSizeAssumption
  <2> QED  BY <1>1, <2>1 DEF memmove
<1>3. \A j \in 1 .. Len(s) : j # n => m[j] = s[j]
  <2> SUFFICES ASSUME NEW j \in 1 .. Len(s), j # n PROVE m[j] = s[j]
    OBVIOUS
  <2>1. CASE j < n
    BY <2>1 DEF memmove
  <2>2. CASE j > n
    <3> DEFINE r == j - n
    <3>1. r \in Nat /\ r >= 1
      BY <2>2
    <3>2. PtrSize * r >= PtrSize
      <4> HIDE DEF r
      <4> QED  BY <3>1, PtrSizeAssumption
    <3> DEFINE k == (Len(s) - n + 1) - PtrSize * (j - n)
    <3>3. ~(k > 0)
      BY <3>2, PtrSizeAssumption
    <3>4. m[j] = IF j >= n /\ k > 0 THEN Mix(s[j], s[j - n + (n + 1)], k) ELSE s[j]
      BY DEF memmove
    <3> HIDE DEF k, m
    <3> QED  BY <3>3, <3>4
  <2> QED  BY <2>1, <2>2
<1>4. m = [j \in 1 .. Len(s) |-> m[j]]
  BY DEF memmove
<1>5. arlist_remove(s, n) = Front(m)
  BY DEF arlist_remove
<1> HIDE DEF m
<1>6. m = [s EXCEPT ![n] = s[n + 1]]
  BY <1>2, <1>3, <1>4
<1>7. m \in Seq(Ptr) /\ Len(m) = Len(s) /\ m # <<>> /\ s # <<>>
  BY <1>6
<1>8. /\ Front(m) \in Seq(Ptr)
      /\ Len(Front(m)) = Len(s) - 1
      /\ \A j \in 1 .. Len(s) - 1 : Front(m)[j] = IF j = n THEN s[n + 1] ELSE s[j]
  BY <1>2, <1>3, <1>7, FrontOf
<1> DEFINE w == [Front(s) EXCEPT ![n] = s[n + 1]]
<1>9. /\ w \in Seq(Ptr)
      /\ Len(w) = Len(s) - 1
      /\ \A j \in 1 .. Len(s) - 1 : w[j] = IF j = n THEN s[n + 1] ELSE s[j]
  <2>1. /\ Front(s) \in Seq(Ptr) /\ Len(Front(s)) = Len(s) - 1
        /\ \A j \in 1 .. Len(s) - 1 : Front(s)[j] = s[j]
    BY <1>7, FrontOf
  <2>2. s[n + 1] \in Ptr /\ n \in 1 .. Len(Front(s))
    BY <2>1
  <2> QED  BY <2>1, <2>2
<1> HIDE DEF w
<1>10. Front(m) = w
  BY <1>8, <1>9, SeqEqual
<1> QED  BY <1>5, <1>10 DEF w

\* Inserting before the last element is exact: no byte is moved, and the last element
\* is pushed one slot up.
THEOREM InsertExactBeforeLast ==
  ASSUME NEW s \in Seq(Ptr), s # <<>>, NEW e \in Ptr
  PROVE  LET x == InsertAtSlot(s, Len(s), e)
         IN  /\ Len(x) = Len(s) + 1
             /\ \A j \in 1 .. Len(s) - 1 : x[j] = s[j]
             /\ x[Len(s)] = e
             /\ x[Len(s) + 1] = s[Len(s)]
<1> DEFINE n == Len(s)
           m == memmove(s, n + 1, n, 0)
<1>1. m = s
  BY DEF memmove
<1>2. InsertAtSlot(s, n, e) = [Append(m, s[n]) EXCEPT ![n] = e]
  BY DEF InsertAtSlot, arlist_push, Last
<1> HIDE DEF m
<1>3. s[n] \in Ptr /\ n \in 1 .. Len(s)
  OBVIOUS
<1> DEFINE z == Append(m, s[n])
<1>4. z \in Seq(Ptr) /\ Len(z) = n + 1 /\ (\A j \in 1 .. n : z[j] = s[j]) /\ z[n + 1] = s[n]
  BY <1>1, <1>3
<1>5. InsertAtSlot(s, Len(s), e) = [z EXCEPT ![n] = e]
  BY <1>2
<1> HIDE DEF z
<1> QED  BY <1>3, <1>4, <1>5
=============================================================================
