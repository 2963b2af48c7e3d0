------------------------- MODULE ArrayListBufferProofs -------------------------
(***************************************************************************)
(* Theorems about one arlist in use, for elements of any keys, lists and   *)
(* blocks of any length.  What cmp finds at an address that was mixed from *)
(* two may be anything: Key of a pointer that was never stored is          *)
(* unspecified, and no step below looks at it.                             *)
(***************************************************************************)
EXTENDS ArrayListBuffer, ArrayListProofs

\* Below three elements the slots are the believed list, which peak bounds.
ExactInv == peak < 3 => slots = shadow /\ Len(slots) <= peak

\* The inductive invariant.
Inv == TypeOK /\ SizeFitsBlock /\ ExactInv

-----------------------------------------------------------------------------
\* Where a scan stops: at the first slot with the property, if there is one.
LEMMA NotBelowSlot ==
  ASSUME NEW s \in Seq(Ptr), NEW e
  PROVE  \/ /\ NotBelow(s, Key, e) = 0
            /\ \A k \in 1 .. Len(s) : ~(Key[s[k]] >= Key[e])
         \/ /\ NotBelow(s, Key, e) \in 1 .. Len(s)
            /\ Key[s[NotBelow(s, Key, e)]] >= Key[e]
            /\ \A k \in 1 .. Len(s) : Key[s[k]] >= Key[e] => NotBelow(s, Key, e) <= k
<1> DEFINE S == {k \in 1 .. Len(s) : Key[s[k]] >= Key[e]}
<1>1. NotBelow(s, Key, e) = IF S # {} THEN Min(S) ELSE 0
  BY DEF NotBelow, SelectInSeq
<1>2. CASE S = {}
  BY <1>1, <1>2
<1>3. CASE S # {}
  <2>1. Min(S) \in S /\ \A k \in S : Min(S) <= k
    <3>1. S \in SUBSET Nat  OBVIOUS
    <3> HIDE DEF S
    <3> QED  BY <3>1, <1>3, MinOfNat
  <2> QED  BY <1>1, <1>3, <2>1
<1> QED  BY <1>2, <1>3

\* arlist_add takes one slot more, or none, whatever it compares.
LEMMA AddType ==
  ASSUME NEW s \in Seq(Ptr), NEW e \in Ptr
  PROVE  /\ arlist_add(s, Key, e) \in Seq(Ptr)
         /\ Len(arlist_add(s, Key, e)) = IF Accepts(s, Key, e) THEN Len(s) + 1 ELSE Len(s)
<1>1. CASE ~Accepts(s, Key, e)
  BY <1>1 DEF arlist_add
<1>2. CASE Accepts(s, Key, e) /\ (s = <<>> \/ Key[Last(s)] < Key[e])
  BY <1>2 DEF arlist_add, arlist_push
<1>3. CASE Accepts(s, Key, e) /\ ~(s = <<>> \/ Key[Last(s)] < Key[e])
  <2>1. NotBelow(s, Key, e) \in 1 .. Len(s)
    BY <1>3, NotBelowSlot DEF Accepts
  <2>2. arlist_add(s, Key, e) = InsertAtSlot(s, NotBelow(s, Key, e), e)
    BY <1>3 DEF arlist_add
  <2> QED  BY <1>3, <2>1, <2>2, InsertType
<1> QED  BY <1>1, <1>2, <1>3

-----------------------------------------------------------------------------
\* What a step makes of peak: with a list of three it is 3, and stays so.
LEMMA PeakAfter ==
  ASSUME peak \in 0 .. 3, Len(slots') \in Nat, NEW s, Believed(s)
  PROVE  /\ peak' \in 0 .. 3
         /\ peak' < 3 => peak < 3 /\ Len(slots') <= peak' /\ Len(slots') < 3 /\ shadow' = s
         /\ peak' = 3 => shadow' = <<>>
<1> DEFINE m == Min({3, Len(slots')})
<1>1. m = IF Len(slots') < 3 THEN Len(slots') ELSE 3
  BY DEF Min
<1>2. m \in 0 .. 3
  BY <1>1
<1>3. peak' = Max({peak, m})
  BY DEF Believed
<1> HIDE DEF m
<1>4. Max({peak, m}) = IF peak < m THEN m ELSE peak
  BY <1>2 DEF Max
<1> QED  BY <1>1, <1>2, <1>3, <1>4 DEF Believed

\* A step keeps the invariant if its slots fit, and if they are the believed list
\* whenever that list and the new one are below three.
LEMMA StepKeeps ==
  ASSUME Inv, NEW s, Believed(s),
         slots' \in Seq(Ptr), capacity' \in Nat \ {0}, Len(slots') <= capacity',
         peak < 3 /\ Len(slots') < 3 => slots' = s /\ s \in Seq(Elem)
  PROVE  Inv'
<1>1. Len(slots') \in Nat /\ peak \in 0 .. 3
  BY DEF Inv, TypeOK
<1>2. /\ peak' \in 0 .. 3
      /\ peak' < 3 => peak < 3 /\ Len(slots') <= peak' /\ Len(slots') < 3 /\ shadow' = s
      /\ peak' = 3 => shadow' = <<>>
  BY <1>1, PeakAfter
<1>3. CASE peak' < 3
  <2>1. slots' = s /\ shadow' = s /\ s \in Seq(Elem)
    BY <1>2, <1>3
  <2> QED  BY <1>2, <2>1 DEF Inv, TypeOK, SizeFitsBlock, ExactInv
<1>4. CASE peak' = 3
  BY <1>2, <1>4 DEF Inv, TypeOK, SizeFitsBlock, ExactInv
<1> QED  BY <1>2, <1>3, <1>4

LEMMA ElemIsPtr == \A e \in Elem : e \in Ptr
BY BufferAssumption

\* A full block is doubled before a push.
LEMMA GrownFits ==
  ASSUME Inv
  PROVE  Grown \in Nat \ {0} /\ Len(slots) + 1 <= Grown
<1>1. Len(slots) \in Nat /\ capacity \in Nat \ {0} /\ Len(slots) <= capacity
  BY DEF Inv, TypeOK, SizeFitsBlock
<1> QED  BY <1>1 DEF Grown

\* A block that is halved holds what is left with room to spare.
LEMMA ShrunkFits ==
  ASSUME Inv, Len(slots) > 0
  PROVE  /\ Shrunk \in Nat \ {0}
         /\ Len(slots) - 1 <= Shrunk
         /\ Shrunk < capacity => 3 * (Len(slots) - 1) <= 2 * Shrunk
<1>1. Len(slots) \in Nat /\ capacity \in Nat \ {0} /\ Len(slots) <= capacity
  BY DEF Inv, TypeOK, SizeFitsBlock
<1>2. MIN_ARLIST \in Nat \ {0}
  BY BufferAssumption
<1> QED  BY <1>1, <1>2 DEF Shrunk

-----------------------------------------------------------------------------
\* One lemma per action.
LEMMA PushKeeps ==
  ASSUME Inv, NEW e \in Elem, Push(e)
  PROVE  Inv'
<1>1. slots \in Seq(Ptr) /\ e \in Ptr
  BY ElemIsPtr DEF Inv, TypeOK
<1>2. slots' \in Seq(Ptr) /\ Len(slots') = Len(slots) + 1
  BY <1>1 DEF Push, arlist_push
<1>3. capacity' \in Nat \ {0} /\ Len(slots') <= capacity'
  BY <1>2, GrownFits DEF Push
<1>4. peak < 3 => slots' = Append(shadow, e) /\ Append(shadow, e) \in Seq(Elem)
  BY DEF Push, arlist_push, Inv, TypeOK, ExactInv
<1> QED  BY <1>2, <1>3, <1>4, StepKeeps DEF Push

LEMMA PopKeeps ==
  ASSUME Inv, Pop
  PROVE  Inv'
<1>1. slots \in Seq(Ptr) /\ slots # <<>> /\ Len(slots) > 0
  BY DEF Inv, TypeOK, Pop
<1>2. slots' \in Seq(Ptr) /\ Len(slots') = Len(slots) - 1
  BY <1>1, FrontOf DEF Pop, arlist_pop
<1>3. capacity' \in Nat \ {0} /\ Len(slots') <= capacity'
  BY <1>1, <1>2, ShrunkFits DEF Pop
<1>4. SubSeq(slots, 1, Len(slots')) = slots'
  BY <1>2 DEF Pop, arlist_pop, Front
<1>5. peak < 3 => SubSeq(shadow, 1, Len(slots')) = slots' /\ slots' \in Seq(Elem)
  <2> SUFFICES ASSUME peak < 3 PROVE slots' \in Seq(Elem) /\ shadow = slots
    BY <1>4
  <2>1. slots \in Seq(Elem) /\ shadow = slots
    BY DEF Inv, TypeOK, ExactInv
  <2>2. \A k \in 1 .. Len(slots) - 1 : slots[k] \in Elem
    BY <2>1
  <2>3. SubSeq(slots, 1, Len(slots) - 1) \in Seq(Elem)
    BY <1>1, <2>2, SubSeqProperties
  <2> QED  BY <2>1, <2>3, <1>2, <1>4
<1> QED  BY <1>2, <1>3, <1>5, StepKeeps DEF Pop

LEMMA SetKeeps ==
  ASSUME Inv, NEW n \in DOMAIN slots, NEW e \in Elem, Set(n, e)
  PROVE  Inv'
<1>1. slots \in Seq(Ptr) /\ e \in Ptr /\ n \in 1 .. Len(slots)
  BY ElemIsPtr DEF Inv, TypeOK
<1>2. slots' = [slots EXCEPT ![n] = e]
  BY DEF Set, arlist_set
<1>3. slots' \in Seq(Ptr) /\ Len(slots') = Len(slots)
  BY <1>1, <1>2, ExceptSeq
<1>4. capacity' \in Nat \ {0} /\ Len(slots') <= capacity'
  BY <1>3 DEF Set, Inv, TypeOK, SizeFitsBlock
<1>5. peak < 3 => slots' = [shadow EXCEPT ![n] = e] /\ slots' \in Seq(Elem)
  <2> SUFFICES ASSUME peak < 3 PROVE shadow = slots /\ slots' \in Seq(Elem)
    BY <1>2
  <2>1. slots \in Seq(Elem) /\ shadow = slots
    BY DEF Inv, TypeOK, ExactInv
  <2>2. slots' \in Seq(Elem)
    BY <1>1, <1>2, <2>1, ExceptSeq
  <2> QED  BY <2>1, <2>2
<1> QED  BY <1>3, <1>4, <1>5, StepKeeps DEF Set

\* An element is refused for an equal key only, and one or no element before it is
\* inserted where it belongs.
LEMMA AddExact ==
  ASSUME NEW s \in Seq(Elem), NEW e \in Elem, Len(arlist_add(s, Key, e)) < 3
  PROVE  /\ arlist_add(s, Key, e) = SortedInsert(s, e)
         /\ SortedInsert(s, e) \in Seq(Elem)
<1> DEFINE n == NotBelow(s, Key, e)
<1>1. s \in Seq(Ptr) /\ e \in Ptr
  BY ElemIsPtr, SeqMonotonic, BufferAssumption
<1>2. Key[e] \in Nat /\ \A k \in 1 .. Len(s) : s[k] \in Elem /\ Key[s[k]] \in Nat
  BY BufferAssumption
<1>3. Range(s) = {s[k] : k \in 1 .. Len(s)}
  BY DEF Range
<1>4. \/ n = 0 /\ \A k \in 1 .. Len(s) : ~(Key[s[k]] >= Key[e])
      \/ /\ n \in 1 .. Len(s) /\ Key[s[n]] >= Key[e]
         /\ \A k \in 1 .. Len(s) : Key[s[k]] >= Key[e] => n <= k
  BY <1>1, NotBelowSlot
<1> HIDE DEF n
<1>5. CASE ~Accepts(s, Key, e)
  <2>1. s # <<>> /\ Len(s) \in 1 .. Len(s) /\ ~(Key[s[Len(s)]] < Key[e])
    BY <1>1, <1>5 DEF Accepts, Last
  <2>2. n \in 1 .. Len(s) /\ Key[s[n]] = Key[e]
    BY <1>2, <1>4, <1>5, <2>1 DEF Accepts, n
  <2> QED  BY <1>3, <1>5, <2>2 DEF arlist_add, SortedInsert
<1>6. CASE Accepts(s, Key, e)
  <2>0. Len(s) \in Nat /\ Len(<<>>) = 0 /\ (s # <<>> => Len(s) # 0)
    <3>1. s # <<>> => Len(s) \in Nat \ {0}
      BY EmptySeq
    <3> QED  BY <3>1
  <2>1. Len(s) < 2
    BY <1>1, <1>6, AddType
  <2>2. CASE s = <<>>
    <3>1. n = 0 /\ Range(s) = {}
      BY <2>2, <1>3, <1>4
    <3> QED  BY <2>2, <3>1, <1>6 DEF arlist_add, arlist_push, SortedInsert, n
  <2>3. CASE Len(s) = 1 /\ Key[s[1]] < Key[e]
    <3>1. n = 0 /\ Range(s) = {s[1]}
      BY <2>3, <1>2, <1>3, <1>4
    <3>2. SortedInsert(s, e) = Append(s, e)
      BY <3>1, <2>3, <1>2 DEF SortedInsert, n
    <3> QED  BY <2>3, <3>2, <1>6 DEF arlist_add, arlist_push, Last
  <2>4. CASE Len(s) = 1 /\ ~(Key[s[1]] < Key[e])
    <3> DEFINE x == InsertAtSlot(s, 1, e)
    <3>0. s # <<>> /\ Last(s) = s[1] /\ Len(s) = 1 /\ 1 \in 1 .. Len(s)
      <4>1. 1 # 0 /\ 1 \in 1 .. 1  OBVIOUS
      <4> QED  BY <2>0, <2>4, <4>1, Zenon DEF Last
    <3>1. n = 1
      BY <2>4, <1>2, <1>4
    <3>2. Key[s[1]] > Key[e]
      BY <2>4, <3>0, <3>1, <1>6 DEF Accepts, n
    <3>3. SortedInsert(s, e) = InsertAt(s, 1, e)
      <4>1. Range(s) = {s[1]}
        BY <1>3, <2>4
      <4> QED  BY <3>1, <3>2, <4>1, <1>2 DEF SortedInsert, n
    <3>4. arlist_add(s, Key, e) = InsertAtSlot(s, 1, e)
      BY <3>0, <3>1, <2>4, <1>6 DEF arlist_add, n
    <3>5. x \in Seq(Ptr) /\ Len(x) = 2
      <4>1. s \in Seq(Ptr) /\ 1 \in 1 .. Len(s) /\ e \in Ptr
        BY <1>1, <3>0
      <4>2. x \in Seq(Ptr) /\ Len(x) = Len(s) + 1
        BY <4>1, InsertType
      <4> HIDE DEF x
      <4> QED  BY <4>2, <3>0
    <3>6. x[1] = e /\ x[2] = s[1]
      BY <1>1, <3>0, InsertExactBeforeLast
    <3>7. InsertAt(s, 1, e) = <<e, s[1]>>
      <4>1. SubSeq(s, 1, 1 - 1) = <<>>
        BY SubSeqEmpty
      <4>2. SubSeq(s, 1, Len(s)) = s /\ s = <<s[1]>>
        BY <3>0, SubSeqFull
      <4>3. InsertAt(s, 1, e) = <<>> \o <<e>> \o <<s[1]>>
        BY <4>1, <4>2 DEF InsertAt
      <4> QED  BY <4>3
    <3> HIDE DEF x
    <3>8. x = <<e, s[1]>>
      BY <3>5, <3>6
    <3> QED  BY <1>2, <3>0, <3>3, <3>4, <3>7, <3>8 DEF x
  <2>5. Len(s) \in Nat /\ (s = <<>> \/ Len(s) = 1)
    <3>1. \A l \in Nat : l < 2 => l = 0 \/ l = 1  OBVIOUS
    <3> QED  BY <2>0, <2>1, <3>1, Zenon
  <2> QED  BY <2>2, <2>3, <2>4, <2>5
<1> QED  BY <1>5, <1>6

LEMMA AddKeeps ==
  ASSUME Inv, NEW e \in Elem, Add(e)
  PROVE  Inv'
<1>1. slots \in Seq(Ptr) /\ e \in Ptr /\ slots' = arlist_add(slots, Key, e)
  BY ElemIsPtr DEF Inv, TypeOK, Add
<1>2. /\ slots' \in Seq(Ptr)
      /\ Len(slots') = IF Accepts(slots, Key, e) THEN Len(slots) + 1 ELSE Len(slots)
  BY <1>1, AddType
<1>3. capacity' \in Nat \ {0} /\ Len(slots') <= capacity'
  BY <1>2, GrownFits DEF Add, Inv, TypeOK, SizeFitsBlock
<1>4. ASSUME peak < 3, Len(slots') < 3
      PROVE  slots' = SortedInsert(shadow, e) /\ SortedInsert(shadow, e) \in Seq(Elem)
  <2>1. slots \in Seq(Elem) /\ shadow = slots
    BY <1>4 DEF Inv, TypeOK, ExactInv
  <2> QED  BY <1>1, <1>4, <2>1, AddExact
<1> QED  BY <1>2, <1>3, <1>4, StepKeeps DEF Add

LEMMA RemoveKeeps ==
  ASSUME Inv, NEW n \in DOMAIN slots, RemoveSlot(n)
  PROVE  Inv'
<1>1. slots \in Seq(Ptr) /\ n \in 1 .. Len(slots) /\ slots' = arlist_remove(slots, n)
  BY DEF Inv, TypeOK, RemoveSlot
<1>2. slots' \in Seq(Ptr) /\ Len(slots') = Len(slots) - 1
  BY <1>1, RemoveType
<1>3. capacity' \in Nat \ {0} /\ Len(slots') <= capacity'
  BY <1>1, <1>2, ShrunkFits DEF RemoveSlot, Inv, TypeOK, SizeFitsBlock
<1>4. ASSUME peak < 3
      PROVE  slots' = RemoveAt(shadow, n) /\ RemoveAt(shadow, n) \in Seq(Elem)
  <2>1. slots \in Seq(Elem) /\ shadow = slots /\ Len(slots) < 3
    BY <1>4 DEF Inv, TypeOK, ExactInv
  <2>2. SameRegion(slots)
    BY <2>1, ElemSameRegion DEF SameRegion
  <2>3. slots' = RemoveAt(slots, n)
    BY <1>1, <2>1, <2>2, RemoveExactNearTail
  <2>4. SubSeq(slots, 1, n - 1) \in Seq(Elem) /\ SubSeq(slots, n + 1, Len(slots)) \in Seq(Elem)
    BY <1>1, <2>1, SubSeqProperties
  <2> QED  BY <2>1, <2>3, <2>4 DEF RemoveAt
<1> QED  BY <1>2, <1>3, <1>4, StepKeeps DEF RemoveSlot

-----------------------------------------------------------------------------
LEMMA InitInv == Init => Inv
BY BufferAssumption DEF Init, Inv, TypeOK, SizeFitsBlock, ExactInv

LEMMA NextInv == Inv /\ [Next]_vars => Inv'
<1> SUFFICES ASSUME Inv, [Next]_vars PROVE Inv'
  OBVIOUS
<1>1. CASE Pop
  BY <1>1, PopKeeps
<1>2. ASSUME NEW e \in Elem, Push(e) PROVE Inv'
  BY <1>2, PushKeeps
<1>3. ASSUME NEW e \in Elem, NEW n \in DOMAIN slots, Set(n, e) PROVE Inv'
  BY <1>3, SetKeeps
<1>4. ASSUME NEW e \in Elem, Add(e) PROVE Inv'
  BY <1>4, AddKeeps
<1>5. ASSUME NEW n \in DOMAIN slots, RemoveSlot(n) PROVE Inv'
  BY <1>5, RemoveKeeps
<1>6. CASE UNCHANGED vars
  BY <1>6 DEF vars, Inv, TypeOK, SizeFitsBlock, ExactInv
<1> QED  BY <1>1, <1>2, <1>3, <1>4, <1>5, <1>6 DEF Next, Stacked, Ordered

LEMMA Invariant == Spec => []Inv
BY InitInv, NextInv, PTL DEF Spec

\* The slots of an arlist hold pointers and its block is never empty; as long as it has
\* not held three elements, every slot holds a pointer that was stored.
THEOREM BufferTypeCorrect == Spec => []TypeOK
<1>1. Inv => TypeOK
  BY DEF Inv
<1> QED  BY <1>1, Invariant, PTL

\* No mix of pushes, pops, insertions, removals and sets makes an arlist larger than its
\* block, so the store of arlist_push at elements[size] is in bounds.
THEOREM SizeFits == Spec => []SizeFitsBlock
<1>1. Inv => SizeFitsBlock
  BY DEF Inv
<1> QED  BY <1>1, Invariant, PTL

\* A list that never held three elements is the list its callers believe in, whichever
\* keys they have, wherever in their region they lie and in whatever order they come.
THEOREM ExactUntilThree == Spec => []ExactBelowThree
<1>1. Inv => ExactBelowThree
  BY DEF Inv, ExactInv, ExactBelowThree
<1> QED  BY <1>1, Invariant, PTL

\* A block that shrinks keeps a third of itself free: growing and shrinking do not
\* alternate.
THEOREM HalvingIsSafe == Spec => HalvingLeavesRoom
<1>1. ASSUME Inv, [Next]_vars
      PROVE  [capacity' < capacity => 3 * Len(slots') <= 2 * capacity']_vars
  <2>1. /\ slots \in Seq(Ptr) /\ capacity \in Nat \ {0}
        /\ Grown \in Nat /\ Grown >= capacity
    BY <1>1 DEF Inv, TypeOK, Grown
  <2>2. CASE Pop
    <3>1. Len(slots) > 0 /\ slots # <<>> /\ Len(slots') = Len(slots) - 1
      BY <2>1, <2>2, FrontOf DEF Pop, arlist_pop
    <3> QED  BY <1>1, <2>2, <3>1, ShrunkFits DEF Pop
  <2>3. ASSUME NEW e \in Elem, Push(e) \/ Add(e)
        PROVE  ~(capacity' < capacity)
    BY <2>1, <2>3 DEF Push, Add
  <2>4. ASSUME NEW e \in Elem, NEW n \in DOMAIN slots, Set(n, e)
        PROVE  ~(capacity' < capacity)
    BY <2>1, <2>4 DEF Set
  <2>5. ASSUME NEW n \in DOMAIN slots, RemoveSlot(n)
        PROVE  capacity' < capacity => 3 * Len(slots') <= 2 * capacity'
    <3>1. Len(slots) > 0 /\ Len(slots') = Len(slots) - 1
      BY <2>1, <2>5, RemoveType DEF RemoveSlot
    <3> QED  BY <1>1, <2>1, <2>5, <3>1, ShrunkFits DEF RemoveSlot
  <2>6. CASE UNCHANGED vars
    BY <2>6
  <2> QED  BY <1>1, <2>2, <2>3, <2>4, <2>5, <2>6 DEF Next, Stacked, Ordered
<1> QED  BY <1>1, Invariant, PTL DEF Spec, HalvingLeavesRoom
=============================================================================
