--------------------------- MODULE ArrayListBuffer ---------------------------
(***************************************************************************)
(* One arlist in use: its used slots and the capacity of the block they    *)
(* live in, under pushes, pops, sorted insertions and removals in any      *)
(* order.  Allocation is taken to succeed.  Two history variables say what *)
(* the callers believe: peak is the largest size the list ever had (3 for  *)
(* every size from 3 on) and, while peak is below 3, shadow is the list    *)
(* they would have if insertion and removal moved whole slots.             *)
(***************************************************************************)
EXTENDS ArrayList

CONSTANTS
  MIN_ARLIST,   \* the capacity an arlist starts with and never shrinks below
  Key,          \* the number the cmp function compares, for each stored pointer
  MaxLen        \* bound of the model on the length of the list

Elem == DOMAIN Key

ASSUME BufferAssumption ==
  /\ MIN_ARLIST \in Nat \ {0}
  /\ MaxLen \in Nat
  /\ Elem \subseteq Ptr
  /\ Key \in [Elem -> Nat]

\* The stored pointers come from one allocation arena whose addresses differ in
\* their two lowest bytes only.
ASSUME ElemSameRegion == \A p, q \in Elem : \A b \in 2 .. PtrSize - 1 : p[b] = q[b]

VARIABLES slots, capacity, shadow, peak

vars == <<slots, capacity, shadow, peak>>

\* arlist_create
Init ==
  /\ slots = <<>>
  /\ capacity = MIN_ARLIST
  /\ shadow = <<>>
  /\ peak = 0

\* Mutant: a full block is not yet grown.
GrownLate == IF Len(slots) > capacity THEN 2 * capacity ELSE capacity

\* arlist_push doubles a full block before it stores, arlist_pop halves a block
\* used to a third or less before it takes the last element.
Grown == IF Len(slots) = capacity THEN 2 * capacity ELSE capacity

\* Mutant: the halving happens from half use on.
ShrunkEarly == IF 2 * Len(slots) <= capacity /\ capacity > MIN_ARLIST
               THEN capacity \div 2
               ELSE capacity

Shrunk == IF 3 * Len(slots) <= capacity /\ capacity > MIN_ARLIST
          THEN capacity \div 2
          ELSE capacity

\* The history variables after a step that would leave the believed list at s.
Believed(s) ==
  /\ peak' = Max({peak, Min({3, Len(slots')})})
  /\ shadow' = IF peak' < 3 THEN s ELSE <<>>

Push(e) ==
  /\ Len(slots) < MaxLen
  /\ slots' = arlist_push(slots, e)
  /\ capacity' = Grown
  /\ Believed(Append(shadow, e))

Pop ==
  /\ slots # <<>>
  /\ slots' = arlist_pop(slots)
  /\ capacity' = Shrunk
  /\ Believed(SubSeq(shadow, 1, Len(slots')))

\* Where a sorted list that refuses equal keys would put e.
SortedInsert(s, e) ==
  IF \E p \in Range(s) : Key[p] = Key[e] THEN s
  ELSE LET n == NotBelow(s, Key, e)
       IN  IF n = 0 THEN Append(s, e) ELSE InsertAt(s, n, e)

Add(e) ==
  /\ Len(slots) < MaxLen
  /\ slots' = arlist_add(slots, Key, e)
  /\ capacity' = IF Accepts(slots, Key, e) THEN Grown ELSE capacity
  /\ Believed(SortedInsert(shadow, e))

RemoveSlot(n) ==
  /\ slots' = arlist_remove(slots, n)
  /\ capacity' = IF n = Len(slots) THEN Shrunk ELSE capacity
  /\ Believed(RemoveAt(shadow, n))

\* arlist_set beyond the end is a push.
Set(n, e) ==
  /\ n \in DOMAIN slots
  /\ slots' = arlist_set(slots, n, e)
  /\ Believed([shadow EXCEPT ![n] = e])
  /\ UNCHANGED capacity

\* Every list of the program is either a stack or an array kept in order.
Stacked == Pop \/ \E e \in Elem : Push(e) \/ \E n \in DOMAIN slots : Set(n, e)
Ordered == \/ \E e \in Elem : Add(e)
           \/ \E n \in DOMAIN slots : RemoveSlot(n)

Next == Stacked \/ Ordered

Spec == Init /\ [][Next]_vars
-----------------------------------------------------------------------------
\* A block is never empty.  The slots hold pointers that were stored; once there have
\* been three of them, memmove may have mixed the bytes of two.
TypeOK ==
  /\ slots \in Seq(Ptr)
  /\ peak < 3 => slots \in Seq(Elem)
  /\ capacity \in Nat \ {0}
  /\ shadow \in Seq(Elem)
  /\ peak \in 0 .. 3

\* arlist_push stores at elements[size] after growing only a block that is exactly
\* full: that is in bounds because no mix of operations brings size past capacity.
SizeFitsBlock == Len(slots) <= capacity

\* arlist_pop halves a block while elements are in it: the halved block still
\* holds them, with a third of it free, so that the next push does not double it
\* back (growing and shrinking do not alternate at the boundary).
HalvingLeavesRoom ==
  [][capacity' < capacity => 3 * Len(slots') <= 2 * capacity']_vars

\* arlist_add and arlist_remove pass memmove a number of elements for a number of
\* bytes.  A list that never held three elements is nevertheless the list its
\* callers believe in; from the third element on it need not be.
ExactBelowThree == peak < 3 => slots = shadow

=============================================================================
