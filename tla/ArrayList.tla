------------------------------ MODULE ArrayList ------------------------------
(***************************************************************************)
(* The growable array of pointers of src/common/arraylist.c, as operators  *)
(* on the sequence of its used slots (elements[0 .. size-1]).  Slots are   *)
(* numbered from 1 here and from 0 in the code.  What lies beyond size is  *)
(* never read by any caller, so it is not part of the value; the capacity  *)
(* is the concern of ArrayListBuffer.                                      *)
(*                                                                         *)
(* A slot holds a pointer, and a pointer is its bytes, because the code    *)
(* passes memmove a number of SLOTS where memmove takes a number of BYTES: *)
(* which bytes of which slots move decides what the table holds after an   *)
(* insertion or a removal.                                                 *)
(***************************************************************************)
EXTENDS Integers, Sequences, SequencesExt

CONSTANTS
  PtrSize,   \* sizeof(void * ) on the machine the program is built for
  Byte       \* the values a byte of a pointer can take

ASSUME PtrSizeAssumption == PtrSize \in Nat /\ PtrSize > 3

\* A pointer, least significant byte first (the program runs on little-endian
\* machines: packet_reception.h builds its TYPE constants on that).
Ptr == [0 .. PtrSize - 1 -> Byte]

\* Pointer p after its k least significant bytes were overwritten with those of q.
Mix(p, q, k) == [b \in 0 .. PtrSize - 1 |-> IF b < k THEN q[b] ELSE p[b]]

\* The C library's memmove(slots + dst, slots + src, nbytes) with src and dst
\* slot numbers of the same array: a slot gets the bytes that reach it.
memmove(s, dst, src, nbytes) ==
  [j \in DOMAIN s |->
     LET k == nbytes - PtrSize * (j - dst)
     IN  IF j >= dst /\ k > 0 THEN Mix(s[j], s[j - dst + src], k) ELSE s[j]]

arlist_push(s, e) == Append(s, e)

arlist_pop(s) == Front(s)

\* arlist_set: out of range, it pushes.
arlist_set(s, n, e) == IF n \in DOMAIN s THEN [s EXCEPT ![n] = e] ELSE arlist_push(s, e)

-----------------------------------------------------------------------------
\* arlist_add(l, cmp, e) where cmp compares the numbers key gives to pointers.
\* It pushes behind a smaller tail; otherwise it stops at the first element that
\* is not smaller than e: an equal one refuses e, a greater one makes room for e,
\* with a memmove of (size - i - 1) BYTES and a push of the old tail.
InsertAtSlot(s, i, e) ==
  [arlist_push(memmove(s, i + 1, i, Len(s) - i), Last(s)) EXCEPT ![i] = e]

NotBelow(s, key, e) == SelectInSeq(s, LAMBDA p : key[p] >= key[e])

Accepts(s, key, e) ==
  \/ s = <<>>
  \/ key[Last(s)] < key[e]
  \/ /\ NotBelow(s, key, e) # 0
     /\ key[s[NotBelow(s, key, e)]] > key[e]

\* Mutant: no search for the place of e.
arlist_add_at_end(s, key, e) ==
  IF ~Accepts(s, key, e) THEN s ELSE arlist_push(s, e)

arlist_add(s, key, e) ==
  IF ~Accepts(s, key, e) THEN s
  ELSE IF s = <<>> \/ key[Last(s)] < key[e] THEN arlist_push(s, e)
  ELSE InsertAtSlot(s, NotBelow(s, key, e), e)

\* Mutants: the memmove is missing; the last slot is cleared and size kept.
arlist_remove_no_move(s, n) == IF n \in DOMAIN s THEN Front(s) ELSE s
arlist_remove_no_decrement(s, n) ==
  IF n \notin DOMAIN s THEN s ELSE [s EXCEPT ![Len(s)] = [b \in 0 .. PtrSize - 1 |-> 0]]

\* arlist_remove(l, n): the last slot is popped; in the middle, memmove moves
\* (size - n) BYTES down by one slot, and size is decremented.
arlist_remove(s, n) ==
  IF n \notin DOMAIN s THEN s
  ELSE IF n = Len(s) THEN arlist_pop(s)
  ELSE Front(memmove(s, n, n + 1, Len(s) - n + 1))

=============================================================================
