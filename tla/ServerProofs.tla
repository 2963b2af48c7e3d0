---------------------------- MODULE ServerProofs ----------------------------
(***************************************************************************)
(* Theorems about the server for any number of clients, ids and cells, and *)
(* any layout of the addresses; then about the server of two clients.      *)
(***************************************************************************)
EXTENDS FileRelay, ArrayListProofs

Cells == [Addr -> User \cup {Freed}]
Written == [to : Path, data : Packet]

\* A table of three: every slot can be read, and the number after the first user's
\* is taken, so that get_available_id offers it again.
Full(us, h) ==
  Len(us) = 3 =>
    /\ \A k \in 1 .. 3 : Live(h, us[k])
    /\ LET id(k) == h[us[k]].id
       IN  \/ id(2) = id(1) + 1 /\ id(3) > id(2)
           \/ id(2) <= id(1) /\ id(3) = id(1) + 1

CellsDistinct(h) ==
  \A a, b \in Addr :
    Live(h, a) /\ Live(h, b) /\ a # b =>
      h[a].id # h[b].id /\ h[a].nick # h[b].nick /\ h[a].path # h[b].path

\* The users that can be read stand in the order of their ids.
Ordered(us, h) ==
  \A j, k \in 1 .. Len(us) :
    j < k /\ Live(h, us[j]) /\ Live(h, us[k]) => h[us[j]].id <= h[us[k]].id

\* The intermediate tables of a handler.
TableTyped(t) ==
  /\ t \in [users : Seq(Ptr), heap : Cells, out : Seq(Written), bad : BOOLEAN]
  /\ Len(t.users) <= 3
  /\ Full(t.users, t.heap)

TableOK(t) == TableTyped(t) /\ (t.bad \/ CellsDistinct(t.heap))

\* The table between two steps, where no cell is allocated that no slot points to.
TableInv(us, h) ==
  /\ us \in Seq(Ptr)
  /\ h \in Cells
  /\ Len(us) <= 3
  /\ Full(us, h)
  /\ CellsDistinct(h)
  /\ \A a \in Addr : Live(h, a) => a \in Range(us)

\* The inductive invariant.
Inv == TypeOK /\ TableInv(users, heap)

-----------------------------------------------------------------------------
LEMMA MinOfThree ==
  ASSUME NEW S \in SUBSET (1 .. 3), S # {}
  PROVE  Min(S) \in S /\ \A y \in S : Min(S) <= y
<1>1. \E x \in S : \A y \in S : x <= y
  <2>1. CASE 1 \in S  BY <2>1
  <2>2. CASE 1 \notin S /\ 2 \in S  BY <2>2
  <2>3. CASE 1 \notin S /\ 2 \notin S
    <3>1. \A y \in S : y \in 1 .. 3  OBVIOUS
    <3>2. \A y \in S : y = 3  BY <2>3, <3>1
    <3>3. PICK x \in S : TRUE  OBVIOUS
    <3> QED  BY <3>2, <3>3
  <2> QED  BY <2>1, <2>2, <2>3
<1> QED  BY <1>1 DEF Min

\* What a scan by id finds in a table of at most three.
LEMMA UserFromId ==
  ASSUME NEW t, NEW id, t.users \in Seq(Ptr), Len(t.users) <= 3
  PROVE  \/ /\ user_from_id(t, id) = 0
            /\ \A k \in 1 .. Len(t.users) :
                 Live(t.heap, t.users[k]) /\ t.heap[t.users[k]].id # id
         \/ /\ user_from_id(t, id) \in 1 .. Len(t.users)
            /\ Live(t.heap, t.users[user_from_id(t, id)])
                 => t.heap[t.users[user_from_id(t, id)]].id = id
            /\ \A k \in 1 .. Len(t.users) :
                 ~Live(t.heap, t.users[k]) \/ t.heap[t.users[k]].id = id
                   => user_from_id(t, id) <= k
<1> DEFINE S == {k \in 1 .. Len(t.users) :
                   ~Live(t.heap, t.users[k]) \/ t.heap[t.users[k]].id = id}
<1>1. user_from_id(t, id) = IF S # {} THEN Min(S) ELSE 0
  BY DEF user_from_id, Scan, SelectInSeq
<1>2. S \in SUBSET (1 .. 3)
  BY DEF Ptr
<1>3. CASE S = {}
  BY <1>1, <1>3
<1>4. CASE S # {}
  <2>1. Min(S) \in S /\ \A k \in S : Min(S) <= k
    BY <1>2, <1>4, MinOfThree
  <2> QED  BY <2>1, <1>1, <1>4
<1> QED  BY <1>3, <1>4

\* A scan by nick stops at a slot or at 0.
LEMMA UserFromNick ==
  ASSUME NEW t, NEW nick, t.users \in Seq(Ptr), Len(t.users) <= 3
  PROVE  user_from_nick(t, nick) \in 0 .. Len(t.users)
<1> DEFINE S == {k \in 1 .. Len(t.users) :
                   ~Live(t.heap, t.users[k]) \/ t.heap[t.users[k]].nick = nick}
<1>1. user_from_nick(t, nick) = IF S # {} THEN Min(S) ELSE 0
  BY DEF user_from_nick, Scan, SelectInSeq
<1>2. S \in SUBSET (1 .. 3)
  BY DEF Ptr
<1>3. CASE S = {}
  BY <1>1, <1>3
<1>4. CASE S # {}
  <2>1. Min(S) \in S  BY <1>2, <1>4, MinOfThree
  <2>2. Min(S) \in 1 .. Len(t.users)  BY <2>1
  <2> HIDE DEF S
  <2> QED  BY <2>2, <1>1, <1>4
<1> QED  BY <1>3, <1>4

\* A scan for a conflicting nick or path that finds none has read every user.
LEMMA NoConflict ==
  ASSUME NEW t, NEW nick, NEW path, t.users \in Seq(Ptr), Len(t.users) <= 3,
         cred_conflict(t, nick, path) = 0
  PROVE  \A k \in 1 .. Len(t.users) :
           /\ Live(t.heap, t.users[k])
           /\ t.heap[t.users[k]].nick # nick
           /\ t.heap[t.users[k]].path # path
<1> DEFINE S == {k \in 1 .. Len(t.users) :
                   ~Live(t.heap, t.users[k]) \/ (t.heap[t.users[k]].nick = nick
                                                   \/ t.heap[t.users[k]].path = path)}
<1>1. cred_conflict(t, nick, path) = IF S # {} THEN Min(S) ELSE 0
  BY DEF cred_conflict, Scan, SelectInSeq
<1>2. S \in SUBSET (1 .. 3)
  BY DEF Ptr
<1>3. S = {}
  <2> SUFFICES ASSUME S # {} PROVE FALSE
    OBVIOUS
  <2>1. Min(S) \in S  BY <1>2, MinOfThree
  <2>2. Min(S) \in 1 .. Len(t.users)  BY <2>1
  <2> HIDE DEF S
  <2> QED  BY <2>2, <1>1
<1> QED  BY <1>3

\* It stops at a slot or at 0.
LEMMA ConflictSlot ==
  ASSUME NEW t, NEW nick, NEW path, t.users \in Seq(Ptr), Len(t.users) <= 3
  PROVE  cred_conflict(t, nick, path) \in 0 .. Len(t.users)
<1> DEFINE S == {k \in 1 .. Len(t.users) :
                   ~Live(t.heap, t.users[k]) \/ (t.heap[t.users[k]].nick = nick
                                                   \/ t.heap[t.users[k]].path = path)}
<1>1. cred_conflict(t, nick, path) = IF S # {} THEN Min(S) ELSE 0
  BY DEF cred_conflict, Scan, SelectInSeq
<1>2. S \in SUBSET (1 .. 3)
  BY DEF Ptr
<1>3. CASE S = {}
  BY <1>1, <1>3
<1>4. CASE S # {}
  <2>1. Min(S) \in S  BY <1>2, <1>4, MinOfThree
  <2>2. Min(S) \in 1 .. Len(t.users)  BY <2>1
  <2> HIDE DEF S
  <2> QED  BY <2>2, <1>1, <1>4
<1> QED  BY <1>3, <1>4

-----------------------------------------------------------------------------
\* Removing a user: from three users, one slot goes.
LEMMA RemoveUserTyped ==
  ASSUME NEW t, TableTyped(t), NEW p \in Addr, Live(t.heap, p),
         Len(t.users) = 3 =>
           \E k \in 1 .. 3 : t.heap[t.users[k]].id = t.heap[p].id
  PROVE  /\ TableTyped(remove_user(t, p))
         /\ \/ remove_user(t, p).bad
            \/ /\ remove_user(t, p).heap = [t.heap EXCEPT ![p] = Freed]
               /\ remove_user(t, p).bad = t.bad
<1> DEFINE k == user_from_id(t, t.heap[p].id)
           r == remove_user(t, p)
<1>1. /\ t.users \in Seq(Ptr) /\ Len(t.users) <= 3
      /\ t.heap \in Cells /\ t.out \in Seq(Written) /\ t.bad \in BOOLEAN
  BY DEF TableTyped
<1>2. CASE BadRead(t, k)
  <2>1. r = [t EXCEPT !.bad = TRUE]
    BY <1>2 DEF remove_user
  <2> HIDE DEF r
  <2>2. /\ r.users = t.users /\ r.heap = t.heap /\ r.bad
        /\ r \in [users : Seq(Ptr), heap : Cells, out : Seq(Written), bad : BOOLEAN]
    BY <2>1 DEF TableTyped
  <2> QED  BY <2>2 DEF TableTyped, r
<1>3. CASE ~BadRead(t, k)
  <2>1. r = [t EXCEPT !.users = arlist_remove(@, k), !.heap[p] = Freed]
    BY <1>3 DEF remove_user
  <2>2. \/ k = 0 /\ \A j \in 1 .. Len(t.users) : t.heap[t.users[j]].id # t.heap[p].id
        \/ k \in 1 .. Len(t.users)
    BY <1>1, UserFromId
  <2> HIDE DEF k, r
  <2>3. k \in Nat /\ (Len(t.users) = 3 => k \in 1 .. Len(t.users))
    BY <2>2, <1>1
  <2>4. /\ arlist_remove(t.users, k) \in Seq(Ptr)
        /\ Len(arlist_remove(t.users, k)) <= 2
    <3>1. /\ arlist_remove(t.users, k) \in Seq(Ptr)
          /\ Len(arlist_remove(t.users, k)) =
               IF k \in 1 .. Len(t.users) THEN Len(t.users) - 1 ELSE Len(t.users)
      BY <1>1, <2>3, RemoveType
    <3>2. CASE k \in 1 .. Len(t.users)
      <4>1. Len(arlist_remove(t.users, k)) = Len(t.users) - 1
        BY <3>1, <3>2
      <4> QED  BY <3>1, <4>1, <1>1
    <3>3. CASE k \notin 1 .. Len(t.users)
      <4>1. Len(arlist_remove(t.users, k)) = Len(t.users)
        BY <3>1, <3>3
      <4>2. Len(t.users) # 3 /\ Len(t.users) \in Nat
        BY <1>1, <2>3, <3>3
      <4>3. \A n \in Nat : n <= 3 /\ n # 3 => n <= 2
        OBVIOUS
      <4> QED  BY <3>1, <4>1, <4>2, <4>3, <1>1
    <3> QED  BY <3>2, <3>3
  <2>5. [t.heap EXCEPT ![p] = Freed] \in Cells
    BY <1>1 DEF Cells
  <2>6. /\ r \in [users : Seq(Ptr), heap : Cells, out : Seq(Written), bad : BOOLEAN]
        /\ r.users = arlist_remove(t.users, k)
        /\ r.heap = [t.heap EXCEPT ![p] = Freed]
        /\ r.bad = t.bad
    BY <1>1, <2>1, <2>4, <2>5 DEF TableTyped
  <2>7. Len(r.users) <= 3 /\ Full(r.users, r.heap)
    BY <2>4, <2>6 DEF Full
  <2> QED  BY <2>6, <2>7 DEF TableTyped, r
<1> QED  BY <1>2, <1>3

\* Freeing a cell leaves the others distinct.
LEMMA FreeingKeepsDistinct ==
  ASSUME NEW h \in Cells, CellsDistinct(h), NEW p \in Addr
  PROVE  CellsDistinct([h EXCEPT ![p] = Freed])
BY DEF CellsDistinct, Live, Cells

LEMMA RemoveUserOK ==
  ASSUME NEW t, TableOK(t), NEW p \in Addr, Live(t.heap, p),
         Len(t.users) = 3 =>
           \E k \in 1 .. 3 : t.heap[t.users[k]].id = t.heap[p].id
  PROVE  TableOK(remove_user(t, p))
<1> DEFINE r == remove_user(t, p)
<1>1. TableTyped(t) /\ t.heap \in Cells
  BY DEF TableOK, TableTyped
<1>2. /\ TableTyped(r)
      /\ r.bad \/ (r.heap = [t.heap EXCEPT ![p] = Freed] /\ r.bad = t.bad)
  BY <1>1, RemoveUserTyped
<1>3. ~t.bad => CellsDistinct([t.heap EXCEPT ![p] = Freed])
  BY <1>1, FreeingKeepsDistinct DEF TableOK
<1> HIDE DEF r
<1>4. TableOK(r)
  BY <1>2, <1>3 DEF TableOK
<1> QED  BY <1>4 DEF r

\* Writing to a user, or removing it because nobody reads its FIFO.
LEMMA SendToOK ==
  ASSUME NEW t, TableOK(t), NEW p \in Addr, Live(t.heap, p), NEW data \in Packet,
         Len(t.users) = 3 =>
           \E k \in 1 .. 3 : t.heap[t.users[k]].id = t.heap[p].id
  PROVE  TableOK(send_to(t, p, data))
<1>1. CASE data = NODATA
  BY <1>1 DEF send_to
<1>2. CASE data # NODATA /\ ClosedPipe(t, p)
  BY <1>2, RemoveUserOK DEF send_to
<1>3. CASE data # NODATA /\ ~ClosedPipe(t, p)
  <2> DEFINE w == [to |-> t.heap[p].path, data |-> data]
             r == send_to(t, p, data)
  <2>1. t.heap[p] \in User
    BY DEF TableOK, TableTyped, Cells, Live
  <2>2. w \in Written
    BY <2>1 DEF Written, User
  <2>3. r = [t EXCEPT !.out = Append(@, w)]
    BY <1>3 DEF send_to
  <2>4. Append(t.out, w) \in Seq(Written)
    BY <2>2 DEF TableOK, TableTyped
  <2> HIDE DEF r, w
  <2>5. /\ r \in [users : Seq(Ptr), heap : Cells, out : Seq(Written), bad : BOOLEAN]
        /\ r.users = t.users /\ r.heap = t.heap /\ r.bad = t.bad
    BY <2>3, <2>4 DEF TableOK, TableTyped
  <2> QED  BY <2>5 DEF TableOK, TableTyped, r
<1> QED  BY <1>1, <1>2, <1>3

\* What a handler leaves behind: cells no slot points to count as free.
LEMMA CollectedOK ==
  ASSUME NEW t, TableOK(t), ~t.bad
  PROVE  TableInv(t.users, Collected(t))
<1> DEFINE h == Collected(t)
<1>1. t.users \in Seq(Ptr) /\ t.heap \in Cells /\ Len(t.users) <= 3
  BY DEF TableOK, TableTyped
<1>2. /\ h \in Cells
      /\ \A a \in Addr : h[a] = IF a \in Range(t.users) THEN t.heap[a] ELSE Freed
  BY <1>1 DEF Collected, Cells
<1> HIDE DEF h
<1>3. \A a \in Addr : Live(h, a) => a \in Range(t.users)
  BY <1>2 DEF Live
<1>4. CellsDistinct(h)
  BY <1>2 DEF CellsDistinct, Live, TableOK
<1>5. \A k \in 1 .. Len(t.users) : t.users[k] \in Range(t.users)
  BY <1>1 DEF Range
<1>6. Full(t.users, h)
  BY <1>1, <1>2, <1>5 DEF Full, TableOK, TableTyped, Live
<1> QED  BY <1>1, <1>2, <1>3, <1>4, <1>6 DEF TableInv, h

-----------------------------------------------------------------------------
\* A table of users or of transfers that can be numbered.
Rows(s, h) ==
  /\ s \in Seq(Ptr) /\ Len(s) <= 3 /\ Full(s, h)
  /\ \A k \in 1 .. Len(s) : Live(h, s[k]) /\ h[s[k]].id \in Nat

LEMMA AtMost == \A n \in Nat : n <= 3 => n \in {0, 1, 2, 3}
OBVIOUS

\* get_available_id on a table of at most three that can be read: the number after
\* the first user's, or the one after that.
LEMMA AvailableId ==
  ASSUME NEW t, NEW s, NEW h, t.users = s, t.heap = h, Rows(s, h)
  PROVE  LET id(k) == h[s[k]].id
             n == get_available_id(t)
         IN  /\ n \in Nat
             /\ Len(s) = 0 => n = 0
             /\ Len(s) = 1 => n = id(1) + 1
             /\ Len(s) = 2 => n = IF id(2) = id(1) + 1 THEN id(2) + 1 ELSE id(1) + 1
             /\ Len(s) = 3 => n = id(1) + 1
<1> DEFINE id(k) == h[s[k]].id
           n == get_available_id(t)
<1> SUFFICES /\ n \in Nat
             /\ Len(s) = 0 => n = 0
             /\ Len(s) = 1 => n = id(1) + 1
             /\ Len(s) = 2 => n = IF id(2) = id(1) + 1 THEN id(2) + 1 ELSE id(1) + 1
             /\ Len(s) = 3 => n = id(1) + 1
  OBVIOUS
<1>1. s \in Seq(Ptr) /\ Len(s) \in {0, 1, 2, 3}
  <2>1. s \in Seq(Ptr) /\ Len(s) \in Nat /\ Len(s) <= 3
    BY DEF Rows
  <2> QED  BY <2>1, AtMost
<1>2. \A k \in 1 .. Len(s) : id(k) \in Nat
  BY DEF Rows
<1>3. n = IF s = <<>> THEN 0
          ELSE IF \A k \in 2 .. Len(s) : id(k) = id(1) + 1
               THEN id(Len(s)) + 1 ELSE id(1) + 1
  BY DEF get_available_id
<1>4. Len(s) = 3 => id(2) # id(1) + 1 \/ id(3) # id(1) + 1
  BY <1>2 DEF Rows, Full
<1> HIDE DEF n, id
<1>5. CASE Len(s) = 0
  <2>1. s = <<>>
    BY <1>1, <1>5
  <2> QED  BY <1>3, <1>5, <2>1
<1>6. CASE Len(s) = 1
  <2>1. s # <<>> /\ n = id(1) + 1
    <3>1. s # <<>>
      <4>1. Len(<<>>) = 0
        OBVIOUS
      <4> QED  BY <1>6, <4>1
    <3>2. \A k \in 2 .. Len(s) : id(k) = id(1) + 1
      BY <1>6
    <3> QED  BY <1>3, <1>6, <3>1, <3>2
  <2>2. 1 \in 1 .. Len(s)
    BY <1>6
  <2>3. id(1) \in Nat
    BY <1>2, <2>2
  <2> QED  BY <2>1, <2>3, <1>6
<1>7. CASE Len(s) = 2
  <2>1. s # <<>> /\ \A k \in 2 .. 2 : k = 2
    BY <1>7
  <2>2. n = IF id(2) = id(1) + 1 THEN id(2) + 1 ELSE id(1) + 1
    BY <1>3, <1>7, <2>1
  <2>3. 1 \in 1 .. Len(s) /\ 2 \in 1 .. Len(s)
    BY <1>7
  <2>4. id(1) \in Nat /\ id(2) \in Nat
    BY <1>2, <2>3
  <2>5. n \in Nat
    BY <2>2, <2>4
  <2> QED  BY <2>2, <2>5, <1>7
<1>8. CASE Len(s) = 3
  <2>1. s # <<>> /\ n = id(1) + 1
    <3>1. s # <<>>
      <4>1. Len(<<>>) = 0
        OBVIOUS
      <4> QED  BY <1>8, <4>1
    <3>2. ~ \A k \in 2 .. Len(s) : id(k) = id(1) + 1
      <4>1. 2 \in 2 .. Len(s) /\ 3 \in 2 .. Len(s)
        BY <1>8
      <4> QED  BY <1>4, <1>8, <4>1
    <3> QED  BY <1>3, <3>1, <3>2
  <2>2. 1 \in 1 .. Len(s)
    BY <1>8
  <2>3. id(1) \in Nat
    BY <1>2, <2>2
  <2> QED  BY <2>1, <2>3, <1>8
<1> QED  BY <1>1, <1>5, <1>6, <1>7, <1>8

\* arlist_add of what has the id n on offer: it refuses it in a table of three, where
\* the id is taken, and adds it with a fresh id in a smaller one.
Slotted(us, s, h, key, a, n) ==
  \/ /\ Len(s) = 3
     /\ us = s
     /\ \E k \in 1 .. 3 : h[s[k]].id = n
  \/ /\ Len(s) < 3
     /\ us \in Seq(Ptr)
     /\ Len(us) = Len(s) + 1
     /\ \A k \in 1 .. Len(s) : h[s[k]].id # n
     /\ \A k \in 1 .. Len(us) : us[k] = a \/ us[k] \in Range(s)
     /\ \E k \in 1 .. Len(us) : us[k] = a
     /\ \A k \in 1 .. Len(s) : \E j \in 1 .. Len(us) : us[j] = s[k]
     /\ Len(us) = 3 =>
          \/ key[us[2]] = key[us[1]] + 1 /\ key[us[3]] > key[us[2]]
          \/ key[us[2]] <= key[us[1]] /\ key[us[3]] = key[us[1]] + 1
     /\ (\A j, k \in 1 .. Len(s) : j < k => h[s[j]].id <= h[s[k]].id)
          => \A j, k \in 1 .. Len(us) : j < k => key[us[j]] <= key[us[k]]

LEMMA AddSlots ==
  ASSUME NEW t, NEW s, NEW h, t.users = s, t.heap = h, Rows(s, h),
         NEW a \in Addr, h[a] = Freed,
         NEW key, key[a] = get_available_id(t),
         \A k \in 1 .. Len(s) : key[s[k]] = h[s[k]].id
  PROVE  Slotted(arlist_add(s, key, a), s, h, key, a, get_available_id(t))
<1> DEFINE n == get_available_id(t)
           us == arlist_add(s, key, a)
           id(k) == h[s[k]].id
           above == {k \in 1 .. Len(s) : id(k) >= n}
           nb == IF above # {} THEN Min(above) ELSE 0
           accepts == Accepts(s, key, a)
           tail == key[s[Len(s)]]
<1>1. /\ s \in Seq(Ptr) /\ Len(s) \in {0, 1, 2, 3}
      /\ Len(s) # 0 => s # <<>>
  <2>1. s \in Seq(Ptr) /\ Len(s) \in Nat /\ Len(s) <= 3
    BY DEF Rows
  <2>2. Len(s) # 0 => s # <<>>
    OBVIOUS
  <2> QED  BY <2>1, <2>2, AtMost
<1>2. \A k \in 1 .. Len(s) : id(k) \in Nat /\ s[k] # a /\ key[s[k]] = id(k)
  BY DEF Rows, Live
<1>3. /\ n \in Nat
      /\ Len(s) = 0 => n = 0
      /\ Len(s) = 1 => n = id(1) + 1
      /\ Len(s) = 2 => n = IF id(2) = id(1) + 1 THEN id(2) + 1 ELSE id(1) + 1
      /\ Len(s) = 3 => n = id(1) + 1
  BY AvailableId
<1>4. key[a] = n
  OBVIOUS
<1>5. NotBelow(s, key, a) = nb
  <2>1. above = {k \in 1 .. Len(s) : key[s[k]] >= key[a]}
    BY <1>2, <1>4
  <2>2. NotBelow(s, key, a) =
          LET I == {k \in 1 .. Len(s) : key[s[k]] >= key[a]}
          IN  IF I # {} THEN Min(I) ELSE 0
    BY DEF NotBelow, SelectInSeq
  <2> QED  BY <2>1, <2>2
<1>6. nb # 0 =>
        /\ nb \in 1 .. Len(s) /\ id(nb) >= n
        /\ \A k \in 1 .. Len(s) : id(k) >= n => nb <= k
  <2>1. above \in SUBSET (1 .. 3)
    BY <1>1
  <2>2. above # {} => Min(above) \in above /\ \A y \in above : Min(above) <= y
    BY <2>1, MinOfThree
  <2> QED  BY <2>2
<1>7. nb = 0 => \A k \in 1 .. Len(s) : ~(id(k) >= n)
  <2>1. above \in SUBSET (1 .. 3)
    BY <1>1
  <2>2. above # {} => Min(above) \in above
    BY <2>1, MinOfThree
  <2> QED  BY <2>2
<1>8. accepts <=>
        \/ s = <<>>
        \/ tail < n
        \/ nb # 0 /\ key[s[nb]] > n
  BY <1>4, <1>5 DEF Accepts, Last
<1>9. us = IF ~accepts THEN s
           ELSE IF s = <<>> \/ tail < n THEN Append(s, a)
           ELSE InsertAtSlot(s, nb, a)
  BY <1>4, <1>5 DEF arlist_add, arlist_push, Last
<1>10. SUFFICES
         \/ /\ Len(s) = 3
            /\ us = s
            /\ \E k \in 1 .. 3 : id(k) = n
         \/ /\ Len(s) < 3
            /\ us \in Seq(Ptr)
            /\ Len(us) = Len(s) + 1
            /\ \A k \in 1 .. Len(s) : id(k) # n
            /\ \A k \in 1 .. Len(us) : us[k] = a \/ us[k] \in Range(s)
            /\ \E k \in 1 .. Len(us) : us[k] = a
            /\ \A k \in 1 .. Len(s) : \E j \in 1 .. Len(us) : us[j] = s[k]
            /\ Len(us) = 3 =>
                 \/ key[us[2]] = key[us[1]] + 1 /\ key[us[3]] > key[us[2]]
                 \/ key[us[2]] <= key[us[1]] /\ key[us[3]] = key[us[1]] + 1
            /\ (\A j, k \in 1 .. Len(s) : j < k => id(j) <= id(k))
                 => \A j, k \in 1 .. Len(us) : j < k => key[us[j]] <= key[us[k]]
  BY DEF Slotted
<1>11. Len(s) = 3 =>
         \/ id(2) = id(1) + 1 /\ id(3) > id(2)
         \/ id(2) <= id(1) /\ id(3) = id(1) + 1
  BY DEF Rows, Full
<1>12. a \in Ptr /\ \A k \in 1 .. Len(s) : s[k] \in Range(s)
  BY <1>1, ServerAssumption DEF Range
<1>13. tail = key[s[Len(s)]]
  OBVIOUS
<1> HIDE DEF n, us, id, above, nb, accepts, tail
\* What appending gives.
<1>14. ASSUME us = Append(s, a)
       PROVE  /\ us \in Seq(Ptr) /\ Len(us) = Len(s) + 1
              /\ \A k \in 1 .. Len(s) : us[k] = s[k]
              /\ us[Len(s) + 1] = a
              /\ \A k \in 1 .. Len(us) : us[k] = a \/ us[k] \in Range(s)
              /\ \E k \in 1 .. Len(us) : us[k] = a
              /\ \A k \in 1 .. Len(s) : \E j \in 1 .. Len(us) : us[j] = s[k]
  <2>1. /\ us \in Seq(Ptr) /\ Len(us) = Len(s) + 1
        /\ \A k \in 1 .. Len(s) : us[k] = s[k]
        /\ us[Len(s) + 1] = a
    BY <1>1, <1>12, <1>14
  <2>2. Len(s) + 1 \in 1 .. Len(us) /\ \A k \in 1 .. Len(us) : k \in 1 .. Len(s) \/ k = Len(s) + 1
    BY <1>1, <2>1
  <2> QED  BY <2>1, <2>2, <1>12
<1>15. CASE Len(s) = 0
  <2>1. us = Append(s, a)
    BY <1>1, <1>8, <1>9, <1>15
  <2>2. Len(us) = 1 /\ \A j, k \in 1 .. 1 : ~(j < k)
    BY <2>1, <1>14, <1>15
  <2> QED  BY <2>1, <2>2, <1>14, <1>15
<1>16. CASE Len(s) = 1
  <2>1. id(1) \in Nat /\ key[s[1]] = id(1) /\ n = id(1) + 1
    BY <1>2, <1>3, <1>16
  <2>2. us = Append(s, a)
    <3>1. tail < n
      BY <2>1, <1>13, <1>16
    <3> QED  BY <3>1, <1>8, <1>9
  <2>3. Len(us) = 2 /\ \A k \in 1 .. Len(s) : id(k) # n
    BY <2>1, <2>2, <1>14, <1>16
  <2>4. us[1] = s[1] /\ us[2] = a
    BY <2>2, <1>14, <1>16
  <2>5. key[us[1]] <= key[us[2]]
    BY <2>1, <2>4, <1>4
  <2>6. \A j, k \in 1 .. Len(us) : j < k => j = 1 /\ k = 2
    BY <2>3
  <2>7. \A j, k \in 1 .. Len(us) : j < k => key[us[j]] <= key[us[k]]
    BY <2>5, <2>6
  <2> QED  BY <2>2, <2>3, <2>7, <1>14, <1>16
<1>17. CASE Len(s) = 2
  <2>1. /\ id(1) \in Nat /\ key[s[1]] = id(1)
        /\ id(2) \in Nat /\ key[s[2]] = id(2)
        /\ n \in Nat
        /\ n = IF id(2) = id(1) + 1 THEN id(2) + 1 ELSE id(1) + 1
    BY <1>2, <1>3, <1>17
  <2>2. \A k \in 1 .. Len(s) : k = 1 \/ k = 2
    BY <1>17
  <2>o. ASSUME Len(us) = 3,
               id(1) <= id(2) => key[us[1]] <= key[us[2]] /\ key[us[2]] <= key[us[3]],
               \A k \in 1 .. 3 : key[us[k]] \in Nat
        PROVE  (\A j, k \in 1 .. Len(s) : j < k => id(j) <= id(k))
                 => \A j, k \in 1 .. Len(us) : j < k => key[us[j]] <= key[us[k]]
    <3> SUFFICES ASSUME \A j, k \in 1 .. Len(s) : j < k => id(j) <= id(k),
                        NEW j \in 1 .. 3, NEW k \in 1 .. 3, j < k
                 PROVE  key[us[j]] <= key[us[k]]
      BY <2>o
    <3>1. key[us[1]] <= key[us[2]] /\ key[us[2]] <= key[us[3]]
      BY <2>o, <1>17
    <3>2. key[us[1]] <= key[us[3]]
      BY <3>1, <2>o
    <3>3. \/ j = 1 /\ k = 2
          \/ j = 1 /\ k = 3
          \/ j = 2 /\ k = 3
      OBVIOUS
    <3> QED  BY <3>1, <3>2, <3>3
  <2>3. CASE id(2) < n
    <3>1. us = Append(s, a)
      <4>1. tail < n
        BY <2>1, <2>3, <1>13, <1>17
      <4> QED  BY <4>1, <1>8, <1>9
    <3>2. /\ us \in Seq(Ptr) /\ Len(us) = 3
          /\ us[1] = s[1] /\ us[2] = s[2] /\ us[3] = a
          /\ \A k \in 1 .. Len(us) : us[k] = a \/ us[k] \in Range(s)
          /\ \E k \in 1 .. Len(us) : us[k] = a
          /\ \A k \in 1 .. Len(s) : \E j \in 1 .. Len(us) : us[j] = s[k]
      BY <3>1, <1>14, <1>17
    <3>3. id(1) # n /\ id(2) # n
      BY <2>1, <2>3
    <3>4. \/ id(2) = id(1) + 1 /\ n > id(2)
          \/ id(2) <= id(1) /\ n = id(1) + 1
      BY <2>1, <2>3
    <3>5. \/ key[us[2]] = key[us[1]] + 1 /\ key[us[3]] > key[us[2]]
          \/ key[us[2]] <= key[us[1]] /\ key[us[3]] = key[us[1]] + 1
      BY <3>2, <3>4, <2>1, <1>4
    <3>6. Len(us) = Len(s) + 1 /\ Len(s) < 3
      BY <3>2, <1>17
    <3>7. /\ id(1) <= id(2) => key[us[1]] <= key[us[2]] /\ key[us[2]] <= key[us[3]]
          /\ key[us[1]] \in Nat /\ key[us[2]] \in Nat /\ key[us[3]] \in Nat
      BY <3>2, <2>1, <2>3, <1>4
    <3>8. \A k \in 1 .. 3 : key[us[k]] \in Nat
      <4>1. \A k \in 1 .. 3 : k = 1 \/ k = 2 \/ k = 3
        OBVIOUS
      <4> QED  BY <4>1, <3>7
    <3>9. (\A j, k \in 1 .. Len(s) : j < k => id(j) <= id(k))
            => \A j, k \in 1 .. Len(us) : j < k => key[us[j]] <= key[us[k]]
      BY <2>o, <3>2, <3>7, <3>8
    <3> QED  BY <3>2, <3>3, <3>5, <3>6, <3>9, <2>2
  <2>4. CASE ~(id(2) < n)
    <3>1. n = id(1) + 1 /\ id(2) > n
      BY <2>1, <2>4
    <3>2. nb = 2
      <4>1. nb # 0
        BY <1>7, <2>4, <2>1, <1>17
      <4>2. nb \in 1 .. Len(s) /\ id(nb) >= n
        BY <4>1, <1>6
      <4>3. nb # 1
        BY <4>2, <3>1, <2>1
      <4> QED  BY <4>2, <4>3, <2>2
    <3>3. us = InsertAtSlot(s, Len(s), a)
      <4>1. accepts
        <5>1. key[s[nb]] > n
          BY <3>1, <3>2, <2>1
        <5> QED  BY <5>1, <3>2, <1>8
      <4>2. ~(tail < n) /\ s # <<>>
        <5>1. tail = id(2)
          BY <1>17, <2>1, <1>13
        <5>2. ~(tail < n)
          BY <5>1, <2>4
        <5>3. s # <<>>
          BY <1>1, <1>17
        <5> QED  BY <5>2, <5>3
      <4> QED  BY <4>1, <4>2, <3>2, <1>9, <1>17
    <3>4. /\ us \in Seq(Ptr) /\ Len(us) = 3
          /\ us[1] = s[1] /\ us[2] = a /\ us[3] = s[2]
      <4>1. Len(s) \in 1 .. Len(s) /\ s # <<>>
        BY <1>1, <1>17
      <4>2. us \in Seq(Ptr)
        BY <4>1, <3>3, <1>1, <1>12, InsertType
      <4>3. /\ Len(us) = Len(s) + 1
            /\ \A j \in 1 .. Len(s) - 1 : us[j] = s[j]
            /\ us[Len(s)] = a
            /\ us[Len(s) + 1] = s[Len(s)]
        BY <4>1, <3>3, <1>1, <1>12, InsertExactBeforeLast
      <4> QED  BY <4>2, <4>3, <1>17
    <3>5. key[us[2]] = key[us[1]] + 1 /\ key[us[3]] > key[us[2]]
      BY <3>1, <3>4, <2>1, <1>4
    <3>6. \A k \in 1 .. Len(us) : us[k] = a \/ us[k] \in Range(s)
      BY <3>4, <1>12, <1>17
    <3>7. id(1) # n /\ id(2) # n
      BY <3>1, <2>1
    <3>8. /\ Len(us) = Len(s) + 1 /\ Len(s) < 3
          /\ \E k \in 1 .. Len(us) : us[k] = a
          /\ \A k \in 1 .. Len(s) : \E j \in 1 .. Len(us) : us[j] = s[k]
      BY <3>4, <2>2, <1>17
    <3>9. /\ id(1) <= id(2) => key[us[1]] <= key[us[2]] /\ key[us[2]] <= key[us[3]]
          /\ key[us[1]] \in Nat /\ key[us[2]] \in Nat /\ key[us[3]] \in Nat
      BY <3>1, <3>4, <2>1, <1>4
    <3>10. \A k \in 1 .. 3 : key[us[k]] \in Nat
      <4>1. \A k \in 1 .. 3 : k = 1 \/ k = 2 \/ k = 3
        OBVIOUS
      <4> QED  BY <4>1, <3>9
    <3>11. (\A j, k \in 1 .. Len(s) : j < k => id(j) <= id(k))
             => \A j, k \in 1 .. Len(us) : j < k => key[us[j]] <= key[us[k]]
      BY <2>o, <3>4, <3>9, <3>10
    <3> QED  BY <3>4, <3>5, <3>6, <3>7, <3>8, <3>11, <2>2
  <2> QED  BY <2>3, <2>4, <2>1
<1>18. CASE Len(s) = 3
  <2>1. /\ id(1) \in Nat /\ key[s[1]] = id(1)
        /\ id(2) \in Nat /\ key[s[2]] = id(2)
        /\ id(3) \in Nat /\ key[s[3]] = id(3)
        /\ n \in Nat /\ n = id(1) + 1
    BY <1>2, <1>3, <1>18
  <2>2. \A k \in 1 .. Len(s) : k = 1 \/ k = 2 \/ k = 3
    BY <1>18
  <2>3. s # <<>> /\ ~(tail < n)
    <3>1. tail = id(3)
      BY <2>1, <1>18, <1>13
    <3>2. id(3) >= n
      BY <2>1, <1>11, <1>18
    <3>3. ~(tail < n)
      BY <3>1, <3>2, <2>1
    <3>4. s # <<>>
      BY <1>1, <1>18
    <3> QED  BY <3>3, <3>4
  <2>4. nb # 0 /\ id(nb) = n
    <3>1. nb # 0
      BY <2>1, <1>11, <1>7, <1>18
    <3>2. nb \in 1 .. Len(s) /\ id(nb) >= n /\ \A k \in 1 .. Len(s) : id(k) >= n => nb <= k
      BY <3>1, <1>6
    <3>3. CASE id(2) = id(1) + 1
      <4>1. nb <= 2
        BY <3>2, <3>3, <2>1, <1>18
      <4>2. nb = 2
        BY <4>1, <3>2, <2>1, <2>2
      <4> QED  BY <4>2, <3>1, <3>3, <2>1
    <3>4. CASE id(2) <= id(1) /\ id(3) = id(1) + 1
      <4>1. nb = 3
        BY <3>2, <3>4, <2>1, <2>2
      <4> QED  BY <4>1, <3>1, <3>4, <2>1
    <3> QED  BY <3>3, <3>4, <1>11, <1>18
  <2>5. nb \in 1 .. Len(s)
    BY <2>4, <1>6
  <2>6. ~accepts
    <3>1. key[s[nb]] = n
      BY <2>4, <2>5, <1>2
    <3> QED  BY <3>1, <2>3, <2>1, <1>8
  <2>7. us = s
    BY <2>6, <1>9
  <2>8. \E k \in 1 .. 3 : id(k) = n
    BY <2>4, <2>5, <1>18
  <2> QED  BY <2>7, <2>8, <1>18
<1> QED  BY <1>1, <1>15, <1>16, <1>17, <1>18
-----------------------------------------------------------------------------
\* What a handler may leave: nothing defined, or a table that keeps the invariant.
Good(t) == t.bad \/ (TableInv(t.users, Collected(t)) /\ t.out \in Seq(Written))

LEMMA OKIsGood ==
  ASSUME NEW t, TableOK(t)
  PROVE  Good(t)
BY CollectedOK DEF Good, TableOK, TableTyped

LEMMA Packets ==
  /\ NODATA \in Packet /\ req_server_BADD \in Packet
  /\ \A n \in Nat : req_server_OKOK(n) \in Packet /\ req_server_BYEE(n) \in Packet
  /\ \A nick \in Nick \cup {"SERVER"}, fits \in BOOLEAN : req_server_BCST(nick, fits) \in Packet
  /\ \A nick \in Nick, fits \in BOOLEAN : req_server_PRVT(nick, fits) \in Packet
  /\ \A n \in Nat, nick \in Nick : req_server_LIST(n, nick) \in Packet
  /\ \A nick \in Nick \cup {Null} : req_server_SHUT(nick) \in Packet
<1>1. NODATA \in Packet /\ req_server_BADD \in Packet
  BY DEF Packet
<1>2. ASSUME NEW n \in Nat PROVE req_server_OKOK(n) \in Packet /\ req_server_BYEE(n) \in Packet
  <2>1. CASE n > MAX_NUM
    BY <2>1, <1>1 DEF req_server_OKOK, req_server_BYEE, Numbered
  <2>2. CASE ~(n > MAX_NUM)
    <3>1. n \in 0 .. MAX_NUM
      BY <2>2, ServerAssumption
    <3>2. req_server_OKOK(n) = <<"OKOK", n>> /\ req_server_BYEE(n) = <<"BYEE", n>>
      BY <2>2 DEF req_server_OKOK, req_server_BYEE, Numbered
    <3> QED  BY <3>1, <3>2 DEF Packet
  <2> QED  BY <2>1, <2>2
<1>3. \A nick \in Nick \cup {"SERVER"}, fits \in BOOLEAN : req_server_BCST(nick, fits) \in Packet
  BY <1>1 DEF req_server_BCST, Packet
<1>4. \A nick \in Nick, fits \in BOOLEAN : req_server_PRVT(nick, fits) \in Packet
  BY <1>1 DEF req_server_PRVT, Packet
<1>5. \A n \in Nat, nick \in Nick : req_server_LIST(n, nick) \in Packet
  BY DEF req_server_LIST, Packet
<1>6. \A nick \in Nick \cup {Null} : req_server_SHUT(nick) \in Packet
  BY <1>1 DEF req_server_SHUT, Packet
<1> QED  BY <1>1, <1>2, <1>3, <1>4, <1>5, <1>6

\* Between two steps, the table is one a handler can start from.
LEMMA NowOK ==
  ASSUME Inv
  PROVE  /\ TableOK(Now)
         /\ Now.users = users /\ Now.heap = heap /\ Now.out = <<>> /\ ~Now.bad
         /\ users \in Seq(Ptr) /\ Len(users) \in Nat /\ Len(users) <= 3 /\ heap \in Cells
         /\ \A p : Live(heap, p) => /\ p \in Addr
                                    /\ heap[p] \in User
                                    /\ \E k \in 1 .. Len(users) : users[k] = p
<1>1. users \in Seq(Ptr) /\ Len(users) \in Nat /\ Len(users) <= 3 /\ heap \in Cells
  BY DEF Inv, TableInv
<1>2. TableOK(Now)
  BY <1>1 DEF Inv, TableInv, TableOK, TableTyped, Now
<1>3. \A p : Live(heap, p) => p \in Addr /\ heap[p] \in User /\ p \in Range(users)
  BY <1>1 DEF Inv, TableInv, Live, Cells
<1>4. \A p : p \in Range(users) => \E k \in 1 .. Len(users) : users[k] = p
  BY <1>1 DEF Range
<1> QED  BY <1>1, <1>2, <1>3, <1>4 DEF Now

\* send_to, starting from the table between two steps.
LEMMA SendNow ==
  ASSUME Inv, NEW p, Live(heap, p), NEW data \in Packet
  PROVE  TableOK(send_to(Now, p, data))
<1>1. PICK k \in 1 .. Len(users) : users[k] = p
  BY NowOK
<1>2. Len(users) = 3 => \E j \in 1 .. 3 : heap[users[j]].id = heap[p].id
  BY <1>1
<1> QED  BY <1>2, NowOK, SendToOK

\* The guard of Register.
Registering(a) ==
  /\ pc = "opened" /\ heap[a] = Freed
  /\ req[1] \notin BadNick /\ cred_conflict(Now, req[1], req[2]) = 0
  /\ get_available_id(Now) <= MAX_USERS

NewUser(id) == [id |-> id, nick |-> req[1], path |-> req[2]]

\* The table before OKOK is written: with the new user in it, if there is room.
Enrolled(a, id) ==
  LET h == [heap EXCEPT ![a] = NewUser(id)]
      key == [p \in {q \in Addr : h[q] # Freed} |-> h[p].id]
  IN  [Now EXCEPT !.users = arlist_add(@, key, a), !.heap = h]

\* A table of three refuses the user; a smaller one takes it, keeps who it had, and
\* stays in order.
LEMMA EnrolledOK ==
  ASSUME Inv, NEW a \in Addr, Registering(a)
  PROVE  LET n == get_available_id(Now)
             t == Enrolled(a, n)
         IN  /\ n \in Nat /\ NewUser(n) \in User /\ req_server_OKOK(n) \in Packet
             /\ Added(a, n) = send_to(t, a, req_server_OKOK(n))
             /\ TableTyped(t) /\ t.out = <<>> /\ ~t.bad
             /\ t.heap = [heap EXCEPT ![a] = NewUser(n)]
             /\ Live(t.heap, a) /\ t.heap[a] = NewUser(n)
             /\ \A k \in 1 .. Len(users) :
                  /\ Live(heap, users[k]) /\ users[k] # a
                  /\ heap[users[k]].nick # req[1] /\ heap[users[k]].path # req[2]
             /\ \/ /\ Len(users) = 3 /\ t.users = users
                   /\ \E k \in 1 .. 3 : heap[users[k]].id = n
                \/ /\ Len(users) < 3 /\ CellsDistinct(t.heap)
                   /\ Len(t.users) = Len(users) + 1
                   /\ \A k \in 1 .. Len(users) : heap[users[k]].id # n
                   /\ \A k \in 1 .. Len(t.users) : t.users[k] = a \/ t.users[k] \in Range(users)
                   /\ \E k \in 1 .. Len(t.users) : t.users[k] = a
                   /\ \A k \in 1 .. Len(users) : \E j \in 1 .. Len(t.users) : t.users[j] = users[k]
             /\ Ordered(users, heap) => Ordered(t.users, t.heap)
<1> DEFINE n == get_available_id(Now)
           new == NewUser(n)
           h == [heap EXCEPT ![a] = new]
           key == [p \in {q \in Addr : h[q] # Freed} |-> h[p].id]
           us == arlist_add(users, key, a)
           t == Enrolled(a, n)
           data == req_server_OKOK(n)
<1>1. /\ Added(a, n) = send_to(t, a, data)
      /\ t = [Now EXCEPT !.users = us, !.heap = h]
  BY DEF Added, Enrolled, Now, NewUser
<1>2. TableInv(users, heap) /\ users \in Seq(Ptr) /\ Len(users) <= 3 /\ heap \in Cells
  BY NowOK DEF Inv
<1>3. \A k \in 1 .. Len(users) :
        Live(heap, users[k]) /\ heap[users[k]].nick # req[1] /\ heap[users[k]].path # req[2]
  BY NowOK, NoConflict DEF Registering
<1>r. Rows(users, heap) /\ Now.users = users /\ Now.heap = heap
  BY <1>2, <1>3, NowOK, ServerAssumption DEF Rows, TableInv, Now, Cells, Live, User
<1>4. n \in Nat
  BY <1>r, AvailableId
<1>5. new \in User /\ new # Freed
  <2>1. req \in (Nick \cup BadNick) \X Path /\ req[1] \notin BadNick
    BY DEF Inv, TypeOK, Registering
  <2>2. n \in 0 .. MAX_USERS
    BY <1>4, ServerAssumption DEF Registering
  <2> QED  BY <2>1, <2>2, ServerAssumption DEF User, NewUser
<1>6. data \in Packet
  BY <1>4, Packets
<1>7. h \in Cells /\ h[a] = new /\ \A b \in Addr : b # a => h[b] = heap[b]
  BY <1>2, <1>5 DEF Cells
<1>9. \A k \in 1 .. Len(users) : users[k] \in Addr /\ users[k] # a
  BY <1>3 DEF Live, Registering
<1>10. \A p \in Range(users) : \E k \in 1 .. Len(users) : users[k] = p
  BY <1>2 DEF Range
<1>11. new.id = n /\ new.nick = req[1] /\ new.path = req[2]
  BY DEF NewUser
<1>12. t.users = us /\ t.heap = h /\ t.out = <<>> /\ t.bad = FALSE
       /\ (us \in Seq(Ptr) =>
             t \in [users : Seq(Ptr), heap : Cells, out : Seq(Written), bad : BOOLEAN])
  <2>1. Now \in [users : Seq(Ptr), heap : Cells, out : Seq(Written), bad : BOOLEAN]
    BY NowOK DEF TableOK, TableTyped
  <2>2. Now.out = <<>> /\ Now.heap = heap /\ Now.bad = FALSE
    BY DEF Now
  <2> HIDE DEF us, new, t
  <2>3. t.users = us /\ t.heap = h /\ t.out = Now.out /\ t.bad = Now.bad
    BY <1>1, <2>1, <2>2
  <2>4. us \in Seq(Ptr) =>
          t \in [users : Seq(Ptr), heap : Cells, out : Seq(Written), bad : BOOLEAN]
    BY <1>1, <2>1, <2>2, <1>7
  <2> QED  BY <2>2, <2>3, <2>4
<1>13. \A p \in Addr : h[p] # Freed => key[p] = h[p].id
  OBVIOUS
<1>14. Live(h, a) /\ \A k \in 1 .. Len(users) : Live(h, users[k]) /\ h[users[k]] = heap[users[k]]
  BY <1>3, <1>5, <1>7, <1>9 DEF Live
<1>8. \/ /\ Len(users) = 3
         /\ us = users
         /\ \E k \in 1 .. 3 : heap[users[k]].id = n
      \/ /\ Len(users) < 3
         /\ us \in Seq(Ptr)
         /\ Len(us) = Len(users) + 1
         /\ \A k \in 1 .. Len(users) : heap[users[k]].id # n
         /\ \A k \in 1 .. Len(us) : us[k] = a \/ us[k] \in Range(users)
         /\ \E k \in 1 .. Len(us) : us[k] = a
         /\ \A k \in 1 .. Len(users) : \E j \in 1 .. Len(us) : us[j] = users[k]
         /\ Len(us) = 3 =>
              \/ key[us[2]] = key[us[1]] + 1 /\ key[us[3]] > key[us[2]]
              \/ key[us[2]] <= key[us[1]] /\ key[us[3]] = key[us[1]] + 1
         /\ (\A j, k \in 1 .. Len(users) : j < k => heap[users[j]].id <= heap[users[k]].id)
              => \A j, k \in 1 .. Len(us) : j < k => key[us[j]] <= key[us[k]]
  <2>1. key[a] = n /\ \A k \in 1 .. Len(users) : key[users[k]] = heap[users[k]].id
    <3> HIDE DEF key, h, n, new
    <3>1. key[a] = h[a].id /\ h[a].id = n
      BY <1>7, <1>11, <1>13, <1>14 DEF Live
    <3>2. \A k \in 1 .. Len(users) : key[users[k]] = h[users[k]].id
      BY <1>9, <1>13, <1>14 DEF Live
    <3> QED  BY <3>1, <3>2, <1>14
  <2>2. heap[a] = Freed
    BY DEF Registering
  <2>3. Slotted(us, users, heap, key, a, n)
    <3> HIDE DEF key
    <3> QED  BY <2>1, <2>2, <1>r, AddSlots
  <2> HIDE DEF us, key, n
  <2> QED  BY <2>3 DEF Slotted
<1> HIDE DEF n, key, us, new, h, t, data
<1>15. CASE Len(users) < 3
  <2>1. /\ us \in Seq(Ptr)
        /\ Len(us) <= 3 /\ Len(us) = Len(users) + 1
        /\ \A k \in 1 .. Len(users) : heap[users[k]].id # n
        /\ \A k \in 1 .. Len(us) : us[k] = a \/ us[k] \in Range(users)
        /\ \E k \in 1 .. Len(us) : us[k] = a
        /\ \A k \in 1 .. Len(users) : \E j \in 1 .. Len(us) : us[j] = users[k]
        /\ Len(us) = 3 =>
             \/ key[us[2]] = key[us[1]] + 1 /\ key[us[3]] > key[us[2]]
             \/ key[us[2]] <= key[us[1]] /\ key[us[3]] = key[us[1]] + 1
        /\ (\A j, k \in 1 .. Len(users) : j < k => heap[users[j]].id <= heap[users[k]].id)
             => \A j, k \in 1 .. Len(us) : j < k => key[us[j]] <= key[us[k]]
    <3>1. Len(us) = Len(users) + 1 /\ Len(users) \in Nat
      <4>1. Len(users) # 3
        BY <1>15
      <4> QED  BY <4>1, <1>8, NowOK
    <3>2. \A k \in Nat : k < 3 => k + 1 <= 3
      OBVIOUS
    <3>3. Len(us) <= 3
      BY <3>1, <3>2, <1>15
    <3> QED  BY <3>1, <3>3, <1>8, <1>15
  <2>2. \A k \in 1 .. Len(us) : us[k] \in Addr /\ Live(h, us[k])
    BY <2>1, <1>9, <1>10, <1>14
  <2>3. Full(us, h)
    <3> SUFFICES ASSUME Len(us) = 3 PROVE Full(us, h)
      BY DEF Full
    <3>1. \A k \in 1 .. 3 : Live(h, us[k]) /\ key[us[k]] = h[us[k]].id
      BY <2>2, <1>13 DEF Live
    <3>2. \/ h[us[2]].id = h[us[1]].id + 1 /\ h[us[3]].id > h[us[2]].id
          \/ h[us[2]].id <= h[us[1]].id /\ h[us[3]].id = h[us[1]].id + 1
      BY <3>1, <2>1
    <3> QED  BY <3>1, <3>2 DEF Full
  <2>4. CellsDistinct(h)
    <3>1. ASSUME NEW b \in Addr, b # a, Live(h, b)
          PROVE  h[b].id # h[a].id /\ h[b].nick # h[a].nick /\ h[b].path # h[a].path
      <4>1. Live(heap, b) /\ h[b] = heap[b]
        BY <3>1, <1>7 DEF Live
      <4>2. PICK k \in 1 .. Len(users) : users[k] = b
        BY <4>1, NowOK
      <4> QED  BY <4>1, <4>2, <2>1, <1>3, <1>7, <1>11
    <3>2. ASSUME NEW b \in Addr, NEW c \in Addr, b # a, c # a, b # c, Live(h, b), Live(h, c)
          PROVE  h[b].id # h[c].id /\ h[b].nick # h[c].nick /\ h[b].path # h[c].path
      <4>1. Live(heap, b) /\ h[b] = heap[b] /\ Live(heap, c) /\ h[c] = heap[c]
        BY <3>2, <1>7 DEF Live
      <4> QED  BY <4>1, <3>2 DEF Inv, TableInv, CellsDistinct
    <3> QED  BY <3>1, <3>2 DEF CellsDistinct
  <2>5. TableTyped(t)
    BY <2>1, <2>3, <1>12 DEF TableTyped
  <2>6. Ordered(users, heap) => Ordered(us, h)
    <3> SUFFICES ASSUME Ordered(users, heap) PROVE Ordered(us, h)
      OBVIOUS
    <3>1. \A j, k \in 1 .. Len(users) : j < k => heap[users[j]].id <= heap[users[k]].id
      BY <1>3 DEF Ordered
    <3>2. \A j, k \in 1 .. Len(us) : j < k => key[us[j]] <= key[us[k]]
      BY <2>1, <3>1
    <3>3. \A k \in 1 .. Len(us) : key[us[k]] = h[us[k]].id
      BY <2>2, <1>13 DEF Live
    <3> QED  BY <3>2, <3>3 DEF Ordered
  <2> QED  BY <2>1, <2>4, <2>5, <2>6, <1>1, <1>3, <1>4, <1>5, <1>6, <1>7, <1>9, <1>12, <1>14, <1>15
           DEF n, new, h, t, data
<1>16. CASE Len(users) = 3
  <2>1. us = users /\ \E k \in 1 .. 3 : heap[users[k]].id = n
    BY <1>8, <1>16
  <2>2. Full(users, h)
    BY <1>2, <1>14, <1>16 DEF TableInv, Full
  <2>3. TableTyped(t)
    BY <2>1, <2>2, <1>2, <1>12 DEF TableTyped
  <2>4. Ordered(users, heap) => Ordered(us, h)
    BY <2>1, <1>3, <1>14 DEF Ordered
  <2> QED  BY <2>1, <2>3, <2>4, <1>1, <1>3, <1>4, <1>5, <1>6, <1>7, <1>9, <1>12, <1>14, <1>16
           DEF n, new, h, t, data
<1>17. Len(users) < 3 \/ Len(users) = 3
  <2>1. \A k \in Nat : k <= 3 => k < 3 \/ k = 3
    OBVIOUS
  <2> QED  BY <2>1, NowOK
<1> QED  BY <1>15, <1>16, <1>17

\* Registering a user, in a table that is full or has room.
LEMMA AddedOK ==
  ASSUME Inv, NEW a \in Addr, Registering(a)
  PROVE  Good(Added(a, get_available_id(Now)))
<1> DEFINE n == get_available_id(Now)
           t == Enrolled(a, n)
           h == [heap EXCEPT ![a] = NewUser(n)]
           data == req_server_OKOK(n)
<1>0. LET m == get_available_id(Now)
          x == Enrolled(a, m)
      IN  /\ m \in Nat /\ NewUser(m) \in User /\ req_server_OKOK(m) \in Packet
          /\ Added(a, m) = send_to(x, a, req_server_OKOK(m))
          /\ TableTyped(x) /\ x.out = <<>> /\ ~x.bad
          /\ x.heap = [heap EXCEPT ![a] = NewUser(m)]
          /\ Live(x.heap, a) /\ x.heap[a] = NewUser(m)
          /\ \A k \in 1 .. Len(users) :
               /\ Live(heap, users[k]) /\ users[k] # a
               /\ heap[users[k]].nick # req[1] /\ heap[users[k]].path # req[2]
  BY EnrolledOK
<1>1. /\ Added(a, n) = send_to(t, a, data) /\ data \in Packet
      /\ TableTyped(t) /\ t.out = <<>> /\ ~t.bad /\ t.heap = h
      /\ Live(h, a) /\ h[a] = NewUser(n)
      /\ \A k \in 1 .. Len(users) : Live(heap, users[k]) /\ users[k] # a
  BY <1>0, Zenon
<1>2. \/ /\ Len(users) = 3 /\ t.users = users
         /\ \E k \in 1 .. 3 : heap[users[k]].id = n
      \/ /\ CellsDistinct(t.heap)
         /\ \E k \in 1 .. Len(t.users) : t.users[k] = a
  BY EnrolledOK
<1>3. TableInv(users, heap) /\ users \in Seq(Ptr) /\ heap \in Cells /\ NewUser(n).id = n
  BY NowOK DEF Inv, NewUser
<1> HIDE DEF n, t, data
<1>4. CASE CellsDistinct(t.heap) /\ \E k \in 1 .. Len(t.users) : t.users[k] = a
  <2>1. TableOK(t)
    BY <1>1, <1>4 DEF TableOK
  <2>2. Len(t.users) = 3 => \E k \in 1 .. 3 : t.heap[t.users[k]].id = t.heap[a].id
    BY <1>4
  <2>3. TableOK(send_to(t, a, data))
    BY <2>1, <2>2, <1>1, SendToOK
  <2> QED  BY <2>3, <1>1, OKIsGood DEF n
<1>5. CASE Len(users) = 3 /\ t.users = users /\ \E k \in 1 .. 3 : heap[users[k]].id = n
  <2>1. \A b \in Addr : b \in Range(users) => h[b] = heap[b]
    <3>1. \A b \in Range(users) : \E k \in 1 .. Len(users) : users[k] = b
      BY <1>3 DEF Range
    <3> QED  BY <3>1, <1>1, <1>3 DEF Cells
  <2>2. \A x : x.users = users /\ x.heap = h => Collected(x) = heap
    <3>1. \A b \in Addr : b \notin Range(users) => heap[b] = Freed
      BY <1>3 DEF TableInv, Live
    <3>2. heap = [b \in Addr |-> heap[b]]
      BY <1>3 DEF Cells
    <3> HIDE DEF h
    <3> QED  BY <3>1, <3>2, <2>1 DEF Collected
  <2>3. CASE data = NODATA
    <3>1. send_to(t, a, data) = t
      BY <2>3 DEF send_to
    <3>2. t.out \in Seq(Written)
      BY <1>1
    <3> QED  BY <3>1, <3>2, <2>2, <1>1, <1>3, <1>5 DEF Good, n
  <2>4. CASE data # NODATA /\ ~ClosedPipe(t, a)
    <3> DEFINE w == [to |-> t.heap[a].path, data |-> data]
               r == send_to(t, a, data)
    <3>1. r = [t EXCEPT !.out = Append(@, w)]
      BY <2>4 DEF send_to
    <3>2. w \in Written
      <4>1. t.heap[a] \in User
        BY <1>1 DEF TableTyped, Cells, Live
      <4> QED  BY <4>1, <1>1 DEF Written, User
    <3> HIDE DEF w, r
    <3>3. r.users = users /\ r.heap = h /\ r.out \in Seq(Written)
      <4>1. Append(t.out, w) \in Seq(Written)
        BY <3>2, <1>1
      <4> HIDE DEF h
      <4> QED  BY <4>1, <3>1, <1>1, <1>5 DEF TableTyped
    <3> QED  BY <3>3, <2>2, <1>1, <1>3 DEF Good, n, r
  <2>5. CASE data # NODATA /\ ClosedPipe(t, a)
    <3> DEFINE r == remove_user(t, a)
    <3>1. send_to(t, a, data) = r
      BY <2>5 DEF send_to
    <3>2. Len(t.users) = 3 => \E k \in 1 .. 3 : t.heap[t.users[k]].id = t.heap[a].id
      <4>1. \A k \in 1 .. 3 : h[users[k]] = heap[users[k]]
        BY <1>1, <1>3, <1>5 DEF Cells
      <4> HIDE DEF h
      <4> QED  BY <4>1, <1>1, <1>3, <1>5
    <3>3. TableTyped(r) /\ (r.bad \/ r.heap = [t.heap EXCEPT ![a] = Freed])
      <4>1. Live(t.heap, a)
        BY <1>1
      <4> QED  BY <3>2, <4>1, <1>1, RemoveUserTyped
    <3>4. [h EXCEPT ![a] = Freed] = heap
      <4>1. heap = [b \in Addr |-> heap[b]] /\ heap[a] = Freed
        BY <1>3 DEF Cells, Registering
      <4> QED  BY <4>1, <1>3 DEF h, Cells
    <3> HIDE DEF r, h
    <3>5. TableOK(r)
      BY <3>3, <3>4, <1>1, <1>3 DEF TableOK, TableInv
    <3> QED  BY <3>1, <3>5, <1>1, OKIsGood DEF n
  <2> QED  BY <2>3, <2>4, <2>5
<1> QED  BY <1>2, <1>4, <1>5

\* BYEE answers and then removes whoever has the id.
LEMMA ByeeOK ==
  ASSUME Inv, NEW id \in Ids, NEW p, Live(heap, p)
  PROVE  TableOK(Byee(id, p))
<1> DEFINE t == send_to(Now, p, req_server_BYEE(id))
           k == user_from_id(t, id)
<1>1. req_server_BYEE(id) \in Packet
  BY Packets, ServerAssumption DEF Ids
<1>2. TableOK(t)
  BY <1>1, SendNow
<1>3. Byee(id, p) = IF t.bad \/ k = 0 THEN t
                    ELSE IF BadRead(t, k) THEN [t EXCEPT !.bad = TRUE]
                    ELSE remove_user(t, t.users[k])
  BY DEF Byee
<1>4. \/ k = 0
      \/ k \in 1 .. Len(t.users) /\ (Live(t.heap, t.users[k]) => t.heap[t.users[k]].id = id)
  <2> HIDE DEF t
  <2> QED  BY <1>2, UserFromId DEF TableOK, TableTyped
<1> HIDE DEF t, k
<1>5. CASE t.bad \/ k = 0
  BY <1>2, <1>3, <1>5
<1>6. CASE ~(t.bad \/ k = 0) /\ BadRead(t, k)
  <2> DEFINE r == [t EXCEPT !.bad = TRUE]
  <2>1. /\ r \in [users : Seq(Ptr), heap : Cells, out : Seq(Written), bad : BOOLEAN]
        /\ r.users = t.users /\ r.heap = t.heap /\ r.bad
    BY <1>2 DEF TableOK, TableTyped
  <2> HIDE DEF r
  <2>2. TableOK(r)
    BY <2>1, <1>2 DEF TableOK, TableTyped
  <2> QED  BY <2>2, <1>3, <1>6 DEF r
<1>7. CASE ~(t.bad \/ k = 0) /\ ~BadRead(t, k)
  <2>1. k \in 1 .. Len(t.users) /\ Live(t.heap, t.users[k])
    BY <1>4, <1>7 DEF BadRead
  <2>2. Len(t.users) = 3 => \E j \in 1 .. 3 : t.heap[t.users[j]].id = t.heap[t.users[k]].id
    BY <2>1
  <2>3. t.users[k] \in Addr
    BY <2>1 DEF Live
  <2>4. TableOK(remove_user(t, t.users[k]))
    BY <2>1, <2>2, <2>3, <1>2, RemoveUserOK
  <2> QED  BY <2>4, <1>3, <1>7
<1> QED  BY <1>5, <1>6, <1>7

-----------------------------------------------------------------------------
\* The handler's own state, and that of the FIFOs.
LocalOK ==
  /\ pc \in {"idle", "opening", "opened", "BCST", "SHUT", "LIST"}
  /\ req \in {<<>>} \cup ((Nick \cup BadNick) \X Path)
  /\ (req # <<>>) <=> (pc \in {"opening", "opened"})
  /\ d \in Packet
  /\ i \in 0 .. 4
  /\ u \in Addr \cup {Null}
  /\ got \subseteq Addr

FifoOK == fifo \in [Path -> {"absent", "idle", "open"}]

LEMMA IdleOK ==
  ASSUME Idle
  PROVE  LocalOK'
BY Packets DEF Idle, LocalOK

LEMMA StopsOK ==
  ASSUME Stops("exited") \/ Stops("undefined"), FifoOK'
  PROVE  Inv'
<1>1. /\ phase' \in {"running", "exited", "undefined"} /\ users' = <<>>
      /\ heap' = [a \in Addr |-> Freed] /\ out' = <<>> /\ LocalOK'
  BY IdleOK DEF Stops
<1>2. TableInv(users', heap')
  <2>1. users' \in Seq(Ptr) /\ Len(users') = 0
    BY <1>1
  <2>2. heap' \in Cells /\ \A a \in Addr : ~Live(heap', a)
    BY <1>1 DEF Cells, Live
  <2> QED  BY <2>1, <2>2 DEF TableInv, Full, CellsDistinct
<1>3. out' \in Seq(Written) /\ users' \in Seq(Ptr) /\ heap' \in Cells
  BY <1>1, <1>2 DEF TableInv
<1>4. TypeOK'
  BY <1>1, <1>3 DEF TypeOK, FifoOK, LocalOK, Cells, Written
<1>5. TableInv(users, heap)'
  BY <1>2 DEF TableInv, Full, CellsDistinct, Live
<1> QED  BY <1>4, <1>5 DEF Inv
\* A handler that leaves a good table and its own state typed keeps the invariant.
LEMMA LeavesOK ==
  ASSUME Inv, NEW t, Good(t), NEW ACTION Goto, Goto => LocalOK', Leaves(t, Goto), FifoOK'
  PROVE  Inv'
<1>1. CASE t.bad
  BY <1>1, StopsOK DEF Leaves
<1>2. CASE ~t.bad
  <2>1. /\ users' = t.users /\ heap' = Collected(t) /\ out' = t.out
        /\ LocalOK' /\ phase' = phase
    BY <1>2 DEF Leaves
  <2>2. TableInv(t.users, Collected(t)) /\ t.out \in Seq(Written)
    BY <1>2 DEF Good
  <2>3. TableInv(users, heap)'
    BY <2>1, <2>2 DEF TableInv, Full, CellsDistinct, Live
  <2>4. users' \in Seq(Ptr) /\ heap' \in Cells /\ out' \in Seq(Written)
    BY <2>1, <2>2 DEF TableInv
  <2>5. TypeOK'
    BY <2>1, <2>4 DEF TypeOK, FifoOK, LocalOK, Cells, Written, Inv
  <2> QED  BY <2>3, <2>5 DEF Inv
<1> QED  BY <1>1, <1>2

\* A step that leaves the table and the memory alone.
LEMMA SameTable ==
  ASSUME Inv, UNCHANGED <<phase, users, heap>>, out' = <<>>, FifoOK', LocalOK'
  PROVE  Inv'
<1>1. TableInv(users, heap)'
  BY DEF Inv, TableInv, Full, CellsDistinct, Live
<1>2. TypeOK'
  BY DEF Inv, TypeOK, FifoOK, LocalOK
<1> QED  BY <1>1, <1>2 DEF Inv

\* A slot that can be read holds a user.
LEMMA SenderLive ==
  ASSUME Inv, NEW k \in Nat, k = 0 \/ k \in 1 .. Len(users), k # 0, ~BadRead(Now, k)
  PROVE  /\ Live(heap, users[k]) /\ users[k] \in Addr
         /\ heap[users[k]] \in User /\ heap[users[k]].nick \in Nick
<1>1. Live(heap, users[k])
  BY DEF BadRead, Now
<1> QED  BY <1>1, NowOK DEF User

-----------------------------------------------------------------------------
LEMMA InitInv == Init => Inv
<1> SUFFICES ASSUME Init PROVE Inv
  OBVIOUS
<1>1. users \in Seq(Ptr) /\ Len(users) = 0
  BY DEF Init
<1>2. heap \in Cells /\ \A a \in Addr : ~Live(heap, a)
  BY DEF Init, Cells, Live
<1>3. TableInv(users, heap)
  BY <1>1, <1>2 DEF TableInv, Full, CellsDistinct
<1>4. TypeOK
  BY <1>1, <1>2, Packets DEF Init, TypeOK, Cells
<1> QED  BY <1>3, <1>4 DEF Inv

\* One step per action.
LEMMA NextInv == Inv /\ [Next]_vars => Inv'
<1> SUFFICES ASSUME Inv, [Next]_vars PROVE Inv'
  OBVIOUS
<1>1. FifoOK /\ LocalOK
  BY DEF Inv, TypeOK, FifoOK, LocalOK
<1>2. fifo' = fifo => FifoOK'
  BY <1>1 DEF FifoOK
<1>3. \A k : BadRead(Now, k) => k # 0
  BY DEF BadRead
<1>4. \A id : user_from_id(Now, id) \in Nat
              /\ (user_from_id(Now, id) = 0 \/ user_from_id(Now, id) \in 1 .. Len(users))
  BY NowOK, UserFromId
<1>5. \A nick : user_from_nick(Now, nick) \in Nat
                /\ (user_from_nick(Now, nick) = 0 \/ user_from_nick(Now, nick) \in 1 .. Len(users))
  BY NowOK, UserFromNick
<1>6. Good(Now)
  BY NowOK, OKIsGood
<1>7. ASSUME NEW nick \in Nick \cup BadNick, NEW path \in Path, HELO(nick, path)
      PROVE  Inv'
  <2>1. LocalOK' /\ FifoOK'
    BY <1>1, <1>7 DEF HELO, LocalOK, FifoOK
  <2> QED  BY <2>1, <1>7, SameTable DEF HELO
<1>8. ASSUME OpenReturns
      PROVE  Inv'
  <2>1. LocalOK' /\ FifoOK'
    BY <1>1, <1>8 DEF OpenReturns, LocalOK, FifoOK
  <2> QED  BY <2>1, <1>8, SameTable DEF OpenReturns
<1>9. ASSUME Refuse
      PROVE  Inv'
  <2>1. Good(Refused)
    <3> DEFINE To(data) == [to |-> req[2], data |-> data]
    <3>1. req \in (Nick \cup BadNick) \X Path
      BY <1>1, <1>9 DEF Refuse, LocalOK
    <3>2. req_server_BADD \in Packet /\ req_server_BCST("SERVER", TRUE) \in Packet
      BY Packets
    <3>3. To(req_server_BADD) \in Written /\ To(req_server_BCST("SERVER", TRUE)) \in Written
      BY <3>1, <3>2 DEF Written
    <3> DEFINE o == IF fifo[req[2]] = "open"
                    THEN <<To(req_server_BADD), To(req_server_BCST("SERVER", TRUE))>>
                    ELSE <<>>
    <3>4. o \in Seq(Written)
      BY <3>3
    <3>5. Refused = [Now EXCEPT !.out = o]
      BY DEF Refused
    <3> HIDE DEF o
    <3>6. Refused \in [users : Seq(Ptr), heap : Cells, out : Seq(Written), bad : BOOLEAN]
          /\ Refused.users = users /\ Refused.heap = heap
      BY <3>4, <3>5, NowOK DEF TableOK, TableTyped
    <3>7. TableOK(Refused)
      BY <3>6, NowOK DEF TableOK, TableTyped
    <3> QED  BY <3>7, OKIsGood
  <2>2. fifo' = fifo /\ (Stops("undefined") \/ Leaves(Refused, Idle))
    BY <1>9 DEF Refuse
  <2> QED  BY <2>1, <2>2, <1>2, IdleOK, StopsOK, LeavesOK
<1>10. ASSUME NEW a \in Addr, Register(a)
       PROVE  Inv'
  <2>1. Good(Added(a, get_available_id(Now)))
    BY <1>10, AddedOK DEF Register, Registering
  <2>2. fifo' = fifo /\ Leaves(Added(a, get_available_id(Now)), Idle)
    BY <1>10 DEF Register
  <2> QED  BY <2>1, <2>2, <1>2, IdleOK, LeavesOK
<1>11. ASSUME NEW id \in Ids, BYEE(id)
       PROVE  Inv'
  <2> DEFINE k == user_from_id(Now, id)
  <2>1. /\ k # 0 /\ fifo' = fifo
        /\ IF BadRead(Now, k) THEN Stops("undefined") ELSE Leaves(Byee(id, users[k]), Idle)
    BY <1>11 DEF BYEE, From, Sender
  <2>2. ASSUME ~BadRead(Now, k) PROVE Good(Byee(id, users[k]))
    <3>1. Live(heap, users[k])
      BY <2>1, <2>2, <1>4, SenderLive
    <3> QED  BY <3>1, ByeeOK, OKIsGood
  <2> QED  BY <2>1, <2>2, <1>2, IdleOK, StopsOK, LeavesOK
<1>12. ASSUME NEW id \in Ids, NEW fits \in BOOLEAN, BCST(id, fits)
       PROVE  Inv'
  <2> DEFINE k == user_from_id(Now, id)
             packet == req_server_BCST(heap[users[k]].nick, fits)
  <2>1. /\ k # 0 /\ fifo' = fifo /\ pc = "idle"
        /\ IF BadRead(Now, k) THEN Stops("undefined")
           ELSE Leaves(Now, StartBroadcast("BCST", packet))
    BY <1>12 DEF BCST, From, Sender, Request
  <2>2. ASSUME ~BadRead(Now, k), StartBroadcast("BCST", packet) PROVE LocalOK'
    <3>1. packet \in Packet
      BY <2>1, <2>2, <1>4, SenderLive, Packets
    <3> QED  BY <3>1, <2>1, <2>2, <1>1 DEF StartBroadcast, LocalOK
  <2> QED  BY <2>1, <2>2, <1>2, <1>6, StopsOK, LeavesOK
<1>13. ASSUME NEW id \in Ids, NEW nick \in Nick, NEW fits \in BOOLEAN, PRVT(id, nick, fits)
       PROVE  Inv'
  <2> DEFINE j == user_from_id(Now, id)
             k == user_from_nick(Now, nick)
             t == IF k # 0
                  THEN send_to(Now, users[k], req_server_PRVT(heap[users[j]].nick, fits))
                  ELSE send_to(Now, users[j], req_server_BCST("SERVER", TRUE))
  <2>1. /\ j # 0 /\ fifo' = fifo
        /\ IF BadRead(Now, j) \/ BadRead(Now, k) THEN Stops("undefined") ELSE Leaves(t, Idle)
    BY <1>13 DEF PRVT, From, Sender
  <2>2. ASSUME ~BadRead(Now, j), ~BadRead(Now, k) PROVE Good(t)
    <3>1. Live(heap, users[j]) /\ heap[users[j]].nick \in Nick
      BY <2>1, <2>2, <1>4, SenderLive
    <3>2. k # 0 => Live(heap, users[k])
      BY <2>2, <1>5, SenderLive
    <3>3. /\ req_server_PRVT(heap[users[j]].nick, fits) \in Packet
          /\ req_server_BCST("SERVER", TRUE) \in Packet
      BY <3>1, Packets
    <3>4. TableOK(t)
      BY <3>1, <3>2, <3>3, SendNow
    <3> QED  BY <3>4, OKIsGood
  <2> HIDE DEF t
  <2> QED  BY <2>1, <2>2, <1>2, IdleOK, StopsOK, LeavesOK
<1>14. ASSUME NEW id \in Ids, LIST(id)
       PROVE  Inv'
  <2> DEFINE k == user_from_id(Now, id)
             goto == pc' = "LIST" /\ i' = 1 /\ u' = users[k] /\ UNCHANGED <<req, d, got>>
  <2>1. /\ k # 0 /\ fifo' = fifo /\ pc = "idle"
        /\ IF BadRead(Now, k) THEN Stops("undefined") ELSE Leaves(Now, goto)
    BY <1>14 DEF LIST, From, Sender, Request
  <2>2. ASSUME ~BadRead(Now, k), goto PROVE LocalOK'
    <3>1. users[k] \in Addr
      BY <2>1, <2>2, <1>4, SenderLive
    <3> QED  BY <3>1, <2>1, <2>2, <1>1 DEF LocalOK
  <2> HIDE DEF goto
  <2> QED  BY <2>1, <2>2, <1>2, <1>6, StopsOK, LeavesOK
<1>15. ASSUME NEW id \in 0 .. MAX_NUM + 1, SHUT(id)
       PROVE  Inv'
  <2> DEFINE k == user_from_id(Now, id)
             packet == req_server_SHUT(IF k = 0 THEN Null ELSE heap[users[k]].nick)
  <2>1. /\ fifo' = fifo /\ pc = "idle"
        /\ IF BadRead(Now, k) THEN Stops("undefined")
           ELSE Leaves(Now, StartBroadcast("SHUT", packet))
    BY <1>15 DEF SHUT, Request
  <2>2. ASSUME ~BadRead(Now, k), StartBroadcast("SHUT", packet) PROVE LocalOK'
    <3>1. packet \in Packet
      BY <2>2, <1>4, SenderLive, Packets
    <3> QED  BY <3>1, <2>1, <2>2, <1>1 DEF StartBroadcast, LocalOK
  <2> QED  BY <2>1, <2>2, <1>2, <1>6, StopsOK, LeavesOK
<1>16. ASSUME ReadFails
       PROVE  Inv'
  BY <1>16, <1>2, StopsOK DEF ReadFails, server_end
<1>17. \A k \in DOMAIN users : k \in 1 .. 3
  BY NowOK
<1>18. ASSUME Broadcast
       PROVE  Inv'
  <2> DEFINE p == users[i]
             goto == /\ IF d # NODATA /\ ClosedPipe(Now, p)
                        THEN UNCHANGED <<i, got>>
                        ELSE i' = i + 1 /\ got' = got \cup {p}
                     /\ UNCHANGED <<pc, req, d, u>>
  <2>1. /\ i \in DOMAIN users /\ fifo' = fifo
        /\ IF ~Live(heap, p) THEN Stops("undefined")
           ELSE Leaves(send_to(Now, p, d), goto)
    BY <1>18 DEF Broadcast
  <2>2. ASSUME Live(heap, p) PROVE Good(send_to(Now, p, d))
    <3>1. d \in Packet
      BY <1>1 DEF LocalOK
    <3> QED  BY <3>1, <2>2, SendNow, OKIsGood
  <2>3. ASSUME Live(heap, p), goto PROVE LocalOK'
    <3>1. i \in 1 .. 3 /\ p \in Addr
      BY <2>1, <2>3, <1>17 DEF Live
    <3> QED  BY <3>1, <2>3, <1>1 DEF LocalOK
  <2> HIDE DEF goto
  <2> QED  BY <2>1, <2>2, <2>3, <1>2, StopsOK, LeavesOK
<1>19. ASSUME BroadcastEnds
       PROVE  Inv'
  <2>1. fifo' = fifo /\ (Stops("exited") \/ Stops("undefined") \/ Leaves(Now, Idle))
    BY <1>19 DEF BroadcastEnds, server_end
  <2> QED  BY <2>1, <1>2, <1>6, IdleOK, StopsOK, LeavesOK
<1>20. ASSUME ListOne
       PROVE  Inv'
  <2> DEFINE cl == users[i]
             packet == req_server_LIST(Len(users), heap[cl].nick)
             t == send_to(Now, u, packet)
             goto == i' = i + 1 /\ UNCHANGED <<pc, req, d, u, got>>
  <2>1. /\ i \in DOMAIN users /\ fifo' = fifo
        /\ IF ~Live(heap, cl) \/ ~Live(heap, u) THEN Stops("undefined") ELSE Leaves(t, goto)
    BY <1>20 DEF ListOne
  <2>2. ASSUME Live(heap, cl), Live(heap, u) PROVE Good(t)
    <3>1. packet \in Packet
      BY <2>2, NowOK, Packets DEF User
    <3>2. TableOK(t)
      BY <2>2, <3>1, SendNow, NowOK
    <3> QED  BY <3>2, OKIsGood
  <2>3. ASSUME goto PROVE LocalOK'
    <3>1. i \in 1 .. 3
      BY <2>1, <1>17
    <3> QED  BY <3>1, <2>3, <1>1 DEF LocalOK
  <2> HIDE DEF goto, t
  <2> QED  BY <2>1, <2>2, <2>3, <1>2, StopsOK, LeavesOK
<1>21. ASSUME ListEnds
       PROVE  Inv'
  BY <1>21, <1>2, <1>6, IdleOK, LeavesOK DEF ListEnds
<1>22. ASSUME NEW path \in Path, Client(path)
       PROVE  Inv'
  <2>1. PICK from, to \in {"absent", "idle", "open"} : Fifo(path, from, to)
    BY <1>22 DEF Client, MakeFifo, StartReading, StopReading, Unlink
  <2>2. LocalOK' /\ FifoOK'
    BY <2>1, <1>1 DEF Fifo, LocalOK, FifoOK
  <2> QED  BY <2>1, <2>2, SameTable DEF Fifo
<1>23. CASE UNCHANGED vars
  <2>1. TableInv(users, heap)'
    BY <1>23 DEF vars, Inv, TableInv, Full, CellsDistinct, Live
  <2>2. TypeOK'
    BY <1>23 DEF vars, Inv, TypeOK
  <2> QED  BY <2>1, <2>2 DEF Inv
<1>24. CASE Receive
  BY <1>24, <1>7, <1>11, <1>12, <1>13, <1>14, <1>15, <1>16 DEF Receive
<1>25. CASE Serve
  BY <1>25, <1>8, <1>9, <1>10, <1>18, <1>19, <1>20, <1>21 DEF Serve
<1> QED  BY <1>22, <1>23, <1>24, <1>25 DEF Next

-----------------------------------------------------------------------------
\* The invariant holds of every behaviour.
THEOREM Invariant == Spec => []Inv
<1>1. Init => Inv
  BY InitInv
<1>2. Inv /\ [Next]_vars => Inv'
  BY NextInv
<1> QED  BY <1>1, <1>2, PTL DEF Spec

\* Type correctness of the server, for any clients, cells and bounds on the numbers.
THEOREM TypeCorrect == Spec => []TypeOK
<1>1. Inv => TypeOK
  BY DEF Inv
<1> QED  BY <1>1, Invariant, PTL

\* However large MAX_USERS is, and wherever malloc puts the users, the server never
\* holds more than three: with three, the id on offer is one of theirs.
THEOREM NeverAFourth == Spec => []AtMostThree
<1>1. Inv => AtMostThree
  BY DEF Inv, TableInv, AtMostThree
<1> QED  BY <1>1, Invariant, PTL

\* No two users the table reaches share an id, a nick or a FIFO, whatever removals
\* have lost, duplicated or mixed the slots.
THEOREM UsersAreDistinct == Spec => []DistinctUsers
<1>1. Inv => DistinctUsers
  BY DEF Inv, TableInv, CellsDistinct, DistinctUsers, Online, Live
<1> QED  BY <1>1, Invariant, PTL

-----------------------------------------------------------------------------
(* What a step does to the table.                                           *)

\* The tables a handler other than that of BYEE can leave; OKOK is written only when a
\* user is added.
Served(t) ==
  \/ /\ t.users = users /\ t.heap = heap /\ ~t.bad
     /\ t.out \in Seq(Written) /\ \A k \in DOMAIN t.out : t.out[k].data[1] \notin {"OKOK", "BYEE"}
  \/ \E p, data :
       /\ Live(heap, p) /\ data \in Packet /\ (data = NODATA \/ data[1] \notin {"OKOK", "BYEE"})
       /\ t = send_to(Now, p, data)
  \/ \E a \in Addr :
       /\ Registering(a)
       /\ t = Added(a, get_available_id(Now))

\* The tables the handler of BYEE can leave.
ByeeServed(id, t) == \E p : Live(heap, p) /\ heap[p].id = id /\ t = Byee(id, p)

\* The handler ends, or goes on, with table t.
Left(t) ==
  ~t.bad /\ phase' = phase /\ users' = t.users /\ heap' = Collected(t) /\ out' = t.out

\* Why a handler can end up reading or freeing what it should not.
Broken ==
  \/ \E k \in 1 .. Len(users) : ~Live(heap, users[k])
  \/ ~IsInjective(users)
  \/ \E t : Served(t) /\ t.bad
  \/ \E id \in Ids : \E t : ByeeServed(id, t) /\ t.bad
  \/ pc = "LIST" /\ i \in DOMAIN users /\ ~Live(heap, u)

SameUsers == UNCHANGED <<phase, users, heap>> /\ (out' = <<>> \/ UNCHANGED vars)

Step ==
  \/ SameUsers
  \/ Stops("exited")
  \/ Stops("undefined") /\ Broken
  \/ \E t : Served(t) /\ Left(t)
  \/ \E id \in Ids : \E t : BYEE(id) /\ ByeeServed(id, t) /\ Left(t)

LEMMA LeavesStep ==
  ASSUME NEW t, Served(t), NEW ACTION Goto, Leaves(t, Goto)
  PROVE  Step
<1>1. CASE t.bad
  BY <1>1 DEF Leaves, Step, Broken
<1>2. CASE ~t.bad
  BY <1>2 DEF Leaves, Step, Left
<1> QED  BY <1>1, <1>2

LEMMA EndStep ==
  ASSUME Inv, server_end
  PROVE  Step
<1>1. DOMAIN users = 1 .. Len(users)
  BY NowOK
<1>2. Stops("exited") \/ (Stops("undefined") /\ Broken)
  <2>1. CASE IsInjective(users) /\ \A k \in DOMAIN users : Live(heap, users[k])
    BY <2>1 DEF server_end
  <2>2. CASE ~(IsInjective(users) /\ \A k \in DOMAIN users : Live(heap, users[k]))
    <3>1. Stops("undefined")
      BY <2>2 DEF server_end
    <3>2. Broken
      BY <1>1, <2>2, Zenon DEF Broken
    <3> QED  BY <3>1, <3>2
  <2> QED  BY <2>1, <2>2
<1> QED  BY <1>2 DEF Step

LEMMA NowServed == ASSUME Inv PROVE Served(Now)
<1>1. Now.users = users /\ Now.heap = heap /\ Now.out = <<>> /\ ~Now.bad
  BY NowOK
<1>2. Now.out \in Seq(Written) /\ \A k \in DOMAIN Now.out : Now.out[k].data[1] \notin {"OKOK", "BYEE"}
  BY <1>1
<1> QED  BY <1>1, <1>2 DEF Served

\* Packets other than OKOK.
LEMMA NotOkok ==
  /\ \A nick, fits : req_server_BCST(nick, fits) = NODATA \/ req_server_BCST(nick, fits)[1] \notin {"OKOK", "BYEE"}
  /\ \A nick, fits : req_server_PRVT(nick, fits) = NODATA \/ req_server_PRVT(nick, fits)[1] \notin {"OKOK", "BYEE"}
  /\ \A n, nick : req_server_LIST(n, nick)[1] \notin {"OKOK", "BYEE"}
  /\ \A nick : req_server_SHUT(nick) = NODATA \/ req_server_SHUT(nick)[1] \notin {"OKOK", "BYEE"}
  /\ req_server_BADD[1] \notin {"OKOK", "BYEE"}
BY DEF req_server_BYEE, req_server_BCST, req_server_PRVT, req_server_LIST, req_server_SHUT,
       req_server_BADD, Numbered

\* What a broadcast writes is not OKOK.
BroadcastsOther == d = NODATA \/ d[1] \notin {"OKOK", "BYEE"}

LEMMA NextStep ==
  ASSUME Inv, BroadcastsOther, [Next]_vars
  PROVE  Step
<1>1. \A k : BadRead(Now, k) => k # 0 /\ ~Live(heap, users[k])
  BY NowOK DEF BadRead
<1>2. \A id : user_from_id(Now, id) \in Nat
              /\ (user_from_id(Now, id) = 0 \/ user_from_id(Now, id) \in 1 .. Len(users))
  BY NowOK, UserFromId
<1>3. \A nick : user_from_nick(Now, nick) \in Nat
                /\ (user_from_nick(Now, nick) = 0 \/ user_from_nick(Now, nick) \in 1 .. Len(users))
  BY NowOK, UserFromNick
<1>4. \A k \in 1 .. Len(users) : ~Live(heap, users[k]) => Broken
  BY DEF Broken
<1>5. Served(Now)
  BY NowServed
<1>6. ASSUME NEW id, BadRead(Now, user_from_id(Now, id)) PROVE Broken
  BY <1>1, <1>2, <1>4, <1>6
<1>7. ASSUME NEW nick, BadRead(Now, user_from_nick(Now, nick)) PROVE Broken
  BY <1>1, <1>3, <1>4, <1>7
<1>8. ASSUME NEW id, user_from_id(Now, id) # 0, ~BadRead(Now, user_from_id(Now, id))
      PROVE  LET p == users[user_from_id(Now, id)]
             IN  Live(heap, p) /\ heap[p].id = id /\ heap[p].nick \in Nick
  <2>1. Live(heap, users[user_from_id(Now, id)]) /\ heap[users[user_from_id(Now, id)]].nick \in Nick
    BY <1>2, <1>8, SenderLive
  <2> QED  BY <2>1, <1>8, NowOK, UserFromId
<1>9. ASSUME NEW nick \in Nick \cup BadNick, NEW path \in Path, HELO(nick, path)
      PROVE  Step
  BY <1>9 DEF HELO, Step, SameUsers
<1>10. ASSUME OpenReturns PROVE Step
  BY <1>10 DEF OpenReturns, Step, SameUsers
<1>11. ASSUME Refuse PROVE Step
  <2>1. Served(Refused)
    <3> DEFINE To(data) == [to |-> req[2], data |-> data]
               o == IF fifo[req[2]] = "open"
                    THEN <<To(req_server_BADD), To(req_server_BCST("SERVER", TRUE))>>
                    ELSE <<>>
    <3>1. req \in (Nick \cup BadNick) \X Path
      BY <1>11 DEF Refuse, Inv, TypeOK
    <3>2. /\ req_server_BADD \in Packet /\ req_server_BADD[1] \notin {"OKOK", "BYEE"}
          /\ req_server_BCST("SERVER", TRUE) \in Packet /\ req_server_BCST("SERVER", TRUE)[1] \notin {"OKOK", "BYEE"}
      BY Packets DEF req_server_BADD, req_server_BCST
    <3>3. To(req_server_BADD) \in Written /\ To(req_server_BCST("SERVER", TRUE)) \in Written
      BY <3>1, <3>2 DEF Written
    <3>4. o \in Seq(Written) /\ \A k \in DOMAIN o : o[k].data[1] \notin {"OKOK", "BYEE"}
      <4> DEFINE b == To(req_server_BADD)
                 c == To(req_server_BCST("SERVER", TRUE))
      <4>1. b.data[1] \notin {"OKOK", "BYEE"} /\ c.data[1] \notin {"OKOK", "BYEE"}
        BY <3>2
      <4> HIDE DEF b, c
      <4>2. b \in Written /\ c \in Written => <<b, c>> \in Seq(Written)
        OBVIOUS
      <4>3. \A k \in DOMAIN <<b, c>> : <<b, c>>[k].data[1] \notin {"OKOK", "BYEE"}
        BY <4>1
      <4>4. <<>> \in Seq(Written) /\ DOMAIN <<>> = {}
        OBVIOUS
      <4>5. o = <<b, c>> \/ o = <<>>
        BY DEF b, c
      <4> HIDE DEF o
      <4> QED  BY <3>3, <4>2, <4>3, <4>4, <4>5 DEF b, c
    <3>5. Refused = [Now EXCEPT !.out = o]
      BY DEF Refused
    <3> HIDE DEF o
    <3>6. Refused.users = users /\ Refused.heap = heap /\ Refused.out = o /\ ~Refused.bad
      BY <3>4, <3>5, NowOK DEF TableOK, TableTyped
    <3> QED  BY <3>4, <3>6 DEF Served
  <2>2. cred_conflict(Now, req[1], req[2]) = 0
        \/ cred_conflict(Now, req[1], req[2]) \in 1 .. Len(users)
    BY NowOK, ConflictSlot
  <2>3. \/ Stops("undefined") /\ BadRead(Now, cred_conflict(Now, req[1], req[2]))
        \/ Leaves(Refused, Idle)
    BY <1>11 DEF Refuse
  <2>4. CASE Stops("undefined") /\ BadRead(Now, cred_conflict(Now, req[1], req[2]))
    BY <2>2, <2>4, <1>1, <1>4 DEF Step
  <2> QED  BY <2>1, <2>3, <2>4, LeavesStep
<1>12. ASSUME NEW a \in Addr, Register(a) PROVE Step
  <2>1. Served(Added(a, get_available_id(Now)))
    BY <1>12 DEF Register, Registering, Served
  <2> QED  BY <2>1, <1>12, LeavesStep DEF Register
<1>13. ASSUME NEW id \in Ids, BYEE(id) PROVE Step
  <2> DEFINE k == user_from_id(Now, id)
  <2>1. k # 0 /\ IF BadRead(Now, k) THEN Stops("undefined") ELSE Leaves(Byee(id, users[k]), Idle)
    BY <1>13 DEF BYEE, From, Sender
  <2>2. CASE BadRead(Now, k)
    BY <2>1, <2>2, <1>6 DEF Step
  <2>3. CASE ~BadRead(Now, k)
    <3> DEFINE t == Byee(id, users[k])
    <3>1. ByeeServed(id, t)
      BY <2>1, <2>3, <1>8 DEF ByeeServed
    <3> HIDE DEF t
    <3>2. IF t.bad THEN Stops("undefined") ELSE Left(t)
      BY <2>1, <2>3 DEF Leaves, Left, t
    <3> QED  BY <3>1, <3>2, <1>13 DEF Step, Broken
  <2> QED  BY <2>2, <2>3
<1>14. ASSUME NEW id \in Ids, NEW fits \in BOOLEAN, BCST(id, fits) PROVE Step
  <2> DEFINE k == user_from_id(Now, id)
             packet == req_server_BCST(heap[users[k]].nick, fits)
  <2>1. IF BadRead(Now, k) THEN Stops("undefined")
        ELSE Leaves(Now, StartBroadcast("BCST", packet))
    BY <1>14 DEF BCST, From, Sender
  <2> QED  BY <2>1, <1>5, <1>6, LeavesStep DEF Step
<1>15. ASSUME NEW id \in Ids, NEW nick \in Nick, NEW fits \in BOOLEAN, PRVT(id, nick, fits) PROVE Step
  <2> DEFINE j == user_from_id(Now, id)
             k == user_from_nick(Now, nick)
             private == req_server_PRVT(heap[users[j]].nick, fits)
             t == IF k # 0 THEN send_to(Now, users[k], private)
                  ELSE send_to(Now, users[j], req_server_BCST("SERVER", TRUE))
  <2>1. /\ j # 0
        /\ IF BadRead(Now, j) \/ BadRead(Now, k) THEN Stops("undefined") ELSE Leaves(t, Idle)
    BY <1>15 DEF PRVT, From, Sender
  <2>2. ASSUME ~BadRead(Now, j), ~BadRead(Now, k) PROVE Served(t)
    <3>1. Live(heap, users[j]) /\ heap[users[j]].nick \in Nick
      BY <2>1, <2>2, <1>8
    <3>2. k # 0 => Live(heap, users[k])
      BY <2>2, <1>3, SenderLive
    <3>3. /\ private \in Packet /\ (private = NODATA \/ private[1] \notin {"OKOK", "BYEE"})
          /\ req_server_BCST("SERVER", TRUE) \in Packet
          /\ (req_server_BCST("SERVER", TRUE) = NODATA \/ req_server_BCST("SERVER", TRUE)[1] \notin {"OKOK", "BYEE"})
      BY <3>1, Packets, NotOkok
    <3> HIDE DEF private, j, k
    <3>4. CASE k # 0
      BY <3>2, <3>3, <3>4 DEF Served
    <3>5. CASE k = 0
      BY <3>1, <3>3, <3>5 DEF Served
    <3> QED  BY <3>4, <3>5
  <2> HIDE DEF t
  <2>3. CASE BadRead(Now, j) \/ BadRead(Now, k)
    BY <2>1, <2>3, <1>6, <1>7 DEF Step
  <2>4. CASE ~(BadRead(Now, j) \/ BadRead(Now, k))
    BY <2>1, <2>2, <2>4, LeavesStep
  <2> QED  BY <2>3, <2>4
<1>16. ASSUME NEW id \in Ids, LIST(id) PROVE Step
  <2> DEFINE goto == pc' = "LIST" /\ i' = 1 /\ u' = Sender(id) /\ UNCHANGED <<req, d, got>>
  <2>1. IF BadRead(Now, user_from_id(Now, id)) THEN Stops("undefined") ELSE Leaves(Now, goto)
    BY <1>16 DEF LIST, From
  <2> HIDE DEF goto
  <2> QED  BY <2>1, <1>5, <1>6, LeavesStep DEF Step
<1>17. ASSUME NEW id \in 0 .. MAX_NUM + 1, SHUT(id) PROVE Step
  <2> DEFINE k == user_from_id(Now, id)
             packet == req_server_SHUT(IF k = 0 THEN Null ELSE heap[users[k]].nick)
  <2>1. IF BadRead(Now, k) THEN Stops("undefined") ELSE Leaves(Now, StartBroadcast("SHUT", packet))
    BY <1>17 DEF SHUT
  <2> QED  BY <2>1, <1>5, <1>6, LeavesStep DEF Step
<1>18. ASSUME ReadFails PROVE Step
  BY <1>18, EndStep DEF ReadFails
<1>19. ASSUME Broadcast PROVE Step
  <2> DEFINE p == users[i]
             goto == /\ IF d # NODATA /\ ClosedPipe(Now, p)
                        THEN UNCHANGED <<i, got>>
                        ELSE i' = i + 1 /\ got' = got \cup {p}
                     /\ UNCHANGED <<pc, req, d, u>>
  <2>1. /\ i \in 1 .. Len(users)
        /\ IF ~Live(heap, p) THEN Stops("undefined") ELSE Leaves(send_to(Now, p, d), goto)
    <3>1. DOMAIN users = 1 .. Len(users)
      BY NowOK
    <3> QED  BY <1>19, <3>1 DEF Broadcast
  <2>2. ASSUME Live(heap, p) PROVE Served(send_to(Now, p, d))
    BY <2>2 DEF Served, BroadcastsOther, Inv, TypeOK
  <2> HIDE DEF goto
  <2> QED  BY <2>1, <2>2, <1>4, LeavesStep DEF Step
<1>20. ASSUME BroadcastEnds PROVE Step
  BY <1>20, <1>5, EndStep, LeavesStep DEF BroadcastEnds
<1>21. ASSUME ListOne PROVE Step
  <2> DEFINE cl == users[i]
             packet == req_server_LIST(Len(users), heap[cl].nick)
             t == send_to(Now, u, packet)
             goto == i' = i + 1 /\ UNCHANGED <<pc, req, d, u, got>>
  <2>1. /\ i \in 1 .. Len(users) /\ pc = "LIST" /\ i \in DOMAIN users
        /\ IF ~Live(heap, cl) \/ ~Live(heap, u) THEN Stops("undefined") ELSE Leaves(t, goto)
    BY <1>21, NowOK DEF ListOne
  <2>2. ASSUME Live(heap, cl), Live(heap, u) PROVE Served(t)
    <3>1. packet \in Packet /\ packet[1] \notin {"OKOK", "BYEE"}
      BY <2>2, NowOK, Packets, NotOkok DEF User
    <3> QED  BY <2>2, <3>1 DEF Served
  <2> HIDE DEF goto, t
  <2>3. CASE ~Live(heap, cl) \/ ~Live(heap, u)
    <3>1. Broken
      BY <2>1, <2>3, <1>4 DEF Broken
    <3> QED  BY <2>1, <2>3, <3>1 DEF Step
  <2>4. CASE Live(heap, cl) /\ Live(heap, u)
    BY <2>1, <2>2, <2>4, LeavesStep
  <2> QED  BY <2>3, <2>4
<1>22. ASSUME ListEnds PROVE Step
  BY <1>22, <1>5, LeavesStep DEF ListEnds
<1>23. ASSUME NEW path \in Path, Client(path) PROVE Step
  BY <1>23 DEF Client, MakeFifo, StartReading, StopReading, Unlink, Fifo, Step, SameUsers
<1>24. CASE UNCHANGED vars
  BY <1>24 DEF vars, Step, SameUsers
<1>25. CASE Receive
  BY <1>25, <1>9, <1>13, <1>14, <1>15, <1>16, <1>17, <1>18 DEF Receive
<1>26. CASE Serve
  BY <1>26, <1>10, <1>11, <1>12, <1>19, <1>20, <1>21, <1>22 DEF Serve
<1> QED  BY <1>23, <1>24, <1>25, <1>26 DEF Next

-----------------------------------------------------------------------------
(* The order of the table.                                                  *)

\* A removal from a table of at most three changes the slot removed and no other.
LEMMA RemoveSlots ==
  ASSUME NEW s \in Seq(Ptr), Len(s) <= 3, NEW n \in 1 .. Len(s)
  PROVE  LET r == arlist_remove(s, n)
         IN  /\ r \in Seq(Ptr) /\ Len(r) = Len(s) - 1
             /\ \A j \in 1 .. Len(s) - 1 :
                  r[j] = IF j = n THEN Mix(s[n], s[n + 1], Len(s) - n + 1) ELSE s[j]
<1> DEFINE r == arlist_remove(s, n)
<1>1. r \in Seq(Ptr) /\ Len(r) = Len(s) - 1
  BY RemoveType
<1>2. s # <<>>
  OBVIOUS
<1>3. CASE n = Len(s)
  <2>1. r = Front(s)
    BY <1>3 DEF arlist_remove, arlist_pop
  <2>2. \A j \in 1 .. Len(s) - 1 : Front(s)[j] = s[j]
    BY <1>2, FrontOf
  <2> QED  BY <1>1, <1>3, <2>1, <2>2
<1>4. CASE n # Len(s)
  <2> DEFINE m == memmove(s, n, n + 1, Len(s) - n + 1)
  <2>1. r = Front(m)
    BY <1>4 DEF arlist_remove
  <2>2. m[n] = Mix(s[n], s[n + 1], Len(s) - n + 1)
    <3>1. PtrSize * (n - n) = 0
      BY PtrSizeAssumption
    <3> QED  BY <3>1 DEF memmove
  <2>3. ASSUME NEW j \in 1 .. Len(s), j # n PROVE m[j] = s[j]
    <3>1. CASE j < n
      BY <3>1 DEF memmove
    <3>2. CASE j > n
      <4> DEFINE x == j - n
                 k == (Len(s) - n + 1) - PtrSize * (j - n)
      <4>1. x \in Nat /\ x >= 1
        BY <3>2
      <4>2. PtrSize * x >= PtrSize
        <5> HIDE DEF x
        <5> QED  BY <4>1, PtrSizeAssumption
      <4>3. ~(k > 0)
        BY <4>2, PtrSizeAssumption
      <4>4. m[j] = IF j >= n /\ k > 0 THEN Mix(s[j], s[j - n + (n + 1)], k) ELSE s[j]
        BY DEF memmove
      <4> HIDE DEF k, m
      <4> QED  BY <4>3, <4>4
    <3> QED  BY <2>3, <3>1, <3>2
  <2>4. m = [j \in 1 .. Len(s) |-> m[j]]
    BY DEF memmove
  <2>5. m[n] \in Ptr
    <3>1. s[n] \in Ptr /\ s[n + 1] \in Ptr /\ Len(s) - n + 1 \in Int
      BY <1>4
    <3> QED  BY <2>2, <3>1, MixType
  <2> HIDE DEF m
  <2>6. m \in Seq(Ptr) /\ Len(m) = Len(s)
    <3>1. \A j \in 1 .. Len(s) : m[j] \in Ptr
      BY <2>3, <2>5
    <3> QED  BY <2>4, <3>1
  <2>7. \A j \in 1 .. Len(s) - 1 : r[j] = m[j]
    <3>1. m # <<>>
      BY <2>6, <1>2
    <3> QED  BY <2>1, <2>6, <3>1, FrontOf
  <2> QED  BY <1>1, <2>2, <2>3, <2>7
<1> QED  BY <1>3, <1>4

\* Two cells differ in their 24 low bits: the heap is smaller than 16 MiB.
HeapBelow16MiB == \A p, q \in Addr : (\A b \in 0 .. 2 : p[b] = q[b]) => p = q

\* A removal of three bytes that makes an address of another one makes the address of
\* the next slot.
LEMMA MixIsNext ==
  ASSUME HeapBelow16MiB, NEW p \in Ptr, NEW q \in Addr, Mix(p, q, 3) \in Addr
  PROVE  Mix(p, q, 3) = q
<1>1. \A b \in 0 .. 2 : Mix(p, q, 3)[b] = q[b]
  BY PtrSizeAssumption DEF Mix
<1> QED  BY <1>1 DEF HeapBelow16MiB

\* A removal keeps the order, once the cell of the user removed is free.
LEMMA RemoveKeepsOrder ==
  ASSUME HeapBelow16MiB, NEW us \in Seq(Ptr), Len(us) <= 3, NEW h \in Cells, Ordered(us, h),
         NEW p \in Addr, NEW n \in Nat,
         Len(us) = 3 => \A a \in Addr : Live(h, a) /\ a # p => a \in Range(us)
  PROVE  Ordered(arlist_remove(us, n), [h EXCEPT ![p] = Freed])
<1> DEFINE g == [h EXCEPT ![p] = Freed]
           r == arlist_remove(us, n)
<1>1. \A a : Live(g, a) => Live(h, a) /\ g[a] = h[a] /\ a # p /\ a \in Addr
  BY DEF Live, Cells
<1>2. \A a : Live(h, a) => h[a].id \in Nat
  BY ServerAssumption DEF Live, Cells, User
<1> HIDE DEF g
<1>3. CASE n \notin 1 .. Len(us)
  <2>1. r = us
    BY <1>3 DEF arlist_remove
  <2> QED  BY <1>1, <2>1 DEF Ordered, g
<1>4. CASE n \in 1 .. Len(us)
  <2>1. /\ r \in Seq(Ptr) /\ Len(r) = Len(us) - 1
        /\ \A j \in 1 .. Len(us) - 1 :
             r[j] = IF j = n THEN Mix(us[n], us[n + 1], Len(us) - n + 1) ELSE us[j]
    BY <1>4, RemoveSlots
  <2> HIDE DEF r
  <2> SUFFICES ASSUME NEW j \in 1 .. Len(r), NEW k \in 1 .. Len(r), j < k,
                      Live(g, r[j]), Live(g, r[k])
               PROVE  g[r[j]].id <= g[r[k]].id
    BY DEF Ordered, r, g
  <2>2. Len(us) = 3 /\ j = 1 /\ k = 2
    BY <2>1
  <2>3. n \in {1, 2, 3}
    BY <1>4, <2>2
  <2>4. \A a, b \in 1 .. 3 : a < b /\ Live(h, us[a]) /\ Live(h, us[b]) => h[us[a]].id <= h[us[b]].id
    BY <2>2 DEF Ordered
  <2>5. CASE n = 3
    <3>1. r[1] = us[1] /\ r[2] = us[2]
      BY <2>1, <2>2, <2>5
    <3> QED  BY <1>1, <2>2, <2>4, <3>1
  <2>6. CASE n = 2
    <3>1. r[1] = us[1]
      BY <2>1, <2>2, <2>6
    <3>2. Live(h, r[1]) /\ Live(h, r[2]) /\ g[r[1]] = h[r[1]] /\ g[r[2]] = h[r[2]] /\ r[2] \in Range(us)
      BY <1>1, <2>2
    <3>3. PICK m \in 1 .. 3 : us[m] = r[2]
      BY <2>2, <3>2 DEF Range
    <3>4. CASE m = 1
      BY <1>2, <2>2, <3>1, <3>2, <3>3, <3>4
    <3>5. CASE 1 < m
      <4>1. h[us[1]].id <= h[us[m]].id
        BY <2>4, <3>1, <3>2, <3>3, <3>5
      <4> QED  BY <2>2, <3>1, <3>2, <3>3, <4>1
    <3> QED  BY <3>4, <3>5
  <2>7. CASE n = 1
    <3>1. r[1] = Mix(us[1], us[2], 3) /\ r[2] = us[2]
      BY <2>1, <2>2, <2>7
    <3>2. r[1] \in Addr /\ us[2] \in Addr /\ us[1] \in Ptr
      BY <1>1, <2>2, <3>1
    <3>3. r[1] = us[2]
      BY <3>1, <3>2, MixIsNext
    <3> QED  BY <1>1, <1>2, <2>2, <3>1, <3>3
  <2> QED  BY <2>3, <2>5, <2>6, <2>7
<1> QED  BY <1>3, <1>4

LEMMA RemoveUserOrdered ==
  ASSUME HeapBelow16MiB, NEW t, TableTyped(t), Ordered(t.users, t.heap),
         NEW p \in Addr, Live(t.heap, p), ~remove_user(t, p).bad,
         Len(t.users) = 3 => \A a \in Addr : Live(t.heap, a) /\ a # p => a \in Range(t.users)
  PROVE  LET r == remove_user(t, p)
         IN  /\ Ordered(r.users, r.heap)
             /\ r.heap = [t.heap EXCEPT ![p] = Freed]
             /\ (\E j \in 1 .. Len(t.users) : t.heap[t.users[j]].id = t.heap[p].id)
                  => Len(r.users) = Len(t.users) - 1
<1> DEFINE k == user_from_id(t, t.heap[p].id)
           r == remove_user(t, p)
<1>1. /\ t.users \in Seq(Ptr) /\ Len(t.users) <= 3 /\ t.heap \in Cells
      /\ t \in [users : Seq(Ptr), heap : Cells, out : Seq(Written), bad : BOOLEAN]
  BY DEF TableTyped
<1>2. ~BadRead(t, k)
  <2> SUFFICES ASSUME BadRead(t, k) PROVE FALSE
    OBVIOUS
  <2>1. r = [t EXCEPT !.bad = TRUE]
    BY DEF remove_user
  <2> HIDE DEF r
  <2> QED  BY <1>1, <2>1 DEF r
<1>3. r = [t EXCEPT !.users = arlist_remove(@, k), !.heap[p] = Freed]
  BY <1>2 DEF remove_user
<1>4. k \in Nat /\ ((\E j \in 1 .. Len(t.users) : t.heap[t.users[j]].id = t.heap[p].id)
                      => k \in 1 .. Len(t.users))
  BY <1>1, UserFromId
<1> HIDE DEF k, r
<1>5. r.users = arlist_remove(t.users, k) /\ r.heap = [t.heap EXCEPT ![p] = Freed]
  BY <1>1, <1>3
<1>6. Ordered(r.users, r.heap)
  <2>1. Ordered(arlist_remove(t.users, k), [t.heap EXCEPT ![p] = Freed])
    BY <1>1, <1>4, RemoveKeepsOrder
  <2> QED  BY <1>5, <2>1
<1>7. k \in 1 .. Len(t.users) => Len(r.users) = Len(t.users) - 1
  BY <1>1, <1>4, <1>5, RemoveType
<1> QED  BY <1>4, <1>5, <1>6, <1>7 DEF r

LEMMA SendToOrdered ==
  ASSUME HeapBelow16MiB, NEW t, TableTyped(t), Ordered(t.users, t.heap),
         NEW p \in Addr, Live(t.heap, p), NEW data, ~send_to(t, p, data).bad,
         Len(t.users) = 3 => \A a \in Addr : Live(t.heap, a) /\ a # p => a \in Range(t.users)
  PROVE  LET r == send_to(t, p, data)
         IN  /\ Ordered(r.users, r.heap)
             /\ \/ r.users = t.users /\ r.heap = t.heap
                \/ r = remove_user(t, p)
<1> DEFINE r == send_to(t, p, data)
<1>1. CASE data = NODATA
  BY <1>1 DEF send_to
<1>2. CASE data # NODATA /\ ClosedPipe(t, p)
  <2>1. r = remove_user(t, p)
    BY <1>2 DEF send_to
  <2> QED  BY <2>1, RemoveUserOrdered
<1>3. CASE data # NODATA /\ ~ClosedPipe(t, p)
  <2>1. r = [t EXCEPT !.out = Append(@, [to |-> t.heap[p].path, data |-> data])]
    BY <1>3 DEF send_to
  <2>2. r.users = t.users /\ r.heap = t.heap
    BY <2>1 DEF TableTyped
  <2> QED  BY <2>2
<1> QED  BY <1>1, <1>2, <1>3

LEMMA ByeeOrdered ==
  ASSUME HeapBelow16MiB, Inv, Ordered(users, heap), NEW id \in Ids, NEW p, Live(heap, p),
         ~Byee(id, p).bad
  PROVE  Ordered(Byee(id, p).users, Byee(id, p).heap)
<1> DEFINE t == send_to(Now, p, req_server_BYEE(id))
           k == user_from_id(t, id)
<1>1. /\ TableTyped(Now) /\ Now.users = users /\ Now.heap = heap
      /\ \A a \in Addr : Live(heap, a) => a \in Range(users)
      /\ p \in Addr /\ \E j \in 1 .. Len(users) : users[j] = p
  BY NowOK DEF TableOK, Inv, TableInv
<1>2. Byee(id, p) = IF t.bad \/ k = 0 THEN t
                    ELSE IF BadRead(t, k) THEN [t EXCEPT !.bad = TRUE]
                    ELSE remove_user(t, t.users[k])
  BY DEF Byee
<1>3. TableTyped(t)
  <2>1. req_server_BYEE(id) \in Packet
    BY Packets, ServerAssumption DEF Ids
  <2> QED  BY <2>1, SendNow DEF TableOK
<1>4. k = 0 \/ k \in 1 .. Len(t.users)
  <2> HIDE DEF t
  <2> QED  BY <1>3, UserFromId DEF TableTyped
<1>5. ~t.bad => Ordered(t.users, t.heap)
                /\ ((t.users = users /\ t.heap = heap) \/ t = remove_user(Now, p))
  BY <1>1, SendToOrdered
<1> HIDE DEF t, k
<1>6. CASE t.bad \/ k = 0
  BY <1>2, <1>5, <1>6
<1>7. CASE ~(t.bad \/ k = 0) /\ BadRead(t, k)
  <2> DEFINE r == [t EXCEPT !.bad = TRUE]
  <2>1. r.bad
    BY <1>3 DEF TableTyped
  <2> QED  BY <1>2, <1>7, <2>1
<1>8. CASE ~(t.bad \/ k = 0) /\ ~BadRead(t, k)
  <2>1. Live(t.heap, t.users[k]) /\ t.users[k] \in Addr
    BY <1>8 DEF BadRead, Live
  <2>2. Byee(id, p) = remove_user(t, t.users[k])
    BY <1>2, <1>8
  <2>3. Len(t.users) = 3 => t.users = users /\ t.heap = heap
    <3> SUFFICES ASSUME t = remove_user(Now, p) PROVE Len(t.users) # 3
      BY <1>5, <1>8
    <3>1. Len(t.users) = Len(users) - 1
      BY <1>1, <1>8, RemoveUserOrdered
    <3>2. \A l \in Nat : l <= 3 => l - 1 # 3
      OBVIOUS
    <3> QED  BY <3>1, <3>2, NowOK
  <2>4. Len(t.users) = 3 => \A a \in Addr : Live(t.heap, a) /\ a # t.users[k] => a \in Range(t.users)
    BY <1>1, <2>3
  <2> QED  BY <1>3, <1>5, <1>8, <2>1, <2>2, <2>4, RemoveUserOrdered
<1> QED  BY <1>6, <1>7, <1>8

LEMMA ServedOrdered ==
  ASSUME HeapBelow16MiB, Inv, Ordered(users, heap), NEW t, ~t.bad,
         Served(t) \/ \E id \in Ids : ByeeServed(id, t)
  PROVE  Ordered(t.users, t.heap)
<1>1. /\ TableTyped(Now) /\ Now.users = users /\ Now.heap = heap
      /\ \A b \in Addr : Live(heap, b) => b \in Range(users)
      /\ \A p : Live(heap, p) => p \in Addr
  BY NowOK DEF TableOK, Inv, TableInv
<1>2. CASE t.users = users /\ t.heap = heap
  BY <1>2
<1>3. ASSUME NEW p, NEW data, Live(heap, p), t = send_to(Now, p, data)
      PROVE  Ordered(t.users, t.heap)
  BY <1>1, <1>3, SendToOrdered
<1>4. ASSUME NEW id \in Ids, NEW p, Live(heap, p), t = Byee(id, p)
      PROVE  Ordered(t.users, t.heap)
  BY <1>4, ByeeOrdered
<1>5. ASSUME NEW a \in Addr, Registering(a), t = Added(a, get_available_id(Now))
      PROVE  Ordered(t.users, t.heap)
  <2> DEFINE n == get_available_id(Now)
             x == Enrolled(a, n)
  <2>1. /\ t = send_to(x, a, req_server_OKOK(n)) /\ TableTyped(x)
        /\ x.heap = [heap EXCEPT ![a] = NewUser(n)] /\ Live(x.heap, a)
        /\ Ordered(x.users, x.heap)
        /\ \/ x.users = users
           \/ \A k \in 1 .. Len(users) : \E j \in 1 .. Len(x.users) : x.users[j] = users[k]
    BY <1>5, EnrolledOK
  <2> HIDE DEF x, n
  <2>2. ASSUME NEW b \in Addr, b # a, Live(x.heap, b) PROVE b \in Range(x.users)
    <3>1. Live(heap, b)
      BY <2>1, <2>2, NowOK DEF Live, Cells
    <3>2. PICK k \in 1 .. Len(users) : users[k] = b
      BY <3>1, NowOK
    <3>3. PICK j \in 1 .. Len(x.users) : x.users[j] = b
      BY <2>1, <3>2
    <3> QED  BY <2>1, <3>3 DEF TableTyped, Range
  <2> QED  BY <1>5, <2>1, <2>2, SendToOrdered
<1> QED  BY <1>2, <1>3, <1>4, <1>5 DEF Served, ByeeServed

LEMMA StepOrdered ==
  ASSUME HeapBelow16MiB, Inv, Ordered(users, heap), Step
  PROVE  Ordered(users, heap)'
<1>1. CASE SameUsers
  BY <1>1 DEF SameUsers, Ordered, Live
<1>2. CASE Stops("exited") \/ Stops("undefined")
  <2>1. users' = <<>>
    BY <1>2 DEF Stops
  <2> QED  BY <2>1 DEF Ordered
<1>3. ASSUME NEW t, Left(t), Served(t) \/ \E id \in Ids : ByeeServed(id, t)
      PROVE  Ordered(users, heap)'
  <2>1. Ordered(t.users, t.heap)
    BY <1>3, ServedOrdered DEF Left
  <2>2. users' = t.users /\ heap' = Collected(t)
    BY <1>3 DEF Left
  <2>3. \A p : Live(heap', p) => Live(t.heap, p) /\ heap'[p] = t.heap[p]
    BY <2>2 DEF Collected, Live
  <2> QED  BY <2>1, <2>2, <2>3 DEF Ordered, Live
<1> QED  BY <1>1, <1>2, <1>3 DEF Step

LEMMA LeavesOther ==
  ASSUME NEW t, NEW ACTION Goto, Leaves(t, Goto), Goto => BroadcastsOther'
  PROVE  BroadcastsOther'
BY DEF Leaves, Stops, Idle, BroadcastsOther

LEMMA NextOther ==
  ASSUME BroadcastsOther, [Next]_vars
  PROVE  BroadcastsOther'
<1>1. \A how : Stops(how) => BroadcastsOther'
  BY DEF Stops, Idle, BroadcastsOther
<1>2. Idle => BroadcastsOther'
  BY DEF Idle, BroadcastsOther
<1>3. d' = d => BroadcastsOther'
  BY DEF BroadcastsOther
<1>4. server_end => BroadcastsOther'
  BY <1>1 DEF server_end
<1>5. CASE UNCHANGED vars
  BY <1>3, <1>5 DEF vars
<1>6. ASSUME NEW path \in Path, Client(path) PROVE BroadcastsOther'
  BY <1>3, <1>6 DEF Client, MakeFifo, StartReading, StopReading, Unlink, Fifo
<1>7. CASE Serve
  <2>1. CASE OpenReturns
    BY <2>1, <1>3 DEF OpenReturns
  <2>2. CASE Refuse
    BY <2>2, <1>1, <1>2, LeavesOther DEF Refuse
  <2>3. ASSUME NEW a \in Addr, Register(a) PROVE BroadcastsOther'
    BY <2>3, <1>2, LeavesOther DEF Register
  <2>4. CASE Broadcast
    <3> DEFINE goto == /\ IF d # NODATA /\ ClosedPipe(Now, users[i])
                          THEN UNCHANGED <<i, got>>
                          ELSE i' = i + 1 /\ got' = got \cup {users[i]}
                       /\ UNCHANGED <<pc, req, d, u>>
    <3>1. Stops("undefined") \/ Leaves(send_to(Now, users[i], d), goto)
      BY <2>4 DEF Broadcast
    <3>2. goto => BroadcastsOther'
      BY <1>3
    <3> HIDE DEF goto
    <3> QED  BY <3>1, <3>2, <1>1, LeavesOther
  <2>5. CASE BroadcastEnds
    BY <2>5, <1>2, <1>4, LeavesOther DEF BroadcastEnds
  <2>6. CASE ListOne
    <3> DEFINE t == send_to(Now, u, req_server_LIST(Len(users), heap[users[i]].nick))
               goto == i' = i + 1 /\ UNCHANGED <<pc, req, d, u, got>>
    <3>1. Stops("undefined") \/ Leaves(t, goto)
      BY <2>6 DEF ListOne
    <3>2. goto => BroadcastsOther'
      BY <1>3
    <3> HIDE DEF goto, t
    <3> QED  BY <3>1, <3>2, <1>1, LeavesOther
  <2>7. CASE ListEnds
    BY <2>7, <1>2, LeavesOther DEF ListEnds
  <2> QED  BY <1>7, <2>1, <2>2, <2>3, <2>4, <2>5, <2>6, <2>7 DEF Serve
<1>8. CASE Receive
  <2>1. ASSUME NEW nick, NEW path, HELO(nick, path) PROVE BroadcastsOther'
    BY <2>1, <1>3 DEF HELO
  <2>2. ASSUME NEW id, BYEE(id) PROVE BroadcastsOther'
    BY <2>2, <1>1, <1>2, LeavesOther DEF BYEE, From
  <2>3. ASSUME NEW how, NEW packet, packet = NODATA \/ packet[1] \notin {"OKOK", "BYEE"}, StartBroadcast(how, packet)
        PROVE  BroadcastsOther'
    BY <2>3 DEF StartBroadcast, BroadcastsOther
  <2>4. ASSUME NEW id, NEW fits, BCST(id, fits) PROVE BroadcastsOther'
    <3> DEFINE packet == req_server_BCST(heap[Sender(id)].nick, fits)
    <3>1. Stops("undefined") \/ Leaves(Now, StartBroadcast("BCST", packet))
      BY <2>4 DEF BCST, From
    <3>2. packet = NODATA \/ packet[1] \notin {"OKOK", "BYEE"}
      BY NotOkok
    <3> HIDE DEF packet
    <3> QED  BY <3>1, <3>2, <2>3, <1>1, LeavesOther
  <2>5. ASSUME NEW id, NEW nick, NEW fits, PRVT(id, nick, fits) PROVE BroadcastsOther'
    <3> DEFINE k == user_from_nick(Now, nick)
               t == IF k # 0
                    THEN send_to(Now, users[k], req_server_PRVT(heap[Sender(id)].nick, fits))
                    ELSE send_to(Now, Sender(id), req_server_BCST("SERVER", TRUE))
    <3>1. Stops("undefined") \/ Leaves(t, Idle)
      BY <2>5 DEF PRVT, From
    <3> HIDE DEF t
    <3> QED  BY <3>1, <1>1, <1>2, LeavesOther
  <2>6. ASSUME NEW id, LIST(id) PROVE BroadcastsOther'
    <3> DEFINE goto == pc' = "LIST" /\ i' = 1 /\ u' = Sender(id) /\ UNCHANGED <<req, d, got>>
    <3>1. Stops("undefined") \/ Leaves(Now, goto)
      BY <2>6 DEF LIST, From
    <3>2. goto => BroadcastsOther'
      BY <1>3
    <3> HIDE DEF goto
    <3> QED  BY <3>1, <3>2, <1>1, LeavesOther
  <2>7. ASSUME NEW id, SHUT(id) PROVE BroadcastsOther'
    <3> DEFINE k == user_from_id(Now, id)
               packet == req_server_SHUT(IF k = 0 THEN Null ELSE heap[users[k]].nick)
    <3>1. Stops("undefined") \/ Leaves(Now, StartBroadcast("SHUT", packet))
      BY <2>7 DEF SHUT
    <3>2. packet = NODATA \/ packet[1] \notin {"OKOK", "BYEE"}
      BY NotOkok
    <3> HIDE DEF packet
    <3> QED  BY <3>1, <3>2, <2>3, <1>1, LeavesOther
  <2>8. CASE ReadFails
    BY <2>8, <1>4 DEF ReadFails
  <2> QED  BY <1>8, <2>1, <2>2, <2>4, <2>5, <2>6, <2>7, <2>8 DEF Receive
<1> QED  BY <1>5, <1>6, <1>7, <1>8 DEF Next

\* In a heap smaller than 16 MiB the table stays in the order of the ids, although
\* arlist_remove moves bytes and not slots: removing the first of three users moves three
\* bytes, which make the address of the second user or that of nobody.
THEOREM TableInOrder ==
  ASSUME HeapBelow16MiB
  PROVE  Spec => []InOrder
<1> DEFINE OInv == Inv /\ BroadcastsOther /\ Ordered(users, heap)
<1>1. Init => OInv
  <2>1. Init => BroadcastsOther /\ Ordered(users, heap)
    BY DEF Init, BroadcastsOther, Ordered
  <2> QED  BY <2>1, InitInv
<1>2. OInv /\ [Next]_vars => OInv'
  BY NextInv, NextOther, NextStep, StepOrdered
<1>3. OInv => InOrder
  <2> SUFFICES ASSUME OInv PROVE InOrder
    OBVIOUS
  <2>1. DOMAIN users = 1 .. Len(users)
    BY NowOK
  <2> QED  BY <2>1 DEF InOrder, Ordered, Online
<1> QED  BY <1>1, <1>2, <1>3, PTL DEF Spec

-----------------------------------------------------------------------------
(* Broadcasts and BYEE.                                                     *)

LEMMA MixSelf ==
  ASSUME NEW p \in Ptr, NEW k \in Int
  PROVE  Mix(p, p, k) = p
BY DEF Mix, Ptr

\* Every user in a slot the loop has passed has been written to.
Passed == Broadcasting => \A k \in 1 .. Len(users) : k < i => users[k] \in got

\* Removing the user at slot i: its first slot goes, which is i itself or a slot
\* before it that holds the same pointer as the slot after it.
LEMMA RemovalBehind ==
  ASSUME Inv, i \in 1 .. Len(users), Live(heap, users[i]), Broadcasting, Passed,
         ~remove_user(Now, users[i]).bad
  PROVE  LET r == remove_user(Now, users[i]).users
         IN  \A j \in 1 .. Len(r) : j < i => r[j] \in got
<1> DEFINE p == users[i]
           n == user_from_id(Now, heap[p].id)
           r == remove_user(Now, p)
<1>1. /\ Now.users = users /\ Now.heap = heap /\ users \in Seq(Ptr) /\ Len(users) <= 3
      /\ Now \in [users : Seq(Ptr), heap : Cells, out : Seq(Written), bad : BOOLEAN]
      /\ Len(users) \in Nat /\ i \in Int /\ users[i] \in Ptr
  BY NowOK DEF TableOK, TableTyped
<1>2. ~BadRead(Now, n)
  <2> SUFFICES ASSUME BadRead(Now, n) PROVE FALSE
    OBVIOUS
  <2>1. r = [Now EXCEPT !.bad = TRUE]
    BY <1>1 DEF remove_user
  <2> HIDE DEF r
  <2> QED  BY <1>1, <2>1 DEF r
<1>3. r = [Now EXCEPT !.users = arlist_remove(@, n), !.heap[p] = Freed]
  BY <1>1, <1>2 DEF remove_user
<1>4. r.users = arlist_remove(users, n)
  <2> HIDE DEF r, n
  <2> QED  BY <1>1, <1>3
<1>5. n \in 1 .. Len(users) /\ n <= i /\ (Live(heap, users[n]) => heap[users[n]].id = heap[p].id)
  BY <1>1, UserFromId
<1>6. Live(heap, users[n])
  BY <1>1, <1>2, <1>5 DEF BadRead
<1>7. users[n] = p
  <2>1. CellsDistinct(heap) /\ users[n] \in Addr /\ p \in Addr
    BY <1>6 DEF Inv, TableInv, Live
  <2> QED  BY <2>1, <1>5, <1>6 DEF CellsDistinct
<1> HIDE DEF n, r
<1>8. /\ Len(r.users) = Len(users) - 1
      /\ \A j \in 1 .. Len(users) - 1 :
           r.users[j] = IF j = n THEN Mix(users[n], users[n + 1], Len(users) - n + 1) ELSE users[j]
  <2>1. LET rest == arlist_remove(users, n)
        IN  /\ rest \in Seq(Ptr) /\ Len(rest) = Len(users) - 1
            /\ \A j \in 1 .. Len(users) - 1 :
                 rest[j] = IF j = n THEN Mix(users[n], users[n + 1], Len(users) - n + 1) ELSE users[j]
    <3>1. users \in Seq(Ptr) /\ Len(users) <= 3 /\ n \in 1 .. Len(users)
      BY <1>1, <1>5
    <3> QED  BY <3>1, RemoveSlots
  <2> QED  BY <1>4, <2>1
<1>9. ASSUME NEW j \in 1 .. Len(users) - 1, j < i PROVE r.users[j] \in got
  <2>1. users[j] \in got
    BY <1>1, <1>9 DEF Passed
  <2>2. CASE j # n
    BY <1>8, <2>1, <2>2
  <2>3. CASE j = n
    <3>1. i = n + 1
      <4> SUFFICES ASSUME i # n + 1 PROVE FALSE
        OBVIOUS
      <4>1. Len(users) = 3 /\ n = 1 /\ i = 3
        <5>1. \A l, x, y \in Int : 1 <= y /\ y < x /\ x # y + 1 /\ x <= l /\ l <= 3 => l = 3 /\ y = 1 /\ x = 3
          OBVIOUS
        <5>2. Len(users) \in Int /\ i \in Int /\ n \in Int /\ 1 <= n /\ n < i /\ i <= Len(users)
          BY <1>1, <1>5, <1>9, <2>3
        <5> QED  BY <1>1, <5>1, <5>2
      <4>2. heap[users[3]].id # heap[users[1]].id
        <5>1. heap[users[1]].id \in Nat /\ heap[users[2]].id \in Nat /\ heap[users[3]].id \in Nat
          <6>1. \A k \in 1 .. 3 : heap[users[k]] \in User
            BY <4>1, NowOK DEF Inv, TableInv, Full
          <6>2. \A x \in User : x.id \in Nat
            BY ServerAssumption DEF User
          <6> QED  BY <6>1, <6>2
        <5>2. LET id(k) == heap[users[k]].id
              IN  \/ id(2) = id(1) + 1 /\ id(3) > id(2)
                  \/ id(2) <= id(1) /\ id(3) = id(1) + 1
          BY <4>1 DEF Inv, TableInv, Full
        <5> QED  BY <5>1, <5>2
      <4> QED  BY <4>1, <4>2, <1>7
    <3>2. Mix(users[n], users[n + 1], Len(users) - n + 1) = p
      BY <1>1, <1>5, <1>7, <3>1, MixSelf
    <3> QED  BY <1>7, <1>8, <2>1, <2>3, <3>2
  <2> QED  BY <2>2, <2>3
<1> QED  BY <1>8, <1>9 DEF r

LEMMA NextPassed ==
  ASSUME Inv, Passed, [Next]_vars
  PROVE  Passed'
<1>1. \A how : Stops(how) => Passed'
  BY DEF Stops, Idle, Passed, Broadcasting
<1>2. Idle => Passed'
  BY DEF Idle, Passed, Broadcasting
<1>3. ASSUME NEW t, Leaves(t, Idle) PROVE Passed'
  BY <1>1, <1>2, <1>3 DEF Leaves
<1>4. server_end => Passed'
  BY <1>1 DEF server_end
<1>5. pc' \notin {"BCST", "SHUT"} => Passed'
  BY DEF Passed, Broadcasting
<1>6. UNCHANGED <<users, pc, i, got>> => Passed'
  BY DEF Passed, Broadcasting
<1>7. ASSUME NEW how, NEW packet, NEW t, Leaves(t, StartBroadcast(how, packet)) PROVE Passed'
  <2>1. i' = 1 \/ Stops("undefined")
    BY <1>7 DEF Leaves, StartBroadcast
  <2>2. i' = 1 => Passed'
    BY DEF Passed
  <2> QED  BY <2>1, <2>2, <1>1
<1>8. ASSUME Broadcast PROVE Passed'
  <2> DEFINE p == users[i]
             closed == d # NODATA /\ ClosedPipe(Now, p)
             t == send_to(Now, p, d)
             goto == /\ IF closed THEN UNCHANGED <<i, got>> ELSE i' = i + 1 /\ got' = got \cup {p}
                     /\ UNCHANGED <<pc, req, d, u>>
  <2>1. /\ Broadcasting /\ i \in 1 .. Len(users)
        /\ IF ~Live(heap, p) THEN Stops("undefined") ELSE Leaves(t, goto)
    <3>1. DOMAIN users = 1 .. Len(users)
      BY NowOK
    <3> QED  BY <1>8, <3>1 DEF Broadcast
  <2> SUFFICES ASSUME Live(heap, p), ~t.bad, users' = t.users, goto PROVE Passed'
    BY <2>1, <1>1 DEF Leaves
  <2>2. CASE closed
    <3>1. t = remove_user(Now, p) /\ i' = i /\ got' = got
      BY <2>2 DEF send_to
    <3>2. \A j \in 1 .. Len(t.users) : j < i => t.users[j] \in got
      BY <2>1, <3>1, RemovalBehind
    <3> HIDE DEF t
    <3> QED  BY <3>1, <3>2 DEF Passed
  <2>3. CASE ~closed
    <3>1. t.users = users
      BY <2>3, NowOK DEF send_to, Now
    <3>2. users' = users /\ i' = i + 1 /\ got' = got \cup {p}
      BY <2>3, <3>1
    <3>3. \A k \in 1 .. Len(users) : k < i + 1 => k < i \/ k = i
      BY <2>1
    <3> QED  BY <2>1, <3>2, <3>3 DEF Passed
  <2> QED  BY <2>2, <2>3
<1>9. CASE UNCHANGED vars
  BY <1>6, <1>9 DEF vars
<1>10. ASSUME NEW path \in Path, Client(path) PROVE Passed'
  BY <1>6, <1>10 DEF Client, MakeFifo, StartReading, StopReading, Unlink, Fifo
<1>11. CASE Serve
  <2>1. CASE OpenReturns
    BY <2>1, <1>5 DEF OpenReturns
  <2>2. CASE Refuse
    BY <2>2, <1>1, <1>3 DEF Refuse
  <2>3. ASSUME NEW a \in Addr, Register(a) PROVE Passed'
    BY <2>3, <1>3 DEF Register
  <2>4. CASE BroadcastEnds
    BY <2>4, <1>3, <1>4 DEF BroadcastEnds
  <2>5. CASE ListOne
    <3> DEFINE t == send_to(Now, u, req_server_LIST(Len(users), heap[users[i]].nick))
    <3>1. Stops("undefined") \/ Leaves(t, i' = i + 1 /\ UNCHANGED <<pc, req, d, u, got>>)
      BY <2>5 DEF ListOne
    <3>2. Stops("undefined") \/ pc' = "LIST"
      BY <2>5, <3>1 DEF Leaves, ListOne
    <3> QED  BY <3>2, <1>1, <1>5
  <2>6. CASE ListEnds
    BY <2>6, <1>3 DEF ListEnds
  <2> QED  BY <1>8, <1>11, <2>1, <2>2, <2>3, <2>4, <2>5, <2>6 DEF Serve
<1>12. CASE Receive
  <2>1. ASSUME NEW nick, NEW path, HELO(nick, path) PROVE Passed'
    BY <2>1, <1>5 DEF HELO
  <2>2. ASSUME NEW id, BYEE(id) PROVE Passed'
    BY <2>2, <1>1, <1>3 DEF BYEE, From
  <2>3. ASSUME NEW id, NEW fits, BCST(id, fits) PROVE Passed'
    BY <2>3, <1>1, <1>7 DEF BCST, From
  <2>4. ASSUME NEW id, NEW nick, NEW fits, PRVT(id, nick, fits) PROVE Passed'
    <3> DEFINE k == user_from_nick(Now, nick)
               t == IF k # 0
                    THEN send_to(Now, users[k], req_server_PRVT(heap[Sender(id)].nick, fits))
                    ELSE send_to(Now, Sender(id), req_server_BCST("SERVER", TRUE))
    <3>1. Stops("undefined") \/ Leaves(t, Idle)
      BY <2>4 DEF PRVT, From
    <3> HIDE DEF t
    <3> QED  BY <3>1, <1>1, <1>3
  <2>5. ASSUME NEW id, LIST(id) PROVE Passed'
    <3>1. Stops("undefined") \/ pc' = "LIST"
      BY <2>5 DEF LIST, From, Leaves
    <3> QED  BY <3>1, <1>1, <1>5
  <2>6. ASSUME NEW id, SHUT(id) PROVE Passed'
    <3> DEFINE k == user_from_id(Now, id)
               packet == req_server_SHUT(IF k = 0 THEN Null ELSE heap[users[k]].nick)
    <3>1. Stops("undefined") \/ Leaves(Now, StartBroadcast("SHUT", packet))
      BY <2>6 DEF SHUT
    <3> HIDE DEF packet
    <3> QED  BY <3>1, <1>1, <1>7
  <2>7. CASE ReadFails
    BY <2>7, <1>4 DEF ReadFails
  <2> QED  BY <1>12, <2>1, <2>2, <2>3, <2>4, <2>5, <2>6, <2>7 DEF Receive
<1> QED  BY <1>9, <1>10, <1>11, <1>12 DEF Next

\* A broadcast that steps back over the users it removes skips nobody: behind the loop
\* stand only users it has written to, in a heap of any layout, whatever the removals do
\* to the slots.
THEOREM NobodyIsSkipped == Spec => []BroadcastMissesNobody
<1>1. Init => Inv /\ Passed
  <2>1. Init => Passed
    BY DEF Init, Passed, Broadcasting
  <2> QED  BY <2>1, InitInv
<1>2. (Inv /\ Passed) /\ [Next]_vars => (Inv /\ Passed)'
  BY NextInv, NextPassed
<1>3. Inv /\ Passed => BroadcastMissesNobody
  <2>1. Inv => DOMAIN users = 1 .. Len(users)
    BY NowOK
  <2> QED  BY <2>1 DEF Passed, BroadcastMissesNobody
<1> QED  BY <1>1, <1>2, <1>3, PTL DEF Spec

\* After BYEE nobody is left under the id of the user who said it, also when the answer
\* found the FIFO closed and the user was removed twice over.
LEMMA ByeeLeavesNobody ==
  ASSUME Inv, NEW id \in Ids, NEW p, Live(heap, p), ~Byee(id, p).bad
  PROVE  LET t == Byee(id, p)
         IN  \A q \in Range(t.users) : Live(t.heap, q) => t.heap[q].id # id
<1> DEFINE t == send_to(Now, p, req_server_BYEE(id))
           k == user_from_id(t, id)
<1>1. TableOK(t)
  <2>1. req_server_BYEE(id) \in Packet
    BY Packets, ServerAssumption DEF Ids
  <2> QED  BY <2>1, SendNow
<1>2. Byee(id, p) = IF t.bad \/ k = 0 THEN t
                    ELSE IF BadRead(t, k) THEN [t EXCEPT !.bad = TRUE]
                    ELSE remove_user(t, t.users[k])
  BY DEF Byee
<1> HIDE DEF t
<1>3. TableTyped(t) /\ t.users \in Seq(Ptr) /\ Len(t.users) <= 3 /\ t.heap \in Cells
  BY <1>1 DEF TableOK, TableTyped
<1>4. \/ k = 0 /\ \A j \in 1 .. Len(t.users) : t.heap[t.users[j]].id # id
      \/ k \in 1 .. Len(t.users) /\ (Live(t.heap, t.users[k]) => t.heap[t.users[k]].id = id)
  BY <1>3, UserFromId
<1> HIDE DEF k
<1>5. ~t.bad /\ CellsDistinct(t.heap)
  <2>1. ~t.bad
    BY <1>2
  <2> QED  BY <2>1, <1>1 DEF TableOK
<1>6. CASE k = 0
  <2>1. \A q \in Range(t.users) : \E j \in 1 .. Len(t.users) : t.users[j] = q
    BY <1>3 DEF Range
  <2>2. \A j \in 1 .. Len(t.users) : t.heap[t.users[j]].id # id
    BY <1>4, <1>6
  <2> QED  BY <1>2, <1>6, <2>1, <2>2
<1>7. CASE k # 0
  <2>1. ~BadRead(t, k)
    <3> SUFFICES ASSUME BadRead(t, k) PROVE FALSE
      OBVIOUS
    <3>1. Byee(id, p) = [t EXCEPT !.bad = TRUE]
      BY <1>2, <1>5, <1>7
    <3>2. [t EXCEPT !.bad = TRUE].bad
      BY <1>3 DEF TableTyped
    <3> QED  BY <3>1, <3>2
  <2> DEFINE q == t.users[k]
  <2>2. Live(t.heap, q) /\ t.heap[q].id = id /\ q \in Addr
    BY <1>4, <1>7, <2>1 DEF BadRead, Live
  <2>3. Byee(id, p) = remove_user(t, q)
    BY <1>2, <1>5, <1>7, <2>1
  <2>4. remove_user(t, q).heap = [t.heap EXCEPT ![q] = Freed]
    <3>1. Len(t.users) = 3 => \E j \in 1 .. 3 : t.heap[t.users[j]].id = t.heap[q].id
      BY <1>4, <1>7
    <3>2. ~remove_user(t, q).bad
      BY <2>3
    <3> QED  BY <1>3, <2>2, <3>1, <3>2, RemoveUserTyped
  <2>5. ASSUME NEW c, Live([t.heap EXCEPT ![q] = Freed], c)
        PROVE  [t.heap EXCEPT ![q] = Freed][c].id # id
    <3>1. c \in Addr /\ c # q /\ Live(t.heap, c) /\ [t.heap EXCEPT ![q] = Freed][c] = t.heap[c]
      BY <1>3, <2>2, <2>5 DEF Live, Cells
    <3> QED  BY <1>5, <2>2, <3>1 DEF CellsDistinct
  <2> QED  BY <2>3, <2>4, <2>5
<1> QED  BY <1>6, <1>7

\* A user who said BYEE is found by no later lookup of that id.
THEOREM ByeeIsForGood == Spec => ByeeForgets
<1> DEFINE Forgets == \A id \in Ids : BYEE(id) => \A p \in Online' : heap'[p].id # id
<1>1. Inv /\ [Next]_vars => [Forgets]_vars
  <2> SUFFICES ASSUME Inv, NEW id \in Ids, BYEE(id), NEW p \in Online'
               PROVE  heap'[p].id # id
    OBVIOUS
  <2> DEFINE k == user_from_id(Now, id)
             t == Byee(id, users[k])
  <2>1. k # 0 /\ IF BadRead(Now, k) THEN Stops("undefined") ELSE Leaves(t, Idle)
    BY DEF BYEE, From, Sender
  <2>2. p \in Range(users') /\ Live(heap', p)
    BY DEF Online, Live
  <2>3. ~Stops("undefined")
    <3>1. Stops("undefined") => Range(users') = {}
      BY DEF Stops, Range
    <3> QED  BY <2>2, <3>1
  <2>4. ~BadRead(Now, k) /\ ~t.bad /\ users' = t.users /\ heap' = Collected(t)
    BY <2>1, <2>3 DEF Leaves
  <2>5. Live(heap, users[k])
    <3>1. k \in Nat /\ (k = 0 \/ k \in 1 .. Len(users))
      BY NowOK, UserFromId
    <3> QED  BY <2>1, <2>4, <3>1, SenderLive
  <2>6. \A q \in Range(t.users) : Live(t.heap, q) => t.heap[q].id # id
    BY <2>4, <2>5, ByeeLeavesNobody
  <2> HIDE DEF t
  <2>7. Live(t.heap, p) /\ heap'[p] = t.heap[p]
    BY <2>2, <2>4 DEF Collected, Live
  <2> QED  BY <2>2, <2>4, <2>6, <2>7
<1>2. Spec => [][Forgets]_vars
  BY <1>1, Invariant, PTL DEF Spec
<1> QED  BY <1>2 DEF ByeeForgets


-----------------------------------------------------------------------------
(* With two FIFOs, and the users of the server in one 64 KiB region of the  *)
(* heap, a removal moves whole pointers for all that matters: no slot is    *)
(* lost or mixed, and the server keeps the promise of Sessions.  These are  *)
(* the runs in which no third client comes.  So do the files they send, two *)
(* at a time: the last part of the module is about FileRelay.               *)

TwoPaths == \E p, q : Path = {p, q}

OneRegion == \A p, q \in Addr : \A b \in 2 .. PtrSize - 1 : p[b] = q[b]

\* Every slot holds a user, none of them twice, and every user has its slot.
Sound(us, h) ==
  /\ us \in Seq(Ptr) /\ Len(us) <= 2
  /\ h \in Cells /\ CellsDistinct(h)
  /\ \A k \in 1 .. Len(us) : Live(h, us[k])
  /\ \A j, k \in 1 .. Len(us) : us[j] = us[k] => j = k
  /\ \A a : Live(h, a) => \E k \in 1 .. Len(us) : us[k] = a

\* Whoever was just told a number is registered under it.
Told ==
  \A k \in DOMAIN out : out[k].data[1] = "OKOK" =>
    \E p : Live(heap, p) /\ heap[p].path = out[k].to /\ heap[p].id = out[k].data[2]

Halted == pc = "idle" /\ users = <<>>

\* The user LIST answers to is there as long as there is something left to write.
Listening == pc = "LIST" /\ i \in 1 .. Len(users) => Live(heap, u)

\* The inductive invariant, of the table and of all besides.
PairInv ==
  /\ Inv
  /\ BroadcastsOther
  /\ Sound(users, heap)
  /\ phase # "running" => Halted
  /\ Listening

PairSafe == PairInv /\ phase # "undefined" /\ Told

\* The packets of o tell nobody that a session begins or ends.
Untold(o) == \A k \in DOMAIN o : o[k].data[1] \notin {"OKOK", "BYEE"}

-----------------------------------------------------------------------------
(* Removals.                                                                *)

LEMMA MixLow ==
  ASSUME OneRegion, NEW p \in Addr, NEW q \in Addr
  PROVE  Mix(p, q, 2) = q
<1>1. p \in Ptr /\ q \in Ptr
  BY ServerAssumption
<1>2. \A b \in 0 .. PtrSize - 1 : (IF b < 2 THEN q[b] ELSE p[b]) = q[b]
  BY PtrSizeAssumption DEF OneRegion
<1> QED  BY <1>1, <1>2 DEF Mix, Ptr

\* Removing a user takes its slot and its cell, and leaves the other user where it can
\* be found.
LEMMA RemovePair ==
  ASSUME OneRegion, NEW t, TableTyped(t), Sound(t.users, t.heap), NEW p, Live(t.heap, p)
  PROVE  LET r == remove_user(t, p)
         IN  /\ r.bad = t.bad /\ r.out = t.out /\ r.heap = [t.heap EXCEPT ![p] = Freed]
             /\ Sound(r.users, r.heap)
<1> DEFINE n == user_from_id(t, t.heap[p].id)
           r == remove_user(t, p)
           us == t.users
           h == [t.heap EXCEPT ![p] = Freed]
<1>1. /\ us \in Seq(Ptr) /\ Len(us) \in Nat /\ Len(us) <= 2 /\ Len(us) <= 3 /\ t.heap \in Cells
      /\ t \in [users : Seq(Ptr), heap : Cells, out : Seq(Written), bad : BOOLEAN]
      /\ p \in Addr
  <2>1. us \in Seq(Ptr) /\ Len(us) <= 2 /\ Len(us) <= 3
    BY DEF TableTyped, Sound
  <2> QED  BY <2>1 DEF TableTyped, Live
<1>2. n \in 1 .. Len(us) /\ us[n] = p
  <2>1. PICK j \in 1 .. Len(us) : us[j] = p
    BY DEF Sound
  <2>2. n \in 1 .. Len(us) /\ (Live(t.heap, us[n]) => t.heap[us[n]].id = t.heap[p].id)
    BY <1>1, <2>1, UserFromId
  <2>3. Live(t.heap, us[n])
    BY <2>2 DEF Sound
  <2> HIDE DEF n
  <2>4. us[n] = p
    BY <1>1, <2>2, <2>3 DEF Sound, CellsDistinct, Live
  <2> QED  BY <2>2, <2>4
<1>3. r = [t EXCEPT !.users = arlist_remove(@, n), !.heap[p] = Freed]
  <2>1. ~BadRead(t, n)
    BY <1>2 DEF BadRead
  <2> QED  BY <2>1 DEF remove_user
<1> HIDE DEF n, r
<1>4. r.users = arlist_remove(us, n) /\ r.heap = h /\ r.bad = t.bad /\ r.out = t.out
  BY <1>1, <1>3
<1>5. /\ r.users \in Seq(Ptr) /\ Len(r.users) = Len(us) - 1
      /\ \A j \in 1 .. Len(us) - 1 :
           r.users[j] = IF j = n THEN Mix(us[n], us[n + 1], Len(us) - n + 1) ELSE us[j]
  <2> HIDE DEF us
  <2>1. us \in Seq(Ptr) /\ Len(us) <= 3 /\ n \in 1 .. Len(us)
    BY <1>1, <1>2
  <2>2. LET rest == arlist_remove(us, n)
        IN  /\ rest \in Seq(Ptr) /\ Len(rest) = Len(us) - 1
            /\ \A j \in 1 .. Len(us) - 1 :
                 rest[j] = IF j = n THEN Mix(us[n], us[n + 1], Len(us) - n + 1) ELSE us[j]
    BY <2>1, RemoveSlots
  <2> QED  BY <1>4, <2>2
<1>6. \A a : Live(h, a) <=> Live(t.heap, a) /\ a # p
  BY <1>1, ServerAssumption DEF Live, Cells
<1>7. h \in Cells /\ CellsDistinct(h)
  <2>1. h \in Cells
    BY <1>1 DEF Cells
  <2> QED  BY <1>1, <2>1, FreeingKeepsDistinct DEF Sound
<1>8. CASE Len(us) = 1
  <2>1. Len(r.users) = 0 /\ \A a : ~Live(h, a)
    BY <1>2, <1>5, <1>6, <1>8 DEF Sound
  <2> HIDE DEF h
  <2>2. r.users = <<>>
    BY <1>5, <2>1
  <2>3. <<>> \in Seq(Ptr) /\ Len(<<>>) = 0 /\ 1 .. Len(<<>>) = {}
    OBVIOUS
  <2>4. Sound(<<>>, h)
    BY <1>7, <2>1, <2>3 DEF Sound
  <2> QED  BY <1>4, <2>2, <2>4 DEF r, h
<1>9. CASE Len(us) = 2
  <2> DEFINE m == 3 - n
  <2>1. n \in {1, 2} /\ m \in {1, 2} /\ m # n /\ m \in 1 .. Len(us)
    BY <1>2, <1>9
  <2>2. us[m] # p /\ Live(t.heap, us[m]) /\ us[m] \in Addr
    <3> HIDE DEF m
    <3>1. us[m] # us[n] /\ Live(t.heap, us[m])
      BY <1>2, <2>1 DEF Sound
    <3> QED  BY <1>2, <3>1 DEF Live
  <2>3. r.users[1] = us[m]
    <3>1. CASE n = 2
      BY <1>5, <1>9, <3>1
    <3>2. CASE n = 1
      <4>1. r.users[1] = Mix(us[1], us[2], 2)
        BY <1>5, <1>9, <3>2
      <4>2. us[1] \in Addr /\ us[2] \in Addr
        BY <1>1, <1>2, <2>2, <3>2
      <4> QED  BY <4>1, <4>2, <3>2, MixLow
    <3> QED  BY <2>1, <3>1, <3>2
  <2>4. Len(r.users) = 1 /\ \A k \in 1 .. Len(r.users) : k = 1
    BY <1>5, <1>9
  <2>5. ASSUME NEW a, Live(h, a) PROVE a = us[m]
    <3>1. PICK k \in 1 .. Len(us) : us[k] = a
      BY <1>6, <2>5 DEF Sound
    <3>2. k = m
      BY <1>2, <1>6, <1>9, <2>1, <2>5, <3>1
    <3> QED  BY <3>1, <3>2
  <2> HIDE DEF m, h
  <2>6. Live(h, r.users[1])
    BY <1>6, <2>2, <2>3
  <2>7. Sound(r.users, h)
    <3>1. 1 \in 1 .. Len(r.users) /\ \A j, k \in 1 .. Len(r.users) : j = k
      BY <2>4
    <3>2. \A a : Live(h, a) => \E k \in 1 .. Len(r.users) : r.users[k] = a
      BY <2>3, <2>5, <3>1
    <3>3. \A k \in 1 .. Len(r.users) : Live(h, r.users[k])
      BY <2>4, <2>6
    <3>4. r.users \in Seq(Ptr) /\ Len(r.users) <= 2
      BY <1>5, <2>4
    <3> QED  BY <1>7, <3>1, <3>2, <3>3, <3>4, Zenon DEF Sound
  <2> QED  BY <1>4, <2>7 DEF r, h
<1>10. Len(us) = 1 \/ Len(us) = 2
  <2>1. \A l \in Nat : \A m \in 1 .. l : l <= 2 => l = 1 \/ l = 2
    OBVIOUS
  <2> QED  BY <1>1, <1>2, <2>1
<1> QED  BY <1>8, <1>9, <1>10

\* Writing to a user, or removing it when nobody reads its FIFO.
LEMMA SendPair ==
  ASSUME OneRegion, NEW t, TableTyped(t), Sound(t.users, t.heap), ~t.bad,
         NEW p, Live(t.heap, p), NEW data \in Packet
  PROVE  LET r == send_to(t, p, data)
         IN  /\ ~r.bad /\ Sound(r.users, r.heap)
             /\ \/ data = NODATA /\ r = t
                \/ /\ data # NODATA /\ ClosedPipe(t, p) /\ r = remove_user(t, p)
                   /\ r.out = t.out /\ r.heap = [t.heap EXCEPT ![p] = Freed]
                \/ /\ data # NODATA /\ ~ClosedPipe(t, p)
                   /\ r.users = t.users /\ r.heap = t.heap
                   /\ r.out = Append(t.out, [to |-> t.heap[p].path, data |-> data])
<1>1. CASE data = NODATA
  BY <1>1 DEF send_to
<1>2. CASE data # NODATA /\ ClosedPipe(t, p)
  BY <1>2, RemovePair DEF send_to
<1>3. CASE data # NODATA /\ ~ClosedPipe(t, p)
  <2> DEFINE r == send_to(t, p, data)
  <2>1. r = [t EXCEPT !.out = Append(@, [to |-> t.heap[p].path, data |-> data])]
    BY <1>3 DEF send_to
  <2> HIDE DEF r
  <2>2. /\ r.users = t.users /\ r.heap = t.heap /\ r.bad = t.bad
        /\ r.out = Append(t.out, [to |-> t.heap[p].path, data |-> data])
    BY <2>1 DEF TableTyped
  <2> QED  BY <1>3, <2>2 DEF r
<1> QED  BY <1>1, <1>2, <1>3

-----------------------------------------------------------------------------
(* What the handlers do.                                                    *)

LEMMA NowPair ==
  ASSUME PairInv
  PROVE  /\ TableTyped(Now) /\ Now.users = users /\ Now.heap = heap /\ Now.out = <<>> /\ ~Now.bad
         /\ Sound(Now.users, Now.heap) /\ Len(users) \in Nat /\ heap \in Cells
BY NowOK DEF PairInv, TableOK

LEMMA OneWritten ==
  /\ Untold(<<>>)
  /\ \A w \in Written : w.data[1] \notin {"OKOK", "BYEE"} => Untold(Append(<<>>, w))
<1>1. DOMAIN <<>> = {}
  OBVIOUS
<1>2. ASSUME NEW w \in Written, w.data[1] \notin {"OKOK", "BYEE"} PROVE Untold(Append(<<>>, w))
  <2>1. \A k \in DOMAIN Append(<<>>, w) : Append(<<>>, w)[k] = w
    OBVIOUS
  <2> QED  BY <1>2, <2>1 DEF Untold
<1> QED  BY <1>1, <1>2 DEF Untold

\* One packet is all there is behind no packets.
LEMMA AppendedOnly ==
  ASSUME NEW to, NEW data, NEW o, o = Append(<<>>, [to |-> to, data |-> data])
  PROVE  DOMAIN o = {1} /\ \A k \in DOMAIN o : o[k].to = to /\ o[k].data = data
<1> DEFINE w == [to |-> to, data |-> data]
<1>1. w.to = to /\ w.data = data
  OBVIOUS
<1> HIDE DEF w
<1>2. o = Append(<<>>, w)
  BY DEF w
<1>3. DOMAIN o = {1} /\ o[1] = w
  BY <1>2
<1> QED  BY <1>1, <1>3

Kept(t) == t.heap = heap /\ Untold(t.out)

Dropped(t, p) == Live(heap, p) /\ t.heap = [heap EXCEPT ![p] = Freed] /\ Untold(t.out)

\* The new user is told its number, unless no packet can carry it.
Joined(t, a) ==
  LET new == NewUser(get_available_id(Now))
  IN  /\ a \in Addr /\ heap[a] = Freed /\ new \in User
      /\ t.heap = [heap EXCEPT ![a] = new]
      /\ t.out = IF new.id > MAX_NUM THEN <<>>
                 ELSE Append(<<>>, [to |-> new.path, data |-> <<"OKOK", new.id>>])
      /\ new.id > MAX_NUM \/ fifo[new.path] = "open"

LEMMA SentPair ==
  ASSUME OneRegion, PairInv, NEW p, Live(heap, p), NEW data \in Packet,
         data = NODATA \/ data[1] \notin {"OKOK", "BYEE"}
  PROVE  LET t == send_to(Now, p, data)
         IN  /\ ~t.bad /\ Sound(t.users, t.heap)
             /\ \/ Kept(t) /\ t.users = users
                \/ /\ Dropped(t, p) /\ ClosedPipe(Now, p)
                   /\ t.heap = [heap EXCEPT ![p] = Freed]
<1> DEFINE t == send_to(Now, p, data)
<1>1. /\ TableTyped(Now) /\ Now.users = users /\ Now.heap = heap /\ Now.out = <<>> /\ ~Now.bad
      /\ Sound(Now.users, Now.heap)
  BY NowPair
<1>2. /\ ~t.bad /\ Sound(t.users, t.heap)
      /\ \/ data = NODATA /\ t = Now
         \/ /\ data # NODATA /\ ClosedPipe(Now, p)
            /\ t.out = <<>> /\ t.heap = [heap EXCEPT ![p] = Freed]
         \/ /\ data # NODATA /\ t.users = users /\ t.heap = heap
            /\ t.out = Append(<<>>, [to |-> heap[p].path, data |-> data])
  <2>1. /\ ~t.bad /\ Sound(t.users, t.heap)
        /\ \/ data = NODATA /\ t = Now
           \/ /\ data # NODATA /\ ClosedPipe(Now, p) /\ t = remove_user(Now, p)
              /\ t.out = Now.out /\ t.heap = [Now.heap EXCEPT ![p] = Freed]
           \/ /\ data # NODATA /\ ~ClosedPipe(Now, p)
              /\ t.users = Now.users /\ t.heap = Now.heap
              /\ t.out = Append(Now.out, [to |-> Now.heap[p].path, data |-> data])
    BY <1>1, SendPair
  <2> HIDE DEF t
  <2> QED  BY <1>1, <2>1
<1>3. data # NODATA => Untold(Append(<<>>, [to |-> heap[p].path, data |-> data]))
  <2>1. [to |-> heap[p].path, data |-> data] \in Written
    BY NowOK DEF PairInv, Written, User
  <2> QED  BY <2>1, OneWritten
<1> HIDE DEF t
<1> QED  BY <1>1, <1>2, <1>3, OneWritten DEF Kept, Dropped, t

\* A new user who no longer reads its FIFO is gone again, and nothing was written.
LEMMA AddedPair ==
  ASSUME OneRegion, TwoPaths, PairInv, NEW a \in Addr, Registering(a)
  PROVE  LET t == Added(a, get_available_id(Now))
         IN  /\ ~t.bad /\ Sound(t.users, t.heap)
             /\ (Kept(t) /\ t.out = <<>> /\ fifo[req[2]] # "open") \/ Joined(t, a)
<1> DEFINE n == get_available_id(Now)
           x == Enrolled(a, n)
           data == req_server_OKOK(n)
           t == Added(a, n)
           new == NewUser(n)
<1>1. Inv /\ Sound(users, heap) /\ Len(users) \in Nat /\ heap[a] = Freed /\ heap \in Cells
  BY NowOK DEF PairInv, Registering
<1>2. LET m == get_available_id(Now)
          y == Enrolled(a, m)
      IN  /\ m \in Nat /\ NewUser(m) \in User /\ req_server_OKOK(m) \in Packet
          /\ Added(a, m) = send_to(y, a, req_server_OKOK(m))
          /\ TableTyped(y) /\ y.out = <<>> /\ ~y.bad
          /\ y.heap = [heap EXCEPT ![a] = NewUser(m)]
          /\ Live(y.heap, a) /\ y.heap[a] = NewUser(m)
          /\ \A k \in 1 .. Len(users) :
               /\ Live(heap, users[k]) /\ users[k] # a
               /\ heap[users[k]].nick # req[1] /\ heap[users[k]].path # req[2]
          /\ \/ Len(users) = 3
             \/ /\ CellsDistinct(y.heap)
                /\ Len(y.users) = Len(users) + 1
                /\ \A k \in 1 .. Len(y.users) : y.users[k] = a \/ y.users[k] \in Range(users)
                /\ \E k \in 1 .. Len(y.users) : y.users[k] = a
                /\ \A k \in 1 .. Len(users) : \E j \in 1 .. Len(y.users) : y.users[j] = users[k]
  BY <1>1, EnrolledOK
<1>3. /\ n \in Nat /\ new \in User /\ data \in Packet /\ t = send_to(x, a, data)
      /\ TableTyped(x) /\ x.out = <<>> /\ ~x.bad /\ x.heap = [heap EXCEPT ![a] = new]
      /\ Live(x.heap, a) /\ x.heap[a] = new
      /\ \A k \in 1 .. Len(users) :
           Live(heap, users[k]) /\ users[k] # a /\ heap[users[k]].path # req[2]
      /\ \/ Len(users) = 3
         \/ /\ CellsDistinct(x.heap)
            /\ Len(x.users) = Len(users) + 1
            /\ \A k \in 1 .. Len(x.users) : x.users[k] = a \/ x.users[k] \in Range(users)
            /\ \E k \in 1 .. Len(x.users) : x.users[k] = a
            /\ \A k \in 1 .. Len(users) : \E j \in 1 .. Len(x.users) : x.users[j] = users[k]
  BY <1>2, Zenon
<1>4. new.id = n /\ new.path = req[2] /\ new.path \in Path
  BY <1>3 DEF NewUser, User
<1> HIDE DEF n, x, data, t, new
\* A third user would need a third FIFO.
<1>5. Len(users) <= 1
  <2> SUFFICES ASSUME Len(users) = 2 PROVE FALSE
    <3>1. \A l \in Nat : l <= 2 /\ l # 2 => l <= 1
      OBVIOUS
    <3> QED  BY <1>1, <3>1 DEF Sound
  <2>1. /\ users[1] # users[2] /\ Live(heap, users[1]) /\ Live(heap, users[2])
        /\ heap[users[1]].path # new.path /\ heap[users[2]].path # new.path
    BY <1>1, <1>3, <1>4 DEF Sound
  <2>2. heap[users[1]].path # heap[users[2]].path
    BY <1>1, <2>1 DEF Sound, CellsDistinct, Live
  <2>3. heap[users[1]].path \in Path /\ heap[users[2]].path \in Path
    BY <1>1, <2>1, NowOK DEF User
  <2> QED  BY <1>4, <2>1, <2>2, <2>3 DEF TwoPaths
<1>6. /\ CellsDistinct(x.heap) /\ Len(x.users) = Len(users) + 1
      /\ \A k \in 1 .. Len(x.users) : x.users[k] = a \/ x.users[k] \in Range(users)
      /\ \E k \in 1 .. Len(x.users) : x.users[k] = a
      /\ \A k \in 1 .. Len(users) : \E j \in 1 .. Len(x.users) : x.users[j] = users[k]
  <2>1. Len(users) # 3
    <3>1. \A l \in Nat : l <= 1 => l # 3
      OBVIOUS
    <3> QED  BY <1>1, <1>5, <3>1
  <2> QED  BY <1>3, <2>1
<1>7. \A b : Live(x.heap, b) <=> b = a \/ Live(heap, b)
  BY <1>1, <1>3 DEF Live, Cells
<1>8. Sound(x.users, x.heap)
  <2>1. x.users \in Seq(Ptr) /\ Len(x.users) <= 2 /\ x.heap \in Cells
    <3>1. \A l \in Nat : l <= 1 => l + 1 <= 2
      OBVIOUS
    <3> QED  BY <1>1, <1>3, <1>5, <1>6, <3>1 DEF TableTyped
  <2>2. \A b \in Range(users) : \E k \in 1 .. Len(users) : users[k] = b
    <3>1. DOMAIN users = 1 .. Len(users)
      BY <1>1 DEF Sound
    <3> QED  BY <3>1, Zenon DEF Range
  <2>3. \A k \in 1 .. Len(x.users) : Live(x.heap, x.users[k])
    <3>1. \A k \in 1 .. Len(users) : Live(x.heap, users[k])
      BY <1>3, <1>7
    <3>2. \A b \in Range(users) : Live(x.heap, b)
      BY <2>2, <3>1
    <3> QED  BY <1>3, <1>6, <3>2
  <2>4. \A b : Live(x.heap, b) => \E k \in 1 .. Len(x.users) : x.users[k] = b
    <3>1. ASSUME NEW b, Live(heap, b) PROVE \E k \in 1 .. Len(x.users) : x.users[k] = b
      <4>1. PICK k \in 1 .. Len(users) : users[k] = b
        BY <1>1, <3>1 DEF Sound
      <4> QED  BY <1>6, <4>1
    <3> QED  BY <1>6, <1>7, <3>1
  <2>5. ASSUME NEW j \in 1 .. Len(x.users), NEW k \in 1 .. Len(x.users), x.users[j] = x.users[k]
        PROVE  j = k
    <3>1. CASE Len(users) = 0
      <4>1. Len(x.users) = 1
        BY <1>6, <3>1
      <4> QED  BY <4>1
    <3>2. CASE Len(users) = 1
      <4>1. Len(x.users) = 2 /\ 1 \in 1 .. Len(users)
        BY <1>6, <3>2
      <4>2. \E l \in 1 .. 2 : x.users[l] = users[1]
        BY <1>6, <4>1
      <4>3. \E l \in 1 .. 2 : x.users[l] = a
        BY <1>6, <4>1
      <4>4. users[1] # a
        BY <1>3, <4>1
      <4>5. x.users[1] # x.users[2]
        BY <4>2, <4>3, <4>4
      <4>6. \A l \in 1 .. Len(x.users) : l = 1 \/ l = 2
        BY <4>1
      <4> QED  BY <2>5, <4>5, <4>6
    <3>3. Len(users) = 0 \/ Len(users) = 1
      <4>1. \A l \in Nat : l <= 1 => l = 0 \/ l = 1
        OBVIOUS
      <4> QED  BY <1>1, <1>5, <4>1
    <3> QED  BY <3>1, <3>2, <3>3
  <2> QED  BY <1>6, <2>1, <2>3, <2>4, <2>5 DEF Sound
<1>9. /\ ~t.bad /\ Sound(t.users, t.heap)
      /\ \/ data = NODATA /\ t = x
         \/ /\ data # NODATA /\ t.out = <<>> /\ t.heap = [x.heap EXCEPT ![a] = Freed]
            /\ fifo[req[2]] # "open"
         \/ /\ data # NODATA /\ t.heap = x.heap
            /\ t.out = Append(<<>>, [to |-> new.path, data |-> data])
            /\ fifo[new.path] = "open"
  <2>1. /\ ~send_to(x, a, data).bad
        /\ Sound(send_to(x, a, data).users, send_to(x, a, data).heap)
        /\ \/ data = NODATA /\ send_to(x, a, data) = x
           \/ /\ data # NODATA /\ ClosedPipe(x, a) /\ send_to(x, a, data) = remove_user(x, a)
              /\ send_to(x, a, data).out = x.out
              /\ send_to(x, a, data).heap = [x.heap EXCEPT ![a] = Freed]
           \/ /\ data # NODATA /\ ~ClosedPipe(x, a)
              /\ send_to(x, a, data).users = x.users /\ send_to(x, a, data).heap = x.heap
              /\ send_to(x, a, data).out = Append(x.out, [to |-> x.heap[a].path, data |-> data])
    <3>1. TableTyped(x) /\ ~x.bad /\ Live(x.heap, a) /\ data \in Packet
      BY <1>3
    <3> QED  BY <3>1, <1>8, SendPair
  <2>2. (ClosedPipe(x, a) => fifo[req[2]] # "open") /\ (~ClosedPipe(x, a) => fifo[new.path] = "open")
    BY <1>3, <1>4 DEF ClosedPipe
  <2> QED  BY <1>3, <2>1, <2>2
<1>10. [x.heap EXCEPT ![a] = Freed] = heap
  <2>1. heap = [b \in Addr |-> heap[b]]
    BY <1>1 DEF Cells
  <2> QED  BY <1>1, <1>3, <2>1 DEF Cells
<1>11. data = IF new.id > MAX_NUM THEN NODATA ELSE <<"OKOK", new.id>>
  BY <1>4 DEF data, req_server_OKOK, Numbered
<1>12. <<"OKOK", new.id>> # NODATA
  BY DEF NODATA
<1>13. CASE data = NODATA
  <2>1. t.heap = [heap EXCEPT ![a] = new] /\ t.out = <<>> /\ new.id > MAX_NUM
    BY <1>3, <1>9, <1>11, <1>12, <1>13
  <2> QED  BY <1>1, <1>3, <1>9, <2>1 DEF Joined, new, n, t
<1>14. CASE /\ data # NODATA /\ t.out = <<>> /\ t.heap = [x.heap EXCEPT ![a] = Freed]
            /\ fifo[req[2]] # "open"
  BY <1>9, <1>10, <1>14, OneWritten DEF Kept, t, n
<1>15. CASE /\ data # NODATA /\ t.heap = x.heap
            /\ t.out = Append(<<>>, [to |-> new.path, data |-> data])
            /\ fifo[new.path] = "open"
  <2>1. ~(new.id > MAX_NUM) /\ data = <<"OKOK", new.id>>
    BY <1>11, <1>15
  <2> QED  BY <1>1, <1>3, <1>9, <1>15, <2>1 DEF Joined, new, n, t
<1> QED  BY <1>9, <1>13, <1>14, <1>15

LEMMA ServedPair ==
  ASSUME OneRegion, TwoPaths, PairInv, NEW t, Served(t)
  PROVE  /\ ~t.bad /\ Sound(t.users, t.heap)
         /\ \/ Kept(t)
            \/ \E p : Dropped(t, p) /\ ClosedPipe(Now, p)
            \/ \E a : Joined(t, a)
<1>1. CASE /\ t.users = users /\ t.heap = heap /\ ~t.bad
           /\ t.out \in Seq(Written) /\ \A k \in DOMAIN t.out : t.out[k].data[1] \notin {"OKOK", "BYEE"}
  BY <1>1 DEF Kept, Untold, PairInv
<1>2. ASSUME NEW p, NEW data \in Packet, Live(heap, p), data = NODATA \/ data[1] \notin {"OKOK", "BYEE"},
             t = send_to(Now, p, data)
      PROVE  /\ ~t.bad /\ Sound(t.users, t.heap)
             /\ Kept(t) \/ (Dropped(t, p) /\ ClosedPipe(Now, p))
  BY <1>2, SentPair
<1>3. ASSUME NEW a \in Addr, Registering(a), t = Added(a, get_available_id(Now))
      PROVE  /\ ~t.bad /\ Sound(t.users, t.heap)
             /\ Kept(t) \/ Joined(t, a)
  BY <1>3, AddedPair
<1> QED  BY <1>1, <1>2, <1>3 DEF Served

\* The user is told BYEE, and goes.
Dismissed(t, p) ==
  /\ Live(heap, p) /\ ~ClosedPipe(Now, p)
  /\ t.heap = [heap EXCEPT ![p] = Freed]
  /\ t.out = Append(<<>>, [to |-> heap[p].path, data |-> <<"BYEE", heap[p].id>>])

LEMMA ByeePair ==
  ASSUME OneRegion, PairInv, NEW id \in Ids, NEW t, ByeeServed(id, t)
  PROVE  /\ ~t.bad /\ Sound(t.users, t.heap)
         /\ \E p : /\ heap[p].id = id
                   /\ (Dropped(t, p) /\ ClosedPipe(Now, p)) \/ Dismissed(t, p)
<1>1. PICK p : Live(heap, p) /\ heap[p].id = id /\ t = Byee(id, p)
  BY DEF ByeeServed
<1> DEFINE data == req_server_BYEE(id)
           x == send_to(Now, p, data)
           k == user_from_id(x, id)
<1>2. data \in Packet /\ data = <<"BYEE", id>> /\ data # NODATA
  <2>1. id \in Nat /\ ~(id > MAX_NUM)
    BY ServerAssumption DEF Ids
  <2> QED  BY <2>1, Packets DEF req_server_BYEE, Numbered, NODATA
<1>3. /\ ~x.bad /\ Sound(x.users, x.heap) /\ TableTyped(x)
      /\ \/ /\ ClosedPipe(Now, p) /\ x.out = <<>> /\ x.heap = [heap EXCEPT ![p] = Freed]
         \/ /\ ~ClosedPipe(Now, p) /\ x.users = users /\ x.heap = heap
            /\ x.out = Append(<<>>, [to |-> heap[p].path, data |-> data])
  <2>1. /\ TableTyped(Now) /\ Now.users = users /\ Now.heap = heap /\ Now.out = <<>> /\ ~Now.bad
        /\ Sound(Now.users, Now.heap)
    BY NowPair
  <2>2. /\ ~x.bad /\ Sound(x.users, x.heap)
        /\ \/ data = NODATA /\ x = Now
           \/ /\ data # NODATA /\ ClosedPipe(Now, p) /\ x = remove_user(Now, p)
              /\ x.out = Now.out /\ x.heap = [Now.heap EXCEPT ![p] = Freed]
           \/ /\ data # NODATA /\ ~ClosedPipe(Now, p)
              /\ x.users = Now.users /\ x.heap = Now.heap
              /\ x.out = Append(Now.out, [to |-> Now.heap[p].path, data |-> data])
    <3>1. Live(Now.heap, p) /\ data \in Packet
      BY <1>1, <1>2, <2>1
    <3> HIDE DEF data
    <3> QED  BY <2>1, <3>1, SendPair
  <2>3. TableTyped(x)
    BY <1>1, <1>2, SendNow DEF PairInv, TableOK
  <2> HIDE DEF x, data
  <2> QED  BY <1>2, <2>1, <2>2, <2>3
<1>4. t = IF x.bad \/ k = 0 THEN x
          ELSE IF BadRead(x, k) THEN [x EXCEPT !.bad = TRUE]
          ELSE remove_user(x, x.users[k])
  BY <1>1 DEF Byee
<1> HIDE DEF x, data
<1>5. \/ k = 0 /\ \A j \in 1 .. Len(x.users) : x.heap[x.users[j]].id # id
      \/ k \in 1 .. Len(x.users) /\ k # 0 /\ (Live(x.heap, x.users[k]) => x.heap[x.users[k]].id = id)
  <2>1. x.users \in Seq(Ptr) /\ Len(x.users) <= 3
    BY <1>3 DEF TableTyped
  <2>2. \/ k = 0 /\ \A j \in 1 .. Len(x.users) : x.heap[x.users[j]].id # id
        \/ k \in 1 .. Len(x.users) /\ (Live(x.heap, x.users[k]) => x.heap[x.users[k]].id = id)
    BY <2>1, UserFromId
  <2> HIDE DEF k
  <2> QED  BY <2>2
<1>6. heap \in Cells /\ p \in Addr /\ CellsDistinct(heap)
  BY <1>1, NowOK DEF PairInv, Sound, Live
<1> HIDE DEF k
<1>7. CASE ClosedPipe(Now, p) /\ x.out = <<>> /\ x.heap = [heap EXCEPT ![p] = Freed]
  <2>1. \A j \in 1 .. Len(x.users) : x.heap[x.users[j]].id # id /\ Live(x.heap, x.users[j])
    <3>1. \A a : Live(x.heap, a) => a \in Addr /\ a # p /\ Live(heap, a) /\ x.heap[a] = heap[a]
      BY <1>6, <1>7 DEF Live, Cells
    <3>2. \A a : Live(x.heap, a) => x.heap[a].id # id
      BY <1>1, <1>6, <3>1 DEF CellsDistinct
    <3> QED  BY <1>3, <3>2 DEF Sound
  <2>2. k = 0
    BY <1>5, <2>1
  <2>3. t = x
    BY <1>4, <2>2
  <2>4. Dropped(t, p)
    BY <1>1, <1>7, <2>3, OneWritten DEF Dropped
  <2> QED  BY <1>1, <1>3, <1>7, <2>3, <2>4
<1>8. CASE /\ ~ClosedPipe(Now, p) /\ x.users = users /\ x.heap = heap
           /\ x.out = Append(<<>>, [to |-> heap[p].path, data |-> data])
  <2>1. PICK j \in 1 .. Len(users) : users[j] = p
    BY <1>1 DEF PairInv, Sound
  <2>2. k \in 1 .. Len(x.users) /\ k # 0 /\ Live(x.heap, x.users[k]) /\ x.heap[x.users[k]].id = id
    BY <1>1, <1>3, <1>5, <1>8, <2>1 DEF Sound
  <2>3. x.users[k] = p
    BY <1>1, <1>6, <1>8, <2>2 DEF CellsDistinct, Live
  <2>4. t = remove_user(x, p)
    BY <1>3, <1>4, <2>2, <2>3 DEF BadRead
  <2>5. /\ remove_user(x, p).bad = x.bad /\ remove_user(x, p).out = x.out
        /\ remove_user(x, p).heap = [x.heap EXCEPT ![p] = Freed]
        /\ Sound(remove_user(x, p).users, remove_user(x, p).heap)
    BY <1>3, <2>2, <2>3, RemovePair
  <2>6. Dismissed(t, p)
    BY <1>1, <1>2, <1>8, <2>4, <2>5 DEF Dismissed
  <2> QED  BY <1>1, <1>3, <2>4, <2>5, <2>6
<1> QED  BY <1>3, <1>7, <1>8

\* Every cell in use has its slot: nothing is collected.
LEMMA NothingCollected ==
  ASSUME NEW t, Sound(t.users, t.heap)
  PROVE  Collected(t) = t.heap
<1>1. t.heap = [a \in Addr |-> t.heap[a]]
  BY DEF Sound, Cells
<1>2. ASSUME NEW a \in Addr, a \notin Range(t.users) PROVE t.heap[a] = Freed
  BY <1>2 DEF Sound, Live, Range
<1> QED  BY <1>1, <1>2 DEF Collected

-----------------------------------------------------------------------------
(* What a step does to the table.                                           *)

\* Nobody comes or goes; one user goes; one user comes.
Stays == heap' = heap /\ Untold(out')

Goes(p) ==
  /\ Live(heap, p) /\ heap' = [heap EXCEPT ![p] = Freed]
  /\ \/ ClosedPipe(Now, p) /\ Untold(out')
     \/ /\ ~ClosedPipe(Now, p) /\ BYEE(heap[p].id)
        /\ out' = Append(<<>>, [to |-> heap[p].path, data |-> <<"BYEE", heap[p].id>>])

Comes(a, new) ==
  /\ a \in Addr /\ heap[a] = Freed /\ new \in User
  /\ heap' = [heap EXCEPT ![a] = new]
  /\ out' = IF new.id > MAX_NUM THEN <<>>
            ELSE Append(<<>>, [to |-> new.path, data |-> <<"OKOK", new.id>>])
  /\ new.id > MAX_NUM \/ fifo[new.path] = "open"

Serves ==
  /\ phase' = phase
  /\ Sound(users, heap)'
  /\ \/ Stays
     \/ \E p : Goes(p)
     \/ \E a, new : Comes(a, new)

LEMMA NotBroken ==
  ASSUME OneRegion, TwoPaths, PairInv
  PROVE  ~Broken
<1>1. /\ IsInjective(users) /\ \A k \in 1 .. Len(users) : Live(heap, users[k])
      /\ ~(pc = "LIST" /\ i \in DOMAIN users /\ ~Live(heap, u))
  <2>1. DOMAIN users = 1 .. Len(users)
    BY NowOK DEF PairInv
  <2> QED  BY <2>1 DEF PairInv, Sound, IsInjective, Listening
<1> QED  BY <1>1, ServedPair, ByeePair DEF Broken

\* A server that has stopped does nothing more.
LEMMA StaysHalted ==
  ASSUME phase # "running", Halted, [Next]_vars
  PROVE  SameUsers /\ pc' = pc
<1>1. CASE UNCHANGED vars
  BY <1>1 DEF vars, SameUsers
<1>2. ASSUME NEW path \in Path, Client(path) PROVE SameUsers /\ pc' = pc
  BY <1>2 DEF Client, MakeFifo, StartReading, StopReading, Unlink, Fifo, SameUsers
<1>3. ~Receive
  BY DEF Receive, HELO, BYEE, BCST, PRVT, LIST, SHUT, ReadFails, From, Request
<1>4. ~Serve
  BY DEF Halted, Serve, OpenReturns, Refuse, Register, Broadcast, BroadcastEnds, ListOne, ListEnds,
         Broadcasting
<1> QED  BY <1>1, <1>2, <1>3, <1>4 DEF Next

LEMMA PairStep ==
  ASSUME OneRegion, TwoPaths, PairInv, [Next]_vars
  PROVE  \/ SameUsers
         \/ phase = "running" /\ Stops("exited")
         \/ phase = "running" /\ Serves
<1>1. CASE phase # "running"
  BY <1>1, StaysHalted DEF PairInv
<1>2. CASE phase = "running"
  <2>1. Step
    BY NextStep DEF PairInv
  <2>2. ASSUME NEW t, Left(t), Sound(t.users, t.heap)
        PROVE  /\ phase' = phase /\ heap' = t.heap /\ out' = t.out
               /\ Sound(users, heap)'
    <3>1. phase' = phase /\ users' = t.users /\ heap' = t.heap /\ out' = t.out
      BY <2>2, NothingCollected DEF Left
    <3> QED  BY <2>2, <3>1 DEF Sound, Live, CellsDistinct
  <2>3. ASSUME NEW t, Served(t), Left(t) PROVE Serves
    <3>1. /\ Sound(t.users, t.heap)
          /\ \/ Kept(t)
             \/ \E p : Dropped(t, p) /\ ClosedPipe(Now, p)
             \/ \E a : Joined(t, a)
      BY <2>3, ServedPair
    <3>2. phase' = phase /\ heap' = t.heap /\ out' = t.out /\ Sound(users, heap)'
      BY <2>2, <2>3, <3>1
    <3>3. CASE Kept(t)
      BY <3>2, <3>3 DEF Kept, Stays, Serves, Untold
    <3>4. ASSUME NEW p, Dropped(t, p), ClosedPipe(Now, p) PROVE Serves
      BY <3>2, <3>4 DEF Dropped, Goes, Serves, Untold
    <3>5. ASSUME NEW a, Joined(t, a) PROVE Serves
      <4>1. Comes(a, NewUser(get_available_id(Now)))
        BY <3>2, <3>5 DEF Joined, Comes
      <4> QED  BY <3>2, <4>1 DEF Serves
    <3> QED  BY <3>1, <3>3, <3>4, <3>5
  <2>4. ASSUME NEW id \in Ids, NEW t, BYEE(id), ByeeServed(id, t), Left(t) PROVE Serves
    <3>1. Sound(t.users, t.heap)
      BY <2>4, ByeePair
    <3>2. PICK p : /\ heap[p].id = id
                   /\ (Dropped(t, p) /\ ClosedPipe(Now, p)) \/ Dismissed(t, p)
      BY <2>4, ByeePair
    <3>3. phase' = phase /\ heap' = t.heap /\ out' = t.out /\ Sound(users, heap)'
      BY <2>2, <2>4, <3>1
    <3>4. BYEE(heap[p].id)
      BY <2>4, <3>2
    <3>5. CASE Dropped(t, p) /\ ClosedPipe(Now, p)
      BY <3>3, <3>5 DEF Dropped, Goes, Serves, Untold
    <3>6. CASE Dismissed(t, p)
      BY <3>3, <3>4, <3>6 DEF Dismissed, Goes, Serves
    <3> QED  BY <3>2, <3>5, <3>6
  <2> QED  BY <1>2, <2>1, <2>3, <2>4, NotBroken DEF Step
<1> QED  BY <1>1, <1>2

LEMMA PairInit == Init => PairSafe
<1> SUFFICES ASSUME Init PROVE PairSafe
  OBVIOUS
<1>1. Inv
  BY InitInv
<1>2. Len(users) = 0 /\ \A a : ~Live(heap, a)
  BY DEF Init, Live
<1>3. Sound(users, heap)
  BY <1>1, <1>2 DEF Inv, TableInv, Sound
<1>4. BroadcastsOther /\ Listening /\ phase = "running" /\ out = <<>>
  BY DEF Init, BroadcastsOther, Listening
<1>5. Told
  BY <1>4 DEF Told
<1> QED  BY <1>1, <1>3, <1>4, <1>5 DEF PairInv, PairSafe

\* Whom the last step told a number.
LEMMA ComesTold ==
  ASSUME PairInv, NEW a, NEW new, Comes(a, new)
  PROVE  /\ \A b : Live(heap', b) <=> b = a \/ Live(heap, b)
         /\ heap'[a] = new /\ \A b : Live(heap, b) => b # a /\ heap'[b] = heap[b]
         /\ new.id \in Nat
         /\ new.id > MAX_NUM => out' = <<>>
         /\ ~(new.id > MAX_NUM) =>
              /\ fifo[new.path] = "open"
              /\ DOMAIN out' = {1}
              /\ out'[1].to = new.path /\ out'[1].data = <<"OKOK", new.id>>
<1>1. heap \in Cells /\ new # Freed /\ new.id \in Nat
  BY NowOK, ServerAssumption DEF PairInv, Comes, User
<1>2. \A b : Live(heap', b) <=> b = a \/ Live(heap, b)
  BY <1>1 DEF Comes, Live, Cells
<1>3. heap'[a] = new /\ \A b : Live(heap, b) => b # a /\ heap'[b] = heap[b]
  BY <1>1 DEF Comes, Live, Cells
<1>4. ASSUME ~(new.id > MAX_NUM)
      PROVE  DOMAIN out' = {1} /\ out'[1].to = new.path /\ out'[1].data = <<"OKOK", new.id>>
  <2> DEFINE w == [to |-> new.path, data |-> <<"OKOK", new.id>>]
  <2>1. out' = Append(<<>>, w)
    BY <1>4 DEF Comes
  <2>2. w.to = new.path /\ w.data = <<"OKOK", new.id>>
    OBVIOUS
  <2> HIDE DEF w
  <2>3. DOMAIN out' = {1} /\ out'[1] = w
    BY <2>1
  <2> QED  BY <2>2, <2>3
<1> QED  BY <1>1, <1>2, <1>3, <1>4 DEF Comes

\* LIST takes its user out of a table of two with the last packet it has to write: the one
\* who is left stands in front of the loop's next slot.
LEMMA ListedWhileThere ==
  ASSUME OneRegion, PairInv, ListOne
  PROVE  Listening'
<1> DEFINE packet == req_server_LIST(Len(users), heap[users[i]].nick)
           t == send_to(Now, u, packet)
<1>0. Len(users) \in Nat /\ DOMAIN users = 1 .. Len(users)
  BY NowPair, NowOK DEF PairInv
<1>1. /\ i \in 1 .. Len(users) /\ Len(users) <= 2 /\ Live(heap, users[i])
  <2>1. i \in 1 .. Len(users)
    BY <1>0 DEF ListOne
  <2> QED  BY <2>1 DEF PairInv, Sound
<1>2. Live(heap, u)
  BY <1>1 DEF PairInv, Listening, ListOne
<1>3. (i' = i + 1 /\ u' = u /\ users' = t.users /\ heap' = Collected(t)) \/ pc' = "idle"
  BY <1>1, <1>2 DEF ListOne, Leaves, Stops, Idle
<1>4. packet \in Packet /\ packet # NODATA
  <2>1. packet \in Packet
    BY <1>1, NowOK, Packets DEF User, PairInv
  <2> QED  BY <2>1 DEF req_server_LIST, NODATA
<1> HIDE DEF packet
<1>5. /\ Sound(t.users, t.heap)
      /\ (t.users = users /\ t.heap = heap) \/ t.heap = [heap EXCEPT ![u] = Freed]
  <2>1. /\ TableTyped(Now) /\ Now.users = users /\ Now.heap = heap /\ ~Now.bad
        /\ Sound(Now.users, Now.heap)
    BY NowPair
  <2>2. Live(Now.heap, u)
    BY <1>2, <2>1
  <2>3. /\ Sound(t.users, t.heap)
        /\ \/ packet = NODATA
           \/ t.heap = [Now.heap EXCEPT ![u] = Freed]
           \/ t.users = Now.users /\ t.heap = Now.heap
    BY <1>4, <2>1, <2>2, SendPair
  <2> HIDE DEF t
  <2> QED  BY <1>4, <2>1, <2>3
<1> HIDE DEF t
<1>6. Collected(t) = t.heap
  BY <1>5, NothingCollected
<1>7. CASE t.users = users /\ t.heap = heap
  BY <1>2, <1>3, <1>6, <1>7 DEF Listening, Live
<1>8. CASE t.heap = [heap EXCEPT ![u] = Freed]
  <2>1. PICK k \in 1 .. Len(users) : users[k] = u
    BY <1>2 DEF PairInv, Sound
  <2>2. \A a : Live(t.heap, a) => Live(heap, a) /\ a # u
    BY <1>8, NowPair DEF Live, Cells
  <2>3. \A j \in 1 .. Len(t.users) : t.users[j] # u /\ \E l \in 1 .. Len(users) : users[l] = t.users[j]
    BY <1>5, <2>2 DEF PairInv, Sound
  <2>4. Len(t.users) # 2
    <3> SUFFICES ASSUME Len(t.users) = 2 PROVE FALSE
      OBVIOUS
    <3>1. 1 \in 1 .. Len(t.users) /\ 2 \in 1 .. Len(t.users) /\ t.users[1] # t.users[2]
      BY <1>5 DEF Sound
    <3>2. PICK l, m \in 1 .. Len(users) : users[l] = t.users[1] /\ users[m] = t.users[2]
      BY <2>3, <3>1
    <3>3. l # k /\ m # k /\ l # m
      BY <2>1, <2>3, <3>1, <3>2
    <3>4. \A j \in 1 .. Len(users) : j = 1 \/ j = 2
      BY <1>0, <1>1
    <3>5. (k = 1 \/ k = 2) /\ (l = 1 \/ l = 2) /\ (m = 1 \/ m = 2)
      BY <3>4
    <3> QED  BY <3>3, <3>5
  <2>5. Len(t.users) \in Nat /\ Len(t.users) <= 1
    <3>1. t.users \in Seq(Ptr) /\ Len(t.users) <= 2
      BY <1>5 DEF Sound
    <3>2. Len(t.users) \in Nat
      BY <3>1
    <3>3. \A n \in Nat : n <= 2 /\ n # 2 => n <= 1
      OBVIOUS
    <3> QED  BY <2>4, <3>1, <3>2, <3>3
  <2> QED  BY <1>1, <1>3, <2>5 DEF Listening
<1> QED  BY <1>5, <1>7, <1>8

LEMMA NextListening ==
  ASSUME OneRegion, PairInv, [Next]_vars
  PROVE  Listening'
<1>1. pc' # "LIST" => Listening'
  BY DEF Listening
<1>2. UNCHANGED <<users, heap, pc, i, u>> => Listening'
  BY DEF PairInv, Listening, Live
<1>3. \A how : Stops(how) => Listening'
  BY <1>1 DEF Stops, Idle
<1>4. ASSUME NEW t, Leaves(t, Idle) PROVE Listening'
  BY <1>1, <1>3, <1>4 DEF Leaves, Idle
<1>5. ASSUME NEW how \in {"BCST", "SHUT"}, NEW packet, NEW t, Leaves(t, StartBroadcast(how, packet))
      PROVE  Listening'
  BY <1>1, <1>3, <1>5 DEF Leaves, StartBroadcast
<1>6. CASE UNCHANGED vars
  BY <1>2, <1>6 DEF vars
<1>7. ASSUME NEW path \in Path, Client(path) PROVE Listening'
  BY <1>2, <1>7 DEF Client, MakeFifo, StartReading, StopReading, Unlink, Fifo
<1>8. server_end => Listening'
  BY <1>3 DEF server_end
<1>9. CASE Serve
  <2>1. CASE OpenReturns
    BY <2>1, <1>1 DEF OpenReturns
  <2>2. CASE Refuse
    BY <2>2, <1>3, <1>4 DEF Refuse
  <2>3. ASSUME NEW a \in Addr, Register(a) PROVE Listening'
    BY <2>3, <1>4 DEF Register
  <2>4. CASE Broadcast
    <3>1. pc \in {"BCST", "SHUT"} /\ (pc' = pc \/ Stops("undefined"))
      BY <2>4 DEF Broadcast, Broadcasting, Leaves
    <3> QED  BY <3>1, <1>1, <1>3
  <2>5. CASE BroadcastEnds
    BY <2>5, <1>4, <1>8 DEF BroadcastEnds
  <2>6. CASE ListOne
    BY <2>6, ListedWhileThere
  <2>7. CASE ListEnds
    BY <2>7, <1>4 DEF ListEnds
  <2> QED  BY <1>9, <2>1, <2>2, <2>3, <2>4, <2>5, <2>6, <2>7 DEF Serve
<1>10. CASE Receive
  <2>1. ASSUME NEW nick, NEW path, HELO(nick, path) PROVE Listening'
    BY <2>1, <1>1 DEF HELO
  <2>2. ASSUME NEW id, BYEE(id) PROVE Listening'
    BY <2>2, <1>3, <1>4 DEF BYEE, From
  <2>3. ASSUME NEW id, NEW fits, BCST(id, fits) PROVE Listening'
    BY <2>3, <1>3, <1>5 DEF BCST, From
  <2>4. ASSUME NEW id, NEW nick, NEW fits, PRVT(id, nick, fits) PROVE Listening'
    <3> DEFINE k == user_from_nick(Now, nick)
               t == IF k # 0
                    THEN send_to(Now, users[k], req_server_PRVT(heap[Sender(id)].nick, fits))
                    ELSE send_to(Now, Sender(id), req_server_BCST("SERVER", TRUE))
    <3>1. Stops("undefined") \/ Leaves(t, Idle)
      BY <2>4 DEF PRVT, From
    <3> HIDE DEF t
    <3> QED  BY <3>1, <1>3, <1>4
  <2>5. ASSUME NEW id, LIST(id) PROVE Listening'
    <3> DEFINE k == user_from_id(Now, id)
    <3>1. /\ k # 0
          /\ \/ Stops("undefined")
             \/ /\ ~BadRead(Now, k) /\ u' = users[k]
                /\ users' = users /\ heap' = Collected(Now)
      BY <2>5, NowPair DEF LIST, From, Sender, Leaves
    <3>2. CASE ~BadRead(Now, k) /\ u' = users[k] /\ users' = users /\ heap' = Collected(Now)
      <4>1. Collected(Now) = heap
        BY NowPair, NothingCollected
      <4>2. k \in 1 .. Len(users)
        BY <3>1, NowPair, NowOK, UserFromId DEF PairInv, Sound
      <4>3. Live(heap, users[k])
        BY <4>2 DEF PairInv, Sound
      <4> QED  BY <3>2, <4>1, <4>3 DEF Listening, Live
    <3> QED  BY <3>1, <3>2, <1>3
  <2>6. ASSUME NEW id, SHUT(id) PROVE Listening'
    <3> DEFINE k == user_from_id(Now, id)
               packet == req_server_SHUT(IF k = 0 THEN Null ELSE heap[users[k]].nick)
    <3>1. Stops("undefined") \/ Leaves(Now, StartBroadcast("SHUT", packet))
      BY <2>6 DEF SHUT
    <3> HIDE DEF packet
    <3> QED  BY <3>1, <1>3, <1>5
  <2>7. CASE ReadFails
    BY <2>7, <1>8 DEF ReadFails
  <2> QED  BY <1>10, <2>1, <2>2, <2>3, <2>4, <2>5, <2>6, <2>7 DEF Receive
<1> QED  BY <1>6, <1>7, <1>9, <1>10 DEF Next

LEMMA PairNext ==
  ASSUME OneRegion, TwoPaths, PairInv, [Next]_vars
  PROVE  PairInv'
<1>1. Inv' /\ BroadcastsOther' /\ Listening'
  BY NextInv, NextOther, NextListening DEF PairInv
<1>2. CASE SameUsers
  <2>1. Sound(users, heap)'
    BY <1>2 DEF PairInv, SameUsers, Sound, Live, CellsDistinct
  <2>2. phase # "running" => Halted'
    BY <1>2, StaysHalted DEF PairInv, SameUsers, Halted
  <2> QED  BY <1>1, <1>2, <2>1, <2>2 DEF PairInv, SameUsers
<1>3. CASE Stops("exited")
  <2>1. users' = <<>> /\ heap' = [a \in Addr |-> Freed] /\ pc' = "idle"
    BY <1>3 DEF Stops, Idle
  <2>2. users' \in Seq(Ptr) /\ Len(users') = 0 /\ heap' \in Cells /\ \A a : ~Live(heap', a)
    BY <2>1 DEF Live, Cells
  <2>3. Sound(users, heap)'
    BY <2>2 DEF Sound, CellsDistinct, Live
  <2> QED  BY <1>1, <2>1, <2>3 DEF PairInv, Halted
<1>4. CASE phase = "running" /\ Serves
  BY <1>1, <1>4 DEF Serves, PairInv
<1> QED  BY <1>2, <1>3, <1>4, PairStep

\* As long as no file is relayed, the server is safe, and OKOK is about users only.
LEMMA SafeNext ==
  ASSUME OneRegion, TwoPaths, PairSafe, [Next]_vars
  PROVE  PairSafe'
<1>1. PairInv /\ PairInv'
  BY PairNext DEF PairSafe
<1>2. CASE SameUsers
  BY <1>1, <1>2 DEF PairSafe, SameUsers, Told, Live, vars
<1>3. CASE Stops("exited")
  <2>1. phase' = "exited" /\ out' = <<>>
    BY <1>3 DEF Stops
  <2>2. Told'
    BY <2>1 DEF Told
  <2> QED  BY <1>1, <2>1, <2>2 DEF PairSafe
<1>4. CASE phase = "running" /\ Serves
  <2>1. phase' = "running"
    BY <1>4 DEF Serves
  <2>2. ASSUME Untold(out') PROVE Told'
    BY <2>2 DEF Untold, Told
  <2>3. ASSUME NEW a, NEW new, Comes(a, new) PROVE Told'
    <3>1. CASE new.id > MAX_NUM
      <4>1. out' = <<>>
        BY <1>1, <2>3, <3>1, ComesTold
      <4> QED  BY <4>1 DEF Told
    <3>2. CASE ~(new.id > MAX_NUM)
      <4>1. /\ DOMAIN out' = {1} /\ out'[1].to = new.path /\ out'[1].data = <<"OKOK", new.id>>
            /\ Live(heap', a) /\ heap'[a] = new
        BY <1>1, <2>3, <3>2, ComesTold
      <4>2. out'[1].data[2] = new.id
        BY <4>1
      <4> QED  BY <4>1, <4>2 DEF Told, Live
    <3> QED  BY <3>1, <3>2
  <2>4. ASSUME NEW q, Goes(q) PROVE Told'
    <3>1. CASE Untold(out')
      BY <2>2, <3>1
    <3>2. CASE out' = Append(<<>>, [to |-> heap[q].path, data |-> <<"BYEE", heap[q].id>>])
      <4>1. \A k \in DOMAIN out' : out'[k].data = <<"BYEE", heap[q].id>>
        BY <3>2, AppendedOnly
      <4> QED  BY <4>1 DEF Told
    <3> QED  BY <2>4, <3>1, <3>2 DEF Goes
  <2>5. Told'
    BY <1>4, <2>2, <2>3, <2>4 DEF Serves, Stays
  <2> QED  BY <1>1, <2>1, <2>5 DEF PairSafe
<1> QED  BY <1>1, <1>2, <1>3, <1>4, PairStep

\* In the runs of two clients the cells the table reaches are the cells in use.
LEMMA OnlineIsLive ==
  ASSUME Sound(users, heap)
  PROVE  Online = {a \in Addr : Live(heap, a)}
<1>1. \A a : Live(heap, a) => a \in Range(users)
  BY DEF Sound, Range
<1> QED  BY <1>1 DEF Online, Live

THEOREM PairInvariant ==
  ASSUME OneRegion, TwoPaths
  PROVE  Spec => []PairSafe
BY PairInit, SafeNext, PTL DEF Spec

\* With two FIFOs, no handler reads freed memory and server_end frees no user twice,
\* whoever comes, goes or crashes when.
THEOREM NeverReadsFreed ==
  ASSUME OneRegion, TwoPaths
  PROVE  Spec => []NeverUndefined
<1>1. PairSafe => NeverUndefined
  BY DEF PairSafe, NeverUndefined
<1> QED  BY <1>1, PairInvariant, PTL

\* With two FIFOs, a client that is told OKOK is in the table under that id: arlist_add
\* has not refused it, although pro_client_HELO does not look.
THEOREM ToldIsRegistered ==
  ASSUME OneRegion, TwoPaths
  PROVE  Spec => []OkokMeansRegistered
<1>1. PairSafe => OkokMeansRegistered
  <2> SUFFICES ASSUME PairSafe PROVE OkokMeansRegistered
    OBVIOUS
  <2>1. \A a : Live(heap, a) => a \in Online
    BY OnlineIsLive DEF PairSafe, PairInv, Live
  <2> QED  BY <2>1 DEF PairSafe, Told, OkokMeansRegistered
<1> QED  BY <1>1, PairInvariant, PTL

\* With two FIFOs, a user leaves the table only with its FIFO closed or by BYEE.
THEOREM NobodyElseLeaves ==
  ASSUME OneRegion, TwoPaths
  PROVE  Spec => OnlyClosedPipesLeave
<1> DEFINE Stay == phase' = "running" =>
             \A p \in Online : p \in Online' \/ ClosedPipe(Now, p) \/ BYEE(heap[p].id)
<1>1. PairInv /\ PairInv' /\ [Next]_vars => [Stay]_vars
  <2> SUFFICES ASSUME PairInv, PairInv', [Next]_vars, phase' = "running",
                      NEW p \in Online, p \notin Online', ~ClosedPipe(Now, p)
               PROVE  BYEE(heap[p].id)
    OBVIOUS
  <2>1. Live(heap, p) /\ p \in Addr /\ heap \in Cells
    BY NowOK DEF Online, Live, PairInv
  <2>2. ~Live(heap', p)
    <3>1. \A a : Live(heap', a) => a \in Range(users')
      BY DEF PairInv, Sound, Range, Live
    <3> QED  BY <3>1 DEF Online, Live
  <2>3. ~SameUsers /\ ~Stops("exited")
    BY <2>1, <2>2 DEF SameUsers, Stops, Live
  <2>4. Serves
    BY <2>3, PairStep
  <2>5. heap' # heap
    BY <2>1, <2>2 DEF Live
  <2>6. \A a, new : ~Comes(a, new)
    BY <2>1, <2>2, ComesTold
  <2>7. PICK q : Goes(q) /\ (ClosedPipe(Now, q) \/ BYEE(heap[q].id))
    BY <2>4, <2>5, <2>6 DEF Serves, Stays, Goes
  <2>8. p = q
    BY <2>1, <2>2, <2>7 DEF Goes, Live, Cells
  <2> QED  BY <2>7, <2>8
<1>2. Spec => [][Stay]_vars
  BY <1>1, PairInvariant, PTL DEF Spec, PairSafe
<1> QED  BY <1>2 DEF OnlyClosedPipesLeave

-----------------------------------------------------------------------------
(* The refinement.                                                          *)

SessionsOf(h) == {h[a] : a \in {b \in Addr : Live(h, b)}}

Reading == {q \in Path : fifo[q] = "open"}

\* The state of Sessions, read off the heap and the packets.
Mapped ==
  /\ TheSessions = SessionsOf(heap)
  /\ Untold(out) => Numbers("OKOK") = {} /\ Numbers("BYEE") = {}

LEMMA MappedState == PairInv => Mapped
BY OnlineIsLive DEF PairInv, TheSessions, SessionsOf, Untold, Numbers, Mapped

LEMMA StoppedIsStop ==
  ASSUME phase = "running", Stops("exited"), fifo' = fifo
  PROVE  Promise!Stop
<1>1. phase' = "exited" /\ users' = <<>> /\ out' = <<>>
  BY DEF Stops
<1>2. TheSessions' = {} /\ Numbers("OKOK")' = {} /\ Numbers("BYEE")' = {}
  BY <1>1 DEF TheSessions, Online, Range, Numbers
<1> QED  BY <1>1, <1>2 DEF Promise!Stop

LEMMA StaysIsQuiet ==
  ASSUME PairInv, PairInv', phase' = phase, heap' = heap, Untold(out')
  PROVE  Promise!Quiet
<1>1. TheSessions = SessionsOf(heap)
  BY MappedState DEF Mapped
<1>2. Mapped'
  BY MappedState, PTL
<1>3. TheSessions' = TheSessions /\ Numbers("OKOK")' = {} /\ Numbers("BYEE")' = {}
  BY <1>1, <1>2 DEF Mapped, SessionsOf, Live, Untold
<1> QED  BY <1>3 DEF Promise!Quiet

LEMMA GoesIsLeave ==
  ASSUME PairInv, PairInv', phase = "running", phase' = phase, fifo' = fifo, NEW p, Goes(p)
  PROVE  \E s \in TheSessions : Promise!Leave(s)
<1>1. /\ p \in Addr /\ heap \in Cells /\ CellsDistinct(heap)
      /\ Live(heap, p) /\ heap' = [heap EXCEPT ![p] = Freed]
      /\ heap[p].path \in Path
  BY NowOK DEF PairInv, Sound, Goes, Live, Cells, User
<1>2. Mapped /\ Mapped'
  BY MappedState, PTL
<1>3. /\ Numbers("OKOK")' = {}
      /\ Numbers("BYEE")' = IF heap[p].path \in Reading THEN {<<heap[p].path, heap[p].id>>} ELSE {}
  <2>1. ClosedPipe(Now, p) <=> heap[p].path \notin Reading
    <3>1. Now.heap = heap
      BY NowPair
    <3> QED  BY <1>1, <3>1 DEF ClosedPipe, Reading
  <2>2. CASE ClosedPipe(Now, p) /\ Untold(out')
    BY <1>2, <2>1, <2>2 DEF Mapped, Untold
  <2>3. CASE /\ ~ClosedPipe(Now, p)
             /\ out' = Append(<<>>, [to |-> heap[p].path, data |-> <<"BYEE", heap[p].id>>])
    <3> DEFINE to == heap[p].path
               n == heap[p].id
    <3>1. out' = Append(<<>>, [to |-> to, data |-> <<"BYEE", n>>])
      BY <2>3
    <3> HIDE DEF to, n
    <3>2. DOMAIN out' = {1} /\ \A k \in DOMAIN out' : out'[k].to = to /\ out'[k].data = <<"BYEE", n>>
      BY <3>1, AppendedOnly
    <3>3. out'[1].to = to /\ out'[1].data[1] = "BYEE" /\ out'[1].data[2] = n
      BY <3>2
    <3>4. Numbers("OKOK")' = {} /\ Numbers("BYEE")' = {<<to, n>>}
      BY <3>2, <3>3 DEF Numbers
    <3> QED  BY <2>1, <2>3, <3>4 DEF to, n
  <2> QED  BY <2>2, <2>3 DEF Goes
<1>4. \A a : Live(heap', a) <=> Live(heap, a) /\ a # p
  BY <1>1 DEF Live, Cells
<1>5. \A a : Live(heap, a) /\ a # p => heap'[a] = heap[a] /\ heap[a] # heap[p]
  BY <1>1 DEF Live, Cells, CellsDistinct
<1>6. TheSessions' = TheSessions \ {heap[p]}
  <2>1. TheSessions = SessionsOf(heap) /\ TheSessions' = SessionsOf(heap')
    BY <1>2 DEF Mapped, SessionsOf, Live
  <2>2. SessionsOf(heap') = SessionsOf(heap) \ {heap[p]}
    BY <1>4, <1>5 DEF SessionsOf
  <2> QED  BY <2>1, <2>2
<1>7. heap[p] \in TheSessions
  BY <1>1, <1>2 DEF Mapped, SessionsOf
<1> QED  BY <1>3, <1>6, <1>7 DEF Promise!Leave, Reading

LEMMA ComesIsJoin ==
  ASSUME PairInv, PairInv', phase = "running", phase' = phase, fifo' = fifo,
         NEW a, NEW new, Comes(a, new)
  PROVE  \E s \in Promise!Session : Promise!Join(s)
<1>1. /\ \A b : Live(heap', b) <=> b = a \/ Live(heap, b)
      /\ heap'[a] = new /\ \A b : Live(heap, b) => b # a /\ heap'[b] = heap[b]
      /\ new.id \in Nat
      /\ new.id > MAX_NUM => out' = <<>>
      /\ ~(new.id > MAX_NUM) =>
           /\ fifo[new.path] = "open"
           /\ DOMAIN out' = {1} /\ out'[1].to = new.path /\ out'[1].data = <<"OKOK", new.id>>
  BY ComesTold
<1>2. Mapped /\ Mapped'
  BY MappedState, PTL
<1>3. TheSessions = SessionsOf(heap) /\ TheSessions' = SessionsOf(heap')
  BY <1>2 DEF Mapped, SessionsOf, Live
<1>4. a \in Addr /\ new \in User
  BY DEF Comes
<1>5. TheSessions' = TheSessions \cup {new}
  <2>1. SessionsOf(heap') = SessionsOf(heap) \cup {new}
    BY <1>1, <1>4 DEF SessionsOf
  <2> QED  BY <1>3, <2>1
<1>6. \A r \in TheSessions : r.id # new.id /\ r.nick # new.nick /\ r.path # new.path
  <2>1. \A b, c \in Addr : Live(heap', b) /\ Live(heap', c) /\ b # c =>
          /\ heap'[b].id # heap'[c].id /\ heap'[b].nick # heap'[c].nick
          /\ heap'[b].path # heap'[c].path
    BY DEF PairInv, Sound, CellsDistinct, Live
  <2>2. ASSUME NEW b \in Addr, Live(heap, b)
        PROVE  heap[b].id # new.id /\ heap[b].nick # new.nick /\ heap[b].path # new.path
    BY <1>1, <1>4, <2>1, <2>2
  <2> QED  BY <1>3, <2>2 DEF SessionsOf
<1>7. /\ Numbers("BYEE")' = {}
      /\ IF new.id <= MAX_NUM
         THEN new.path \in Reading /\ Numbers("OKOK")' = {<<new.path, new.id>>}
         ELSE Numbers("OKOK")' = {}
  <2>1. CASE new.id > MAX_NUM
    <3>1. Numbers("OKOK")' = {} /\ Numbers("BYEE")' = {}
      BY <1>1, <2>1 DEF Numbers
    <3>2. ~(new.id <= MAX_NUM)
      BY <1>1, <2>1, ServerAssumption
    <3> QED  BY <3>1, <3>2
  <2>2. CASE ~(new.id > MAX_NUM)
    <3>1. DOMAIN out' = {1} /\ out'[1].to = new.path /\ out'[1].data = <<"OKOK", new.id>>
      BY <1>1, <2>2
    <3>2. new.id <= MAX_NUM
      BY <1>1, <2>2, ServerAssumption
    <3>3. out'[1].data[1] = "OKOK" /\ out'[1].data[2] = new.id
      BY <3>1
    <3>4. Numbers("OKOK")' = {<<new.path, new.id>>} /\ Numbers("BYEE")' = {}
      BY <3>1, <3>3 DEF Numbers
    <3>5. new.path \in Reading
      BY <1>1, <1>4, <2>2 DEF User, Reading
    <3> QED  BY <3>2, <3>4, <3>5
  <2> QED  BY <2>1, <2>2
<1>8. new \in Promise!Session
  BY <1>4 DEF User, Promise!Session
<1>9. Promise!Join(new)
  BY <1>5, <1>6, <1>7 DEF Promise!Join, Promise!Fresh, Reading
<1> QED  BY <1>8, <1>9

\* The server does not touch the clients' FIFOs.
LEMMA FifosKept ==
  ASSUME [Next]_vars
  PROVE  fifo' = fifo \/ SameUsers
<1>1. ASSUME NEW path \in Path, Client(path) PROVE SameUsers
  BY <1>1 DEF Client, MakeFifo, StartReading, StopReading, Unlink, Fifo, SameUsers
<1>2. CASE Receive
  BY <1>2 DEF Receive, HELO, BYEE, BCST, PRVT, LIST, SHUT, ReadFails, From
<1>3. CASE Serve
  BY <1>3 DEF Serve, OpenReturns, Refuse, Register, Broadcast, BroadcastEnds, ListOne, ListEnds
<1>4. CASE UNCHANGED vars
  BY <1>4 DEF vars
<1> QED  BY <1>1, <1>2, <1>3, <1>4 DEF Next

\* With two FIFOs the server keeps the promise of Sessions: it never reads through a bad
\* pointer, sessions begin with a welcome in the same step, and end when their client has
\* stopped reading or is told BYEE, or together with the server.
THEOREM PromiseIsKept ==
  ASSUME OneRegion, TwoPaths
  PROVE  Spec => KeepsPromise
<1>1. Init => Promise!Init
  <2> SUFFICES ASSUME Init PROVE Promise!Init
    OBVIOUS
  <2>1. phase = "running" /\ users = <<>> /\ out = <<>> /\ fifo = [p \in Path |-> "absent"]
    BY DEF Init
  <2>2. TheSessions = {} /\ Numbers("OKOK") = {} /\ Numbers("BYEE") = {}
    BY <2>1 DEF TheSessions, Online, Range, Numbers
  <2>3. Reading = {}
    BY <2>1 DEF Reading
  <2> QED  BY <2>1, <2>2, <2>3 DEF Promise!Init, Reading
<1>2. PairSafe /\ PairSafe' /\ [Next]_vars => [Promise!Next]_(Promise!vars)
  <2> SUFFICES ASSUME PairSafe, PairSafe', [Next]_vars PROVE [Promise!Next]_(Promise!vars)
    OBVIOUS
  <2>0. PairInv /\ PairInv'
    BY DEF PairSafe
  <2>1. CASE SameUsers
    <3>1. CASE out' = <<>>
      <4>1. Untold(out')
        BY <3>1, OneWritten DEF Untold
      <4> QED  BY <2>0, <2>1, <4>1, StaysIsQuiet DEF SameUsers, Promise!Next
    <3>2. CASE UNCHANGED vars
      BY <3>2 DEF vars, Promise!vars, TheSessions, Online, Live, Numbers
    <3> QED  BY <2>1, <3>1, <3>2 DEF SameUsers
  <2>2. CASE phase = "running" /\ Stops("exited") /\ ~SameUsers
    BY <2>2, StoppedIsStop, FifosKept DEF Promise!Next
  <2>3. CASE phase = "running" /\ Serves /\ ~SameUsers
    <3>1. CASE Stays
      BY <2>0, <2>3, <3>1, StaysIsQuiet DEF Serves, Stays, Promise!Next
    <3>2. ASSUME NEW p, Goes(p) PROVE Promise!Next
      BY <2>0, <2>3, <3>2, GoesIsLeave, FifosKept DEF Serves, Promise!Next
    <3>3. ASSUME NEW a, NEW new, Comes(a, new) PROVE Promise!Next
      BY <2>0, <2>3, <3>3, ComesIsJoin, FifosKept DEF Serves, Promise!Next
    <3> QED  BY <2>3, <3>1, <3>2, <3>3 DEF Serves
  <2> QED  BY <2>0, <2>1, <2>2, <2>3, PairStep
<1> QED  BY <1>1, <1>2, PairInvariant, PTL DEF Spec, KeepsPromise, Promise!Spec

-----------------------------------------------------------------------------
(* Files: two open at a time.  There the table of transfers is exact, as the *)
(* table of two users is, and a promise stands for the transfer it was made  *)
(* for.                                                                      *)

TwoAtOnce == Len(transfers') <= 2

TCells == [Addr -> Transfer \cup {Freed}]

\* Every slot holds a transfer, and no two have the same number.
SoundTransfers(ts, h) ==
  /\ ts \in Seq(Ptr) /\ Len(ts) <= 2
  /\ h \in TCells
  /\ \A k \in 1 .. Len(ts) : Live(h, ts[k])
  /\ \A j, k \in 1 .. Len(ts) : h[ts[j]].id = h[ts[k]].id => j = k

\* The user a promise is about is still the one it was made for, and so is the transfer.
Stands(n) ==
  /\ Live(heap, deal[n].receiver)
  /\ heap[deal[n].receiver].path = deal[n].path
  /\ \E k \in 1 .. Len(transfers) :
       theap[transfers[k]].id = n /\ theap[transfers[k]].receiver = deal[n].receiver

\* The inductive invariant.
RelayInv ==
  /\ PairInv
  /\ SoundTransfers(transfers, theap)
  /\ deal = [n \in Ids |-> deal[n]]
  /\ \A n \in Ids : deal[n] # Null => Stands(n)

\* A table of users from which at most some users are gone.
Thinned(t) ==
  /\ TableTyped(t) /\ ~t.bad
  /\ Sound(t.users, t.heap)
  /\ \A a \in Addr : t.heap[a] = heap[a] \/ t.heap[a] = Freed

\* No cell passes from one user to another in a single step.
Settled == \A a : Live(heap, a) /\ Live(heap', a) => heap'[a] = heap[a]

-----------------------------------------------------------------------------
(* The table of users under FILE requests.                                  *)

LEMMA ThinnedNow == PairInv => Thinned(Now)
BY NowPair DEF Thinned

LEMMA ThinnedSend ==
  ASSUME OneRegion, NEW t, Thinned(t), NEW p, Live(t.heap, p), NEW data \in Packet
  PROVE  LET r == send_to(t, p, data)
         IN  /\ Thinned(r)
             /\ \A a \in Addr : a # p => r.heap[a] = t.heap[a]
             /\ ~ClosedPipe(t, p) /\ data # NODATA =>
                  r.out = Append(t.out, [to |-> t.heap[p].path, data |-> data])
<1> DEFINE r == send_to(t, p, data)
<1>1. TableTyped(t) /\ ~t.bad /\ Sound(t.users, t.heap) /\ p \in Addr /\ t.heap \in Cells
  BY DEF Thinned, Live, Sound
<1>2. /\ ~r.bad /\ Sound(r.users, r.heap)
      /\ \/ data = NODATA /\ r = t
         \/ /\ data # NODATA /\ ClosedPipe(t, p) /\ r = remove_user(t, p)
            /\ r.out = t.out /\ r.heap = [t.heap EXCEPT ![p] = Freed]
         \/ /\ data # NODATA /\ ~ClosedPipe(t, p)
            /\ r.users = t.users /\ r.heap = t.heap
            /\ r.out = Append(t.out, [to |-> t.heap[p].path, data |-> data])
  BY <1>1, SendPair
<1>3. TableOK(r)
  <2>1. TableOK(t)
    BY <1>1 DEF TableOK, Sound
  <2>2. Len(t.users) # 3
    BY <1>1 DEF Sound
  <2> QED  BY <1>1, <2>1, <2>2, SendToOK
<1> HIDE DEF r
<1>4. r.heap = t.heap \/ r.heap = [t.heap EXCEPT ![p] = Freed]
  BY <1>2
<1>5. \A a \in Addr : r.heap[a] = IF a = p THEN r.heap[p] ELSE t.heap[a]
  BY <1>1, <1>4 DEF Cells
<1>6. r.heap[p] = t.heap[p] \/ r.heap[p] = Freed
  BY <1>1, <1>4 DEF Cells
<1>7. Thinned(r)
  BY <1>2, <1>3, <1>5, <1>6 DEF Thinned, TableOK
<1> QED  BY <1>2, <1>5, <1>7 DEF r

\* A handler that leaves fewer users, and comes back to the FIFO.
LEMMA LeavesThinned ==
  ASSUME PairInv, phase = "running", NEW t, Thinned(t), Leaves(t, Idle), fifo' = fifo
  PROVE  /\ PairInv' /\ Settled
         /\ phase' = "running" /\ out' = t.out /\ heap' = t.heap
<1>1. TableTyped(t) /\ ~t.bad /\ Sound(t.users, t.heap) /\ Collected(t) = t.heap
  BY NothingCollected DEF Thinned
<1>2. users' = t.users /\ heap' = t.heap /\ out' = t.out /\ phase' = phase
  BY <1>1 DEF Leaves
<1>3. Inv'
  <2>1. Inv /\ FifoOK'
    BY DEF PairInv, Inv, TypeOK, FifoOK
  <2>2. Good(t)
    BY <1>1, OKIsGood DEF TableOK, Sound
  <2> QED  BY <2>1, <2>2, IdleOK, LeavesOK
<1>4. BroadcastsOther'
  <2>1. Idle => BroadcastsOther'
    BY DEF Idle, BroadcastsOther
  <2> QED  BY <2>1, LeavesOther
<1>5. Sound(users, heap)'
  BY <1>1, <1>2 DEF Sound, Live, CellsDistinct
<1>6. Settled
  BY <1>2 DEF Settled, Thinned, Live
<1>7. Listening'
  BY <1>1 DEF Leaves, Idle, Listening
<1> QED  BY <1>2, <1>3, <1>4, <1>5, <1>6, <1>7 DEF PairInv

LEMMA StopsPair ==
  ASSUME PairInv, Stops("exited") \/ Stops("undefined"), fifo' = fifo
  PROVE  PairInv' /\ Settled /\ phase' # "running"
<1>1. Inv'
  <2>1. FifoOK'
    BY DEF PairInv, Inv, TypeOK, FifoOK
  <2> QED  BY <2>1, StopsOK
<1>2. /\ users' = <<>> /\ heap' = [a \in Addr |-> Freed] /\ pc' = "idle" /\ d' = NODATA
      /\ phase' # "running"
  BY DEF Stops, Idle
<1>3. users' \in Seq(Ptr) /\ Len(users') = 0 /\ heap' \in Cells /\ \A a : ~Live(heap', a)
  BY <1>2 DEF Live, Cells
<1>4. Sound(users, heap)'
  BY <1>3 DEF Sound, CellsDistinct, Live
<1> QED  BY <1>1, <1>2, <1>3, <1>4 DEF PairInv, Halted, Listening, BroadcastsOther, Settled

\* Every step of Server keeps cells to their users.
LEMMA NextSettled ==
  ASSUME OneRegion, TwoPaths, PairInv, [Next]_vars
  PROVE  Settled
<1>1. heap \in Cells
  BY NowOK DEF PairInv
<1>2. ASSUME NEW p, Goes(p) PROVE Settled
  BY <1>1, <1>2 DEF Goes, Settled, Live, Cells
<1>3. ASSUME NEW a, NEW new, Comes(a, new) PROVE Settled
  BY <1>1, <1>3 DEF Comes, Settled, Live, Cells
<1>4. Stops("exited") => Settled
  BY DEF Stops, Settled, Live
<1>5. SameUsers \/ Stays => Settled
  BY DEF SameUsers, Stays, Settled
<1> QED  BY <1>2, <1>3, <1>4, <1>5, PairStep DEF Serves

\* The sender of a request can be read, and so can whoever has the nick.
LEMMA SenderFound ==
  ASSUME PairInv, NEW id, NEW ACTION Handler, From(id, Handler)
  PROVE  /\ Handler /\ phase = "running" /\ fifo' = fifo
         /\ user_from_id(Now, id) \in 1 .. Len(users)
         /\ Live(heap, Sender(id)) /\ heap[Sender(id)] \in User
<1> DEFINE k == user_from_id(Now, id)
<1>1. Now.users = users /\ Now.heap = heap /\ users \in Seq(Ptr) /\ Len(users) <= 3
  BY NowOK DEF PairInv
<1>2. k = 0 \/ k \in 1 .. Len(users)
  BY <1>1, UserFromId
<1>3. k # 0 /\ phase = "running" /\ fifo' = fifo /\ IF BadRead(Now, k) THEN Stops("undefined") ELSE Handler
  BY DEF From, Request
<1> HIDE DEF k
<1>4. k \in 1 .. Len(users) /\ Live(heap, users[k])
  BY <1>2, <1>3 DEF PairInv, Sound
<1>5. Handler
  BY <1>1, <1>3, <1>4 DEF BadRead
<1>6. heap[users[k]] \in User
  BY <1>4, NowOK DEF PairInv
<1> QED  BY <1>3, <1>4, <1>5, <1>6 DEF k, Sender

LEMMA NickFound ==
  ASSUME PairInv, NEW nick
  PROVE  LET k == user_from_nick(Now, nick)
         IN  /\ k = 0 \/ k \in 1 .. Len(users)
             /\ k # 0 => Live(heap, users[k]) /\ heap[users[k]] \in User
             /\ ~BadRead(Now, k)
<1> DEFINE k == user_from_nick(Now, nick)
<1>1. Now.users = users /\ Now.heap = heap /\ users \in Seq(Ptr) /\ Len(users) <= 3
  BY NowOK DEF PairInv
<1>2. k = 0 \/ k \in 1 .. Len(users)
  BY <1>1, UserFromNick
<1> HIDE DEF k
<1>3. k # 0 => Live(heap, users[k])
  BY <1>2 DEF PairInv, Sound
<1>4. k # 0 => heap[users[k]] \in User
  BY <1>3, NowOK DEF PairInv
<1> QED  BY <1>1, <1>2, <1>3, <1>4 DEF k, BadRead

LEMMA RelayPackets ==
  /\ \A n \in Nat, parts \in Nat, nick \in Nick : req_server_FILE_announce(n, parts, nick) \in Packet
  /\ \A serie \in Nat, n \in Nat :
       req_server_FILE_transfer(serie, n) \in Packet /\ req_server_FILE_transfer(serie, n) # NODATA
<1>1. ASSUME NEW n \in Nat, NEW parts \in Nat, NEW nick \in Nick
      PROVE  req_server_FILE_announce(n, parts, nick) \in Packet
  <2>1. <<"FILE", 0, n, parts, nick>> \in {"FILE"} \X {0} \X Nat \X Nat \X Nick
    OBVIOUS
  <2>2. <<"FILE", 0, n, parts, nick>> \in Packet /\ NODATA \in Packet
    BY <2>1 DEF Packet
  <2> QED  BY <2>2 DEF req_server_FILE_announce
<1>2. ASSUME NEW serie \in Nat, NEW n \in Nat
      PROVE  req_server_FILE_transfer(serie, n) \in Packet /\ req_server_FILE_transfer(serie, n) # NODATA
  <2>1. <<"FILE", serie, n>> \in {"FILE"} \X Nat \X Nat
    OBVIOUS
  <2>2. <<"FILE", serie, n>> \in Packet
    BY <2>1 DEF Packet
  <2> QED  BY <2>2 DEF req_server_FILE_transfer, NODATA
<1> QED  BY <1>1, <1>2

-----------------------------------------------------------------------------
(* The table of transfers.                                                  *)

TransferId(us, h, k) == h[us[k]].id

LEMMA AtMostTwo == \A l \in Nat : l <= 2 => l = 0 \/ l = 1 \/ l = 2
OBVIOUS

\* The search for a number, in a table of at most two.
LEMMA AvailableTransfer ==
  ASSUME NEW t, NEW us, NEW h, t.users = us, t.heap = h, SoundTransfers(us, h)
  PROVE  LET n == get_available_id(t)
         IN  /\ n \in Nat
             /\ Len(us) = 1 => n = TransferId(us, h, 1) + 1
             /\ Len(us) = 2 => n = IF TransferId(us, h, 2) = TransferId(us, h, 1) + 1
                                   THEN TransferId(us, h, 2) + 1 ELSE TransferId(us, h, 1) + 1
<1> DEFINE n == get_available_id(t)
<1>1. us \in Seq(Ptr) /\ Len(us) \in Nat /\ Len(us) <= 2
  BY DEF SoundTransfers
<1>2. \A k \in 1 .. Len(us) : TransferId(us, h, k) \in Nat
  BY DEF SoundTransfers, Live, TCells, Transfer, TransferId
<1>3. n = IF us = <<>> THEN 0
          ELSE IF \A k \in 2 .. Len(us) : TransferId(us, h, k) = TransferId(us, h, 1) + 1
               THEN TransferId(us, h, Len(us)) + 1
               ELSE TransferId(us, h, 1) + 1
  BY DEF get_available_id, TransferId
<1> HIDE DEF n
<1>4. CASE Len(us) = 0
  <2>1. us = <<>>
    BY <1>1, <1>4
  <2> QED  BY <1>3, <1>4, <2>1 DEF n
<1>5. CASE Len(us) = 1
  <2>1. us # <<>> /\ 2 .. Len(us) = {} /\ 1 \in 1 .. Len(us)
    BY <1>5
  <2>2. TransferId(us, h, 1) \in Nat
    BY <1>2, <2>1
  <2>3. n = TransferId(us, h, 1) + 1
    BY <1>3, <1>5, <2>1
  <2> QED  BY <1>5, <2>2, <2>3 DEF n
<1>6. CASE Len(us) = 2
  <2>1. us # <<>> /\ 2 .. Len(us) = {2} /\ 1 \in 1 .. Len(us) /\ 2 \in 1 .. Len(us)
    BY <1>6
  <2>2. TransferId(us, h, 1) \in Nat /\ TransferId(us, h, 2) \in Nat
    BY <1>2, <2>1
  <2>3. n = IF TransferId(us, h, 2) = TransferId(us, h, 1) + 1
            THEN TransferId(us, h, 2) + 1 ELSE TransferId(us, h, 1) + 1
    BY <1>3, <1>6, <2>1
  <2> QED  BY <1>6, <2>2, <2>3 DEF n
<1>7. Len(us) = 0 \/ Len(us) = 1 \/ Len(us) = 2
  BY <1>1, AtMostTwo
<1> QED  BY <1>4, <1>5, <1>6, <1>7

\* A third transfer would be added.
LEMMA NotRefused ==
  ASSUME NEW us \in Seq(Ptr), Len(us) = 2, NEW x \in Ptr, NEW key,
         key[us[1]] \in Nat, key[us[2]] \in Nat,
         key[x] = IF key[us[2]] = key[us[1]] + 1 THEN key[us[2]] + 1 ELSE key[us[1]] + 1
  PROVE  Len(arlist_add(us, key, x)) = 3
<1> DEFINE S == {k \in 1 .. Len(us) : key[us[k]] >= key[x]}
           r == arlist_add(us, key, x)
<1>1. us # <<>> /\ Last(us) = us[2] /\ \A k : k \in 1 .. Len(us) <=> k = 1 \/ k = 2
  <2>1. us # <<>>
    <3>1. Len(<<>>) # 2
      OBVIOUS
    <3> QED  BY <3>1
  <2>3. Last(us) = us[2]
    BY DEF Last
  <2>2. \A k : k \in 1 .. 2 <=> k = 1 \/ k = 2
    OBVIOUS
  <2> QED  BY <2>1, <2>2, <2>3
<1>2. NotBelow(us, key, x) = IF S # {} THEN Min(S) ELSE 0
  BY DEF NotBelow, SelectInSeq
<1>3. CASE key[us[2]] < key[x]
  <2>1. r = Append(us, x)
    BY <1>1, <1>3 DEF arlist_add, Accepts, arlist_push
  <2>2. Len(Append(us, x)) = Len(us) + 1
    <3>1. \A s \in Seq(Ptr) : \A e \in Ptr : Len(Append(s, e)) = Len(s) + 1
      OBVIOUS
    <3> QED  BY <3>1
  <2> HIDE DEF r
  <2>3. Len(r) = 3
    BY <2>1, <2>2
  <2> QED  BY <2>3 DEF r
<1>4. CASE ~(key[us[2]] < key[x])
  <2>1. key[x] = key[us[1]] + 1 /\ key[us[2]] > key[x]
    BY <1>4
  <2>2. S = {2}
    BY <1>1, <2>1
  <2>3. Min(S) = 2
    <3>1. {2} \in SUBSET Nat /\ {2} # {}
      OBVIOUS
    <3>2. Min({2}) \in {2}
      BY <3>1, MinOfNat
    <3> QED  BY <2>2, <3>2
  <2>4. NotBelow(us, key, x) = 2
    BY <1>2, <2>2, <2>3
  <2>5. r = InsertAtSlot(us, 2, x)
    BY <1>1, <1>4, <2>1, <2>4 DEF arlist_add, Accepts
  <2>6. Len(InsertAtSlot(us, 2, x)) = 3
    <3>1. 2 \in 1 .. Len(us)
      BY <1>1
    <3>2. Len(InsertAtSlot(us, 2, x)) = Len(us) + 1
      BY <3>1, InsertType
    <3> QED  BY <3>2
  <2> QED  BY <2>5, <2>6
<1> QED  BY <1>3, <1>4

\* The ids of the transfers in cells, and the cells a table points to.
TransferIds(cells) == [y \in {z \in Addr : cells[z] # Freed} |-> cells[y].id]

HeldBy(ts, cells) == [a \in Addr |-> IF a \in Range(ts) THEN cells[a] ELSE Freed]

\* With at most one transfer open, a new one gets the last slot.
LEMMA AddTransfer ==
  ASSUME NEW t, SoundTransfers(t.users, t.heap), NEW x \in Addr, t.heap[x] = Freed,
         NEW new \in Transfer, new.id = get_available_id(t),
         NEW ts, ts = t.users, NEW h, h = t.heap,
         NEW cells, cells = [h EXCEPT ![x] = new], Len(arlist_add(ts, TransferIds(cells), x)) <= 2
  PROVE  LET r == arlist_add(ts, TransferIds(cells), x)
             g == HeldBy(r, cells)
         IN  /\ SoundTransfers(r, g)
             /\ Len(r) = Len(ts) + 1 /\ r[Len(r)] = x
             /\ \A k \in 1 .. Len(ts) : r[k] = ts[k]
             /\ g[x] = new
             /\ \A k \in 1 .. Len(ts) : g[ts[k]] = h[ts[k]]
             /\ \A k \in 1 .. Len(ts) : h[ts[k]].id # new.id
<1> DEFINE key == TransferIds(cells)
           r == arlist_add(ts, key, x)
           g == HeldBy(r, cells)
           n == new.id
<1>0. Len(r) <= 2
  OBVIOUS
<1>1. /\ ts \in Seq(Ptr) /\ Len(ts) \in Nat /\ Len(ts) <= 2 /\ h \in TCells /\ x \in Ptr
      /\ x # Null
  BY ServerAssumption DEF SoundTransfers
<1>2. \A k \in 1 .. Len(ts) : ts[k] \in Addr /\ ts[k] # x /\ h[ts[k]] \in Transfer
  BY <1>1 DEF SoundTransfers, Live, TCells
<1>3. new # Freed /\ cells \in TCells /\ cells[x] = new /\ \A a \in Addr : a # x => cells[a] = h[a]
  BY <1>1, RelayAssumption DEF TCells
<1>4. key[x] = n /\ \A k \in 1 .. Len(ts) : key[ts[k]] = h[ts[k]].id
  BY <1>2, <1>3, RelayAssumption DEF TransferIds
<1> HIDE DEF key
<1>5. /\ n \in Nat
      /\ Len(ts) = 1 => n = h[ts[1]].id + 1
      /\ Len(ts) = 2 => n = IF h[ts[2]].id = h[ts[1]].id + 1
                            THEN h[ts[2]].id + 1 ELSE h[ts[1]].id + 1
  BY AvailableTransfer DEF TransferId
<1>6. Len(ts) # 2
  <2> SUFFICES ASSUME Len(ts) = 2 PROVE FALSE
    OBVIOUS
  <2>1. 1 \in 1 .. Len(ts) /\ 2 \in 1 .. Len(ts)
    OBVIOUS
  <2>2. key[ts[1]] = h[ts[1]].id /\ key[ts[2]] = h[ts[2]].id /\ key[ts[1]] \in Nat /\ key[ts[2]] \in Nat
    BY <1>2, <1>4, <2>1 DEF Transfer
  <2>3. key[x] = IF key[ts[2]] = key[ts[1]] + 1 THEN key[ts[2]] + 1 ELSE key[ts[1]] + 1
    BY <1>4, <1>5, <2>2
  <2>4. Len(arlist_add(ts, key, x)) = 3
    <3>1. ts \in Seq(Ptr) /\ x \in Ptr /\ Len(ts) = 2
      BY <1>1
    <3>2. key[ts[1]] \in Nat /\ key[ts[2]] \in Nat
      BY <2>2
    <3> QED  BY ONLY <2>3, <3>1, <3>2, NotRefused
  <2> QED  BY ONLY <1>0, <2>4
<1>7. Len(ts) = 0 \/ Len(ts) = 1
  BY <1>1, <1>6, AtMostTwo
<1>8. r = Append(ts, x)
  <2>1. CASE Len(ts) = 0
    <3>1. ts = <<>>
      BY <1>1, <2>1
    <3> QED  BY <3>1 DEF arlist_add, Accepts, arlist_push
  <2>2. CASE Len(ts) = 1
    <3>1. Last(ts) = ts[1] /\ 1 \in 1 .. Len(ts)
      BY <2>2 DEF Last
    <3>2. key[ts[1]] < key[x]
      BY <1>2, <1>4, <1>5, <2>2, <3>1 DEF Transfer
    <3> QED  BY <3>1, <3>2 DEF arlist_add, Accepts, arlist_push
  <2> QED  BY <1>7, <2>1, <2>2
<1> HIDE DEF r
<1>9. /\ r \in Seq(Ptr) /\ Len(r) = Len(ts) + 1 /\ r[Len(r)] = x
      /\ \A k \in 1 .. Len(ts) : r[k] = ts[k]
  BY <1>1, <1>8
<1>10. \A k \in 1 .. Len(r) : r[k] \in Range(r)
  <2>1. DOMAIN r = 1 .. Len(r)
    BY <1>9
  <2> QED  BY <2>1 DEF Range
<1>11. g \in TCells /\ \A a \in Addr : a \in Range(r) => g[a] = cells[a]
  BY <1>3 DEF TCells, HeldBy
<1> HIDE DEF g
<1>12. x \in Range(r) /\ \A k \in 1 .. Len(ts) : ts[k] \in Range(r)
  <2>1. Len(r) \in 1 .. Len(r) /\ \A k \in 1 .. Len(ts) : k \in 1 .. Len(r)
    BY <1>1, <1>9
  <2> QED  BY <1>9, <1>10, <2>1
<1>13. g[x] = new /\ \A k \in 1 .. Len(ts) : g[ts[k]] = h[ts[k]]
  BY <1>2, <1>3, <1>11, <1>12
<1>14. \A k \in 1 .. Len(ts) : h[ts[k]].id # n
  <2> SUFFICES ASSUME NEW k \in 1 .. Len(ts) PROVE h[ts[k]].id # n
    OBVIOUS
  <2>1. Len(ts) = 1 /\ k = 1
    <3>1. \A l \in 1 .. 0 : FALSE
      OBVIOUS
    <3>2. \A l \in 1 .. 1 : l = 1
      OBVIOUS
    <3> QED  BY <1>7, <3>1, <3>2
  <2>2. h[ts[1]].id \in Nat
    BY <1>2, <2>1 DEF Transfer
  <2> QED  BY <1>5, <2>1, <2>2
<1>15. \A k \in 1 .. Len(r) : k \in 1 .. Len(ts) \/ k = Len(r)
  BY <1>1, <1>9
<1>16. SoundTransfers(r, g)
  <2>1. \A k \in 1 .. Len(r) : Live(g, r[k])
    <3>1. Live(g, x)
      BY <1>3, <1>13 DEF Live
    <3>2. \A k \in 1 .. Len(ts) : Live(g, ts[k])
      BY <1>13 DEF SoundTransfers, Live
    <3> QED  BY <1>9, <1>15, <3>1, <3>2
  <2>2. ASSUME NEW j \in 1 .. Len(r), NEW k \in 1 .. Len(r), g[r[j]].id = g[r[k]].id PROVE j = k
    <3>1. \A m \in 1 .. Len(ts) : g[r[m]].id = h[ts[m]].id
      BY <1>9, <1>13
    <3>2. g[r[Len(r)]].id = n
      BY <1>9, <1>13
    <3>3. CASE j \in 1 .. Len(ts) /\ k \in 1 .. Len(ts)
      BY <2>2, <3>1, <3>3 DEF SoundTransfers
    <3>4. CASE j = Len(r) \/ k = Len(r)
      BY <1>14, <1>15, <2>2, <3>1, <3>2, <3>4
    <3> QED  BY <1>15, <3>3, <3>4
  <2>3. Len(r) <= 2
    BY <1>0
  <2> QED  BY <1>9, <1>11, <2>1, <2>2, <2>3 DEF SoundTransfers
<1> QED  BY <1>9, <1>13, <1>14, <1>16 DEF g, r, key

\* Ending a transfer takes its slot, and leaves the other transfer.
LEMMA RemoveTransfer ==
  ASSUME OneRegion, NEW ts, NEW h, SoundTransfers(ts, h), NEW k \in 1 .. Len(ts)
  PROVE  LET r == arlist_remove(ts, k)
             g == [a \in Addr |-> IF a \in Range(r) THEN h[a] ELSE Freed]
         IN  /\ SoundTransfers(r, g)
             /\ \A j \in 1 .. Len(ts) : j # k =>
                  g[ts[j]] = h[ts[j]] /\ \E m \in 1 .. Len(r) : r[m] = ts[j]
<1> DEFINE r == arlist_remove(ts, k)
           g == [a \in Addr |-> IF a \in Range(r) THEN h[a] ELSE Freed]
<1>1. ts \in Seq(Ptr) /\ Len(ts) \in Nat /\ Len(ts) <= 2 /\ Len(ts) <= 3 /\ h \in TCells
  BY DEF SoundTransfers
<1>2. \A j \in 1 .. Len(ts) : ts[j] \in Addr /\ Live(h, ts[j])
  BY DEF SoundTransfers, Live
<1>3. /\ r \in Seq(Ptr) /\ Len(r) = Len(ts) - 1
      /\ \A j \in 1 .. Len(ts) - 1 :
           r[j] = IF j = k THEN Mix(ts[k], ts[k + 1], Len(ts) - k + 1) ELSE ts[j]
  BY <1>1, RemoveSlots
<1> HIDE DEF r
<1>4. \A m \in 1 .. Len(r) : r[m] \in Range(r)
  <2>1. DOMAIN r = 1 .. Len(r)
    BY <1>3
  <2> QED  BY <2>1 DEF Range
<1>5. g \in TCells /\ \A a \in Addr : a \in Range(r) => g[a] = h[a]
  BY <1>1 DEF TCells
<1> HIDE DEF g
<1>6. CASE Len(ts) = 1
  <2>1. Len(r) = 0 /\ k = 1 /\ \A j \in 1 .. Len(ts) : j = k
    BY <1>3, <1>6
  <2> QED  BY <1>3, <1>5, <2>1 DEF SoundTransfers, g, r
<1>7. CASE Len(ts) = 2
  <2>1. k \in {1, 2} /\ 1 \in 1 .. Len(ts) /\ 2 \in 1 .. Len(ts) /\ Len(r) = 1 /\ 1 \in 1 .. Len(r)
    BY <1>3, <1>7
  <2>2. r[1] = ts[3 - k]
    <3>1. CASE k = 2
      BY <1>3, <1>7, <3>1
    <3>2. CASE k = 1
      <4>1. r[1] = Mix(ts[1], ts[2], 2)
        BY <1>3, <1>7, <3>2
      <4> QED  BY <1>2, <2>1, <3>2, <4>1, MixLow
    <3> QED  BY <2>1, <3>1, <3>2
  <2>3. \A j \in 1 .. Len(ts) : j # k => j = 3 - k
    BY <1>7, <2>1
  <2>4. 3 - k \in 1 .. Len(ts)
    BY <1>7, <2>1
  <2>5. \A m \in 1 .. Len(r) : m = 1
    BY <2>1
  <2>6. g[ts[3 - k]] = h[ts[3 - k]] /\ Live(g, ts[3 - k])
    BY <1>2, <1>4, <1>5, <2>1, <2>2, <2>4 DEF Live
  <2>7. SoundTransfers(r, g)
    BY <1>3, <1>5, <2>1, <2>2, <2>5, <2>6 DEF SoundTransfers
  <2> QED  BY <2>1, <2>2, <2>3, <2>6, <2>7 DEF g, r
<1>8. Len(ts) = 1 \/ Len(ts) = 2
  <2>1. \A j \in 1 .. 0 : FALSE
    OBVIOUS
  <2> QED  BY <1>1, <2>1, AtMostTwo
<1> QED  BY <1>6, <1>7, <1>8

\* The search for a transfer by its number.
LEMMA TransferFound ==
  ASSUME PairInv, SoundTransfers(transfers, theap), NEW n
  PROVE  LET k == transfer_from_id(n)
         IN  /\ ~BadRead(Transfers, k)
             /\ \/ k = 0 /\ \A j \in 1 .. Len(transfers) : theap[transfers[j]].id # n
                \/ /\ k # 0 /\ k \in 1 .. Len(transfers) /\ theap[transfers[k]].id = n
                   /\ theap[transfers[k]] \in Transfer
<1> DEFINE k == transfer_from_id(n)
<1>1. Transfers.users = transfers /\ Transfers.heap = theap
  BY DEF Transfers, Now
<1>2. Transfers.users \in Seq(Ptr) /\ Len(Transfers.users) <= 3
  BY <1>1 DEF SoundTransfers
<1>3. \/ k = 0 /\ \A j \in 1 .. Len(transfers) : theap[transfers[j]].id # n
      \/ k \in 1 .. Len(transfers) /\ (Live(theap, transfers[k]) => theap[transfers[k]].id = n)
  BY <1>1, <1>2, UserFromId DEF transfer_from_id
<1> HIDE DEF k
<1>4. k \in 1 .. Len(transfers) => k # 0 /\ Live(theap, transfers[k])
  BY DEF SoundTransfers
<1>5. k \in 1 .. Len(transfers) => theap[transfers[k]] \in Transfer
  BY <1>4 DEF SoundTransfers, Live, TCells
<1> QED  BY <1>1, <1>3, <1>4, <1>5 DEF k, BadRead

-----------------------------------------------------------------------------
(* The invariant, step by step.                                             *)

\* What is left of promises after a step.
LEMMA StandingOK ==
  ASSUME NEW deals, Standing(deals),
         \A n \in Ids : deals[n] # Null /\ Live(heap', deals[n].receiver) =>
           /\ heap'[deals[n].receiver].path = deals[n].path
           /\ \E k \in 1 .. Len(transfers') :
                theap'[transfers'[k]].id = n /\ theap'[transfers'[k]].receiver = deals[n].receiver,
         \A n \in Ids : deals[n] # Null => deals[n].receiver \in Addr
  PROVE  /\ deal' = [n \in Ids |-> deal'[n]]
         /\ \A n \in Ids : deal'[n] # Null => Stands(n)'
<1>1. deal' = [n \in Ids |->
                 IF deals[n] # Null /\ heap'[deals[n].receiver] # Freed THEN deals[n] ELSE Null]
  BY DEF Standing
<1>2. deal' = [n \in Ids |-> deal'[n]]
  BY <1>1
<1>3. ASSUME NEW n \in Ids, deal'[n] # Null PROVE Stands(n)'
  <2>1. deal'[n] = deals[n] /\ deals[n] # Null /\ heap'[deals[n].receiver] # Freed
    BY <1>1, <1>3
  <2>2. Live(heap', deals[n].receiver)
    BY <2>1 DEF Live
  <2> QED  BY <2>1, <2>2 DEF Stands, Live
<1> QED  BY <1>2, <1>3

\* A promise outlives a step of the server that leaves its user.
LEMMA DealsAfter ==
  ASSUME RelayInv, Settled, NEW n \in Ids, deal[n] # Null
  PROVE  /\ deal[n].receiver \in Addr
         /\ Live(heap', deal[n].receiver) => heap'[deal[n].receiver].path = deal[n].path
BY DEF RelayInv, Stands, Settled, Live

LEMMA KeepsOK ==
  ASSUME RelayInv, PairInv', Settled, KeepsTransfers
  PROVE  RelayInv'
<1>1. CASE phase' = "running"
  <2>1. UNCHANGED <<transfers, theap>> /\ Standing(deal)
    BY <1>1 DEF KeepsTransfers
  <2>2. /\ deal' = [n \in Ids |-> deal'[n]]
        /\ \A n \in Ids : deal'[n] # Null => Stands(n)'
    <3>1. \A n \in Ids : deal[n] # Null /\ Live(heap', deal[n].receiver) =>
            /\ heap'[deal[n].receiver].path = deal[n].path
            /\ \E k \in 1 .. Len(transfers') :
                 theap'[transfers'[k]].id = n /\ theap'[transfers'[k]].receiver = deal[n].receiver
      BY <2>1, DealsAfter DEF RelayInv, Stands
    <3>2. \A n \in Ids : deal[n] # Null => deal[n].receiver \in Addr
      BY DealsAfter
    <3> QED  BY <2>1, <3>1, <3>2, StandingOK
  <2>3. SoundTransfers(transfers, theap)'
    BY <2>1 DEF RelayInv, SoundTransfers, Live
  <2> QED  BY <2>2, <2>3 DEF RelayInv
<1>2. CASE phase' # "running"
  <2>1. transfers' = <<>> /\ theap' = [a \in Addr |-> IF a \in Range(<<>>) THEN theap[a] ELSE Freed]
    BY <1>2 DEF KeepsTransfers, Holds
  <2>2. SoundTransfers(transfers', theap')
    <3>1. <<>> \in Seq(Ptr) /\ Len(<<>>) = 0
      OBVIOUS
    <3>2. theap \in TCells
      BY DEF RelayInv, SoundTransfers
    <3>3. theap' \in TCells
      BY <2>1, <3>2 DEF TCells
    <3> QED  BY <2>1, <3>1, <3>3 DEF SoundTransfers
  <2>3. deal' = [n \in Ids |-> Null]
    BY <1>2 DEF KeepsTransfers, Standing
  <2>4. SoundTransfers(transfers, theap)'
    BY <2>2 DEF SoundTransfers, Live
  <2> QED  BY <2>3, <2>4 DEF RelayInv
<1> QED  BY <1>1, <1>2

LEMMA RefuseFileOK ==
  ASSUME OneRegion, RelayInv, NEW id \in Ids, NEW nick \in Nick \cup {Null}, NEW named \in BOOLEAN,
         RefuseFile(id, nick, named)
  PROVE  RelayInv' /\ UNCHANGED <<transfers, theap>>
<1>1. PairInv
  BY DEF RelayInv
<1> DEFINE Handler == /\ Refusal(id, nick, named)
                      /\ IF Unreadable(nick) THEN Stops("undefined")
                         ELSE Leaves(send_to(Now, Sender(id), req_server_BADD), Idle)
<1>2. From(id, Handler) /\ KeepsTransfers
  BY DEF RefuseFile
<1>3. Handler /\ phase = "running" /\ fifo' = fifo /\ Live(heap, Sender(id))
  <2> HIDE DEF Handler
  <2> QED  BY <1>1, <1>2, SenderFound
<1>4. ~Unreadable(nick)
  BY <1>1, NickFound DEF Unreadable
<1> DEFINE t == send_to(Now, Sender(id), req_server_BADD)
<1>5. Leaves(t, Idle)
  BY <1>3, <1>4
<1>6. Thinned(t)
  <2>1. Live(Now.heap, Sender(id)) /\ req_server_BADD \in Packet
    BY <1>1, <1>3, NowPair, Packets
  <2> QED  BY <1>1, <2>1, ThinnedNow, ThinnedSend
<1> HIDE DEF t
<1>7. PairInv' /\ Settled /\ phase' = "running"
  BY <1>1, <1>3, <1>5, <1>6, LeavesThinned
<1> QED  BY <1>2, <1>7, KeepsOK DEF KeepsTransfers

\* What the two answers to a file that is accepted leave of the table of users.
LEMMA AnnouncedOK ==
  ASSUME OneRegion, PairInv, NEW id \in Ids, NEW k \in 1 .. Len(users), Live(heap, users[k]),
         user_from_id(Now, id) \in 1 .. Len(users), k # user_from_id(Now, id),
         Live(heap, Sender(id)), heap[Sender(id)] \in User,
         NEW n \in Nat, NEW parts \in Parts
  PROVE  Thinned(Announced(id, k, n, parts))
<1> DEFINE p == Sender(id)
           q == users[k]
           packet == req_server_FILE_announce(n, parts, heap[p].nick)
           t == send_to(Now, q, packet)
<1>1. packet \in Packet /\ req_server_OKOK(n) \in Packet
  <2>1. heap[p].nick \in Nick /\ parts \in Nat
    BY RelayAssumption DEF User
  <2> QED  BY <2>1, RelayPackets, Packets
<1>2. p # q /\ p \in Addr
  BY DEF Sender, PairInv, Sound, Live
<1>3. Now.heap = heap /\ Live(Now.heap, q)
  BY NowPair
<1> HIDE DEF p, q, packet
<1>4. Thinned(t) /\ \A a \in Addr : a # q => t.heap[a] = Now.heap[a]
  BY <1>1, <1>3, ThinnedNow, ThinnedSend
<1> HIDE DEF t
<1>5. Live(t.heap, p)
  BY <1>2, <1>3, <1>4 DEF Live, p
<1>6. Thinned(send_to(t, p, req_server_OKOK(n)))
  BY <1>1, <1>4, <1>5, ThinnedSend
<1>7. Announced(id, k, n, parts) = send_to(t, p, req_server_OKOK(n))
  BY DEF Announced, t, p, q, packet
<1> QED  BY <1>6, <1>7

\* A new transfer gets a slot of its own and a number nobody has; the promises for other
\* numbers stand, and so does the new one.
LEMMA AcceptFileOK ==
  ASSUME OneRegion, RelayInv, TwoAtOnce, NEW id \in Ids, NEW nick \in Nick, NEW parts \in Parts,
         NEW x \in Addr, AcceptFile(id, nick, parts, x)
  PROVE  RelayInv' /\ \A a \in Range(transfers) : a \in Range(transfers')
<1> DEFINE p == Sender(id)
           k == user_from_nick(Now, nick)
           n == get_available_transfer_id
           new == [id |-> n, sender |-> p, receiver |-> users[k], parts |-> parts]
           cells == [theap EXCEPT ![x] = new]
           key == [y \in {z \in Addr : cells[z] # Freed} |-> cells[y].id]
           promise == [receiver |-> users[k], path |-> heap[users[k]].path, parts |-> parts]
           t == Announced(id, k, n, parts)
           Handler == /\ ~Refusal(id, nick, TRUE)
                      /\ IF Unreadable(nick) THEN Stops("undefined") ELSE Leaves(t, Idle)
           deals == IF n \in Ids THEN [deal EXCEPT ![n] = promise] ELSE deal
           r == arlist_add(transfers, key, x)
<1>1. PairInv /\ SoundTransfers(transfers, theap)
  BY DEF RelayInv
<1>2. /\ theap[x] = Freed /\ n <= MAX_TRANSFER
      /\ From(id, Handler)
      /\ IF phase' = "running" THEN Holds(r, cells) /\ Standing(deals) ELSE KeepsTransfers
  BY DEF AcceptFile
<1>3. /\ Handler /\ phase = "running" /\ fifo' = fifo
      /\ user_from_id(Now, id) \in 1 .. Len(users)
      /\ Live(heap, p) /\ heap[p] \in User
  <2> HIDE DEF Handler
  <2> QED  BY <1>1, <1>2, SenderFound
<1>4. ~Unreadable(nick)
  BY <1>1, NickFound DEF Unreadable
<1>5. k # 0 /\ k # user_from_id(Now, id) /\ Leaves(t, Idle)
  BY <1>3, <1>4 DEF Refusal
<1>6. k \in 1 .. Len(users) /\ Live(heap, users[k]) /\ users[k] \in Addr
  BY <1>1, <1>5, NickFound DEF Live
<1>7. n \in Nat /\ n = get_available_id(Transfers)
  <2>1. Transfers.users = transfers /\ Transfers.heap = theap
    BY DEF Transfers, Now
  <2> QED  BY <1>1, <2>1, AvailableTransfer DEF get_available_transfer_id
<1>8. new \in Transfer /\ new.id = n /\ new.receiver = users[k]
  BY <1>3, <1>6, <1>7 DEF Transfer, Live
<1> HIDE DEF n, p, k, Handler
<1>9. Thinned(t)
  BY <1>1, <1>3, <1>5, <1>6, <1>7, AnnouncedOK DEF p
<1> HIDE DEF t
<1>10. PairInv' /\ Settled /\ phase' = "running" /\ heap' = t.heap
  BY <1>1, <1>3, <1>5, <1>9, LeavesThinned
<1>11. /\ transfers' = r /\ Standing(deals)
       /\ theap' = [a \in Addr |-> IF a \in Range(r) THEN cells[a] ELSE Freed]
  BY <1>2, <1>10 DEF Holds
<1> HIDE DEF new, promise
<1>12. /\ SoundTransfers(transfers', theap')
       /\ Len(transfers') = Len(transfers) + 1 /\ transfers'[Len(transfers')] = x
       /\ \A j \in 1 .. Len(transfers) : transfers'[j] = transfers[j]
       /\ theap'[x] = new
       /\ \A j \in 1 .. Len(transfers) : theap'[transfers[j]] = theap[transfers[j]]
       /\ \A j \in 1 .. Len(transfers) : theap[transfers[j]].id # n
  <2>1. Transfers.users = transfers /\ Transfers.heap = theap
    BY DEF Transfers, Now
  <2>2. Len(r) <= 2
    BY <1>11 DEF TwoAtOnce
  <2>3. key = TransferIds(cells) /\ cells = [theap EXCEPT ![x] = new]
    BY DEF TransferIds
  <2>4. SoundTransfers(transfers, theap) /\ theap[x] = Freed /\ x \in Addr
        /\ new \in Transfer /\ new.id = get_available_id(Transfers)
    BY <1>1, <1>2, <1>7, <1>8
  <2> HIDE DEF cells, key
  <2>5. Len(arlist_add(transfers, TransferIds(cells), x)) <= 2
    BY <2>2, <2>3
  <2> HIDE DEF r
  <2> DEFINE s == arlist_add(transfers, TransferIds(cells), x)
             g == HeldBy(s, cells)
  <2>6. /\ SoundTransfers(s, g)
        /\ Len(s) = Len(transfers) + 1 /\ s[Len(s)] = x
        /\ \A j \in 1 .. Len(transfers) : s[j] = transfers[j]
        /\ g[x] = new
        /\ \A j \in 1 .. Len(transfers) : g[transfers[j]] = theap[transfers[j]]
        /\ \A j \in 1 .. Len(transfers) : theap[transfers[j]].id # new.id
    <3>1. SoundTransfers(Transfers.users, Transfers.heap) /\ Transfers.heap[x] = Freed
      BY ONLY <2>1, <2>4
    <3>2. transfers = Transfers.users /\ theap = Transfers.heap
      BY ONLY <2>1
    <3>3. cells = [theap EXCEPT ![x] = new]
      BY ONLY <2>3
    <3>4. x \in Addr /\ new \in Transfer /\ new.id = get_available_id(Transfers)
      BY ONLY <2>4
    <3> QED  BY ONLY <3>1, <3>2, <3>3, <3>4, <2>5, AddTransfer
  <2>7. transfers' = s /\ theap' = g
    BY <1>11, <2>3 DEF r, HeldBy
  <2> HIDE DEF s
  <2> HIDE DEF g
  <2> QED  BY <1>8, <2>6, <2>7
<1> HIDE DEF r, cells, key
<1>13. Len(transfers) \in Nat
  BY <1>1 DEF SoundTransfers
<1>14. \A j \in 1 .. Len(transfers) : j \in 1 .. Len(transfers')
  BY <1>12, <1>13
<1>15. Len(transfers') \in 1 .. Len(transfers')
  BY <1>12, <1>13
<1>16. \A m \in Ids : deals[m] = IF m = n THEN promise ELSE deal[m]
  BY DEF RelayInv
<1>17. promise.receiver = users[k] /\ promise.path = heap[users[k]].path
  BY DEF promise
<1> HIDE DEF deals
<1>18. ASSUME NEW m \in Ids, deals[m] # Null
       PROVE  /\ deals[m].receiver \in Addr
              /\ Live(heap', deals[m].receiver) => heap'[deals[m].receiver].path = deals[m].path
              /\ \E j \in 1 .. Len(transfers') :
                   theap'[transfers'[j]].id = m /\ theap'[transfers'[j]].receiver = deals[m].receiver
  <2>1. CASE m = n
    <3>1. deals[m].receiver = users[k] /\ deals[m].path = heap[users[k]].path
      BY <1>16, <1>17, <2>1
    <3>2. Live(heap', users[k]) => heap'[users[k]].path = heap[users[k]].path
      BY <1>6, <1>10 DEF Settled
    <3>3. theap'[transfers'[Len(transfers')]].id = m
          /\ theap'[transfers'[Len(transfers')]].receiver = users[k]
      BY <1>8, <1>12, <2>1
    <3> QED  BY <1>6, <1>15, <3>1, <3>2, <3>3
  <2>2. CASE m # n
    <3>1. deals[m] = deal[m]
      BY <1>16, <2>2
    <3>2. PICK j \in 1 .. Len(transfers) :
            theap[transfers[j]].id = m /\ theap[transfers[j]].receiver = deals[m].receiver
      BY <1>18, <3>1 DEF RelayInv, Stands
    <3>3. j \in 1 .. Len(transfers') /\ theap'[transfers'[j]].id = m
          /\ theap'[transfers'[j]].receiver = deals[m].receiver
      BY <1>12, <1>14, <3>2
    <3> QED  BY <1>10, <1>18, <3>1, <3>3, DealsAfter
  <2> QED  BY <2>1, <2>2
<1>19. deal' = [m \in Ids |-> deal'[m]] /\ \A m \in Ids : deal'[m] # Null => Stands(m)'
  BY <1>11, <1>18, StandingOK
<1>20. SoundTransfers(transfers, theap)'
  BY <1>12 DEF SoundTransfers, Live
<1>21. \A a \in Range(transfers) : a \in Range(transfers')
  <2>1. DOMAIN transfers = 1 .. Len(transfers)
    BY <1>1 DEF SoundTransfers
  <2>2. DOMAIN transfers' = 1 .. Len(transfers')
    BY <1>12 DEF SoundTransfers
  <2> QED  BY <1>12, <1>14, <2>1, <2>2 DEF Range
<1> QED  BY <1>10, <1>19, <1>20, <1>21 DEF RelayInv

\* A part goes to the receiver of the transfer with its number, and the last one ends
\* that transfer and no other.
LEMMA FileTransferOK ==
  ASSUME OneRegion, RelayInv, NEW serie \in Series, NEW n \in Ids, FILE_transfer(serie, n)
  PROVE  LET k == transfer_from_id(n)
             q == theap[transfers[k]].receiver
         IN  /\ RelayInv'
             /\ k \in 1 .. Len(transfers) /\ theap[transfers[k]].id = n
             /\ Live(heap, q) /\ fifo[heap[q].path] = "open" =>
                  out' = <<[to |-> heap[q].path, data |-> req_server_FILE_transfer(serie, n)]>>
             /\ phase' = "running" =>
                  \A j \in 1 .. Len(transfers) :
                    \/ transfers[j] \in Range(transfers')
                    \/ j = k /\ serie >= theap[transfers[k]].parts
<1> DEFINE k == transfer_from_id(n)
           t == theap[transfers[k]]
           q == t.receiver
           data == req_server_FILE_transfer(serie, n)
           x == send_to(Now, q, data)
<1>1. PairInv /\ SoundTransfers(transfers, theap)
  BY DEF RelayInv
<1>2. /\ phase = "running" /\ k # 0 /\ fifo' = fifo
      /\ IF BadRead(Transfers, k) \/ ~Live(heap, q)
         THEN Stops("undefined") /\ KeepsTransfers
         ELSE /\ Leaves(x, Idle)
              /\ IF phase' = "running" /\ Ends(serie, t.parts)
                 THEN Holds(arlist_remove(transfers, k), theap) /\ Standing([deal EXCEPT ![n] = Null])
                 ELSE KeepsTransfers
  BY DEF FILE_transfer, Request
<1>3. ~BadRead(Transfers, k) /\ k \in 1 .. Len(transfers) /\ t.id = n /\ t \in Transfer
  BY <1>1, <1>2, TransferFound
<1>4. data \in Packet /\ data # NODATA
  BY RelayPackets, ServerAssumption DEF Series, Ids
<1> HIDE DEF k, data
<1>5. CASE ~Live(heap, q)
  <2>1. Stops("undefined") /\ KeepsTransfers
    BY <1>2, <1>5
  <2>2. PairInv' /\ Settled /\ phase' # "running"
    BY <1>1, <1>2, <2>1, StopsPair
  <2>3. RelayInv'
    BY <2>1, <2>2, KeepsOK
  <2> QED  BY <1>3, <1>5, <2>2, <2>3 DEF k, data
<1>6. CASE Live(heap, q)
  <2> HIDE DEF q, t
  <2>1. /\ Leaves(x, Idle)
        /\ IF phase' = "running" /\ Ends(serie, t.parts)
           THEN Holds(arlist_remove(transfers, k), theap) /\ Standing([deal EXCEPT ![n] = Null])
           ELSE KeepsTransfers
    BY <1>2, <1>3, <1>6
  <2>2. /\ Thinned(x)
        /\ ~ClosedPipe(Now, q) => x.out = Append(<<>>, [to |-> heap[q].path, data |-> data])
    <3>1. Now.heap = heap /\ Now.out = <<>> /\ Thinned(Now)
      BY <1>1, NowPair, ThinnedNow
    <3> QED  BY <1>4, <1>6, <3>1, ThinnedSend
  <2> HIDE DEF x
  <2>3. PairInv' /\ Settled /\ phase' = "running" /\ out' = x.out
    BY <1>1, <1>2, <2>1, <2>2, LeavesThinned
  <2>4. fifo[heap[q].path] = "open" => out' = <<[to |-> heap[q].path, data |-> data]>>
    <3>1. ClosedPipe(Now, q) <=> fifo[heap[q].path] # "open"
      BY <1>1, NowPair DEF ClosedPipe
    <3>2. Append(<<>>, [to |-> heap[q].path, data |-> data]) = <<[to |-> heap[q].path, data |-> data]>>
      OBVIOUS
    <3> QED  BY <2>2, <2>3, <3>1, <3>2
  <2>5. DOMAIN transfers = 1 .. Len(transfers)
    BY <1>1 DEF SoundTransfers
  <2>6. CASE ~Ends(serie, t.parts)
    <3>1. RelayInv' /\ transfers' = transfers
      BY <2>1, <2>3, <2>6, KeepsOK DEF KeepsTransfers
    <3>2. \A j \in 1 .. Len(transfers) : transfers[j] \in Range(transfers')
      BY <2>5, <3>1 DEF Range
    <3> QED  BY <1>3, <2>4, <3>1, <3>2 DEF k, q, t, data
  <2>7. CASE Ends(serie, t.parts)
    <3> DEFINE r == arlist_remove(transfers, k)
               deals == [deal EXCEPT ![n] = Null]
    <3>1. /\ transfers' = r /\ Standing(deals)
          /\ theap' = [a \in Addr |-> IF a \in Range(r) THEN theap[a] ELSE Freed]
      BY <2>1, <2>3, <2>7 DEF Holds
    <3>2. /\ SoundTransfers(transfers', theap')
          /\ \A j \in 1 .. Len(transfers) : j # k =>
               theap'[transfers[j]] = theap[transfers[j]] /\ \E m \in 1 .. Len(transfers') : transfers'[m] = transfers[j]
      BY <1>1, <1>3, <3>1, RemoveTransfer
    <3>3. \A m \in Ids : deals[m] = IF m = n THEN Null ELSE deal[m]
      BY DEF RelayInv
    <3> HIDE DEF r, deals
    <3>4. ASSUME NEW m \in Ids, deals[m] # Null
          PROVE  /\ deals[m].receiver \in Addr
                 /\ Live(heap', deals[m].receiver) => heap'[deals[m].receiver].path = deals[m].path
                 /\ \E j \in 1 .. Len(transfers') :
                      theap'[transfers'[j]].id = m /\ theap'[transfers'[j]].receiver = deals[m].receiver
      <4>1. m # n /\ deals[m] = deal[m]
        BY <3>3, <3>4
      <4>2. PICK j \in 1 .. Len(transfers) :
              theap[transfers[j]].id = m /\ theap[transfers[j]].receiver = deals[m].receiver
        BY <3>4, <4>1 DEF RelayInv, Stands
      <4>3. j # k
        BY <1>3, <4>1, <4>2 DEF t
      <4>4. \E i1 \in 1 .. Len(transfers') : transfers'[i1] = transfers[j]
        BY <3>2, <4>3
      <4> QED  BY <2>3, <3>2, <3>4, <4>1, <4>2, <4>3, <4>4, DealsAfter
    <3>5. deal' = [m \in Ids |-> deal'[m]] /\ \A m \in Ids : deal'[m] # Null => Stands(m)'
      BY <3>1, <3>4, StandingOK
    <3>6. SoundTransfers(transfers, theap)'
      BY <3>2 DEF SoundTransfers, Live
    <3>7. RelayInv'
      BY <2>3, <3>5, <3>6 DEF RelayInv
    <3>8. serie >= t.parts
      BY <2>7 DEF Ends
    <3>9. \A j \in 1 .. Len(transfers) : transfers[j] \in Range(transfers') \/ j = k
      <4>1. DOMAIN transfers' = 1 .. Len(transfers')
        BY <3>2 DEF SoundTransfers
      <4> QED  BY <3>2, <4>1 DEF Range
    <3> QED  BY <1>3, <2>4, <3>7, <3>8, <3>9 DEF k, q, t, data
  <2> QED  BY <2>6, <2>7
<1> QED  BY <1>5, <1>6

\* A request that finds no transfer, and the end of the server.
LEMMA NoSuchTransferOK ==
  ASSUME RelayInv, NEW n \in Ids, NoSuchTransfer(n)
  PROVE  RelayInv' /\ deal[n] = Null /\ KeepsTransfers
<1>1. PairInv /\ SoundTransfers(transfers, theap)
  BY DEF RelayInv
<1>2. phase = "running" /\ transfer_from_id(n) = 0 /\ Leaves(Now, Idle) /\ KeepsTransfers /\ fifo' = fifo
  BY DEF NoSuchTransfer, Request
<1>3. PairInv' /\ Settled
  BY <1>1, <1>2, ThinnedNow, LeavesThinned
<1>4. \A j \in 1 .. Len(transfers) : theap[transfers[j]].id # n
  BY <1>1, <1>2, TransferFound
<1>5. deal[n] = Null
  BY <1>4 DEF RelayInv, Stands
<1> QED  BY <1>2, <1>3, <1>5, KeepsOK

LEMMA ShutdownOK ==
  ASSUME RelayInv, Shutdown
  PROVE  RelayInv' /\ phase' # "running"
<1>1. PairInv
  BY DEF RelayInv
<1>2. (Stops("exited") \/ Stops("undefined")) /\ KeepsTransfers /\ fifo' = fifo
  BY DEF Shutdown, server_end
<1>3. PairInv' /\ Settled /\ phase' # "running"
  BY <1>1, <1>2, StopsPair
<1> QED  BY <1>2, <1>3, KeepsOK

LEMMA UserStepOK ==
  ASSUME OneRegion, TwoPaths, RelayInv, UserStep
  PROVE  RelayInv' /\ KeepsTransfers
<1>1. PairInv
  BY DEF RelayInv
<1>2. Next /\ KeepsTransfers
  BY DEF UserStep, Next, Receive, Serve
<1>3. PairInv' /\ Settled
  BY <1>1, <1>2, PairNext, NextSettled
<1> QED  BY <1>2, <1>3, KeepsOK

LEMMA RelayStutter ==
  ASSUME OneRegion, TwoPaths, RelayInv, UNCHANGED <<vars, relay>>
  PROVE  RelayInv'
<1>1. PairInv'
  BY PairNext DEF RelayInv
<1>2. UNCHANGED <<heap, transfers, theap, deal>>
  BY DEF vars, relay
<1>3. SoundTransfers(transfers, theap)'
  BY <1>2 DEF RelayInv, SoundTransfers, Live
<1>4. \A n \in Ids : deal'[n] # Null => Stands(n)'
  BY <1>2 DEF RelayInv, Stands, Live
<1> QED  BY <1>1, <1>2, <1>3, <1>4 DEF RelayInv

LEMMA RelayNextOK ==
  ASSUME OneRegion, TwoPaths, RelayInv, [RelayNext]_<<vars, relay>>, [TwoAtOnce]_<<vars, relay>>
  PROVE  RelayInv'
<1>1. CASE UserStep
  BY <1>1, UserStepOK
<1>2. ASSUME NEW id \in Ids, NEW nick \in Nick \cup {Null}, NEW named \in BOOLEAN,
             RefuseFile(id, nick, named)
      PROVE  RelayInv'
  BY <1>2, RefuseFileOK
<1>3. CASE UNCHANGED <<vars, relay>>
  BY <1>3, RelayStutter
<1>4. TwoAtOnce
  BY DEF RelayInv, SoundTransfers, TwoAtOnce, relay
<1>5. ASSUME NEW id \in Ids, NEW nick \in Nick, NEW parts \in Parts, NEW x \in Addr,
             AcceptFile(id, nick, parts, x)
      PROVE  RelayInv'
  BY <1>4, <1>5, AcceptFileOK
<1>6. ASSUME NEW serie \in Series, NEW n \in Ids, FILE_transfer(serie, n)
      PROVE  RelayInv'
  BY <1>6, FileTransferOK
<1>7. ASSUME NEW n \in Ids, NoSuchTransfer(n) PROVE RelayInv'
  BY <1>7, NoSuchTransferOK
<1>8. CASE Shutdown
  BY <1>8, ShutdownOK
<1> QED  BY <1>1, <1>2, <1>3, <1>5, <1>6, <1>7, <1>8 DEF RelayNext

LEMMA RelayInitOK == RelayInit => RelayInv
<1> SUFFICES ASSUME RelayInit PROVE RelayInv
  OBVIOUS
<1>1. PairInv
  BY PairInit DEF RelayInit, PairSafe
<1>2. transfers = <<>> /\ theap = [a \in Addr |-> Freed] /\ deal = [n \in Ids |-> Null]
  BY DEF RelayInit
<1>3. SoundTransfers(transfers, theap)
  <2>1. transfers \in Seq(Ptr) /\ Len(transfers) = 0 /\ theap \in TCells
    BY <1>2 DEF TCells
  <2> QED  BY <2>1 DEF SoundTransfers
<1>4. deal = [n \in Ids |-> deal[n]] /\ \A n \in Ids : deal[n] = Null
  BY <1>2
<1> QED  BY <1>1, <1>3, <1>4 DEF RelayInv

\* While at most two transfers are open, the promises that stand are about transfers
\* and users that are still there, each transfer under a number of its own.
THEOREM RelayInvariant ==
  ASSUME OneRegion, TwoPaths
  PROVE  RelaySpec /\ [][TwoAtOnce]_<<vars, relay>> => []RelayInv
<1>1. RelayInv /\ [RelayNext]_<<vars, relay>> /\ [TwoAtOnce]_<<vars, relay>> => RelayInv'
  BY RelayNextOK
<1> QED  BY <1>1, RelayInitOK, PTL DEF RelaySpec

\* While at most two transfers are open, a part sent under the number of an OKOK
\* reaches the user that OKOK was about, if he still reads.
THEOREM PartsReach ==
  ASSUME OneRegion, TwoPaths
  PROVE  RelaySpec /\ [][TwoAtOnce]_<<vars, relay>> => PartsReachReceiver
<1> DEFINE Reaches ==
      \A n \in Ids, serie \in Series :
        deal[n] # Null /\ (FILE_transfer(serie, n) \/ NoSuchTransfer(n)) =>
          \/ fifo[deal[n].path] # "open"
          \/ \E s \in Series :
               out' = <<[to |-> deal[n].path, data |-> req_server_FILE_transfer(s, n)]>>
<1>1. ASSUME RelayInv PROVE Reaches
  <2> SUFFICES ASSUME NEW n \in Ids, NEW serie \in Series, deal[n] # Null,
                      FILE_transfer(serie, n) \/ NoSuchTransfer(n),
                      fifo[deal[n].path] = "open"
               PROVE  \E s \in Series :
                        out' = <<[to |-> deal[n].path, data |-> req_server_FILE_transfer(s, n)]>>
    OBVIOUS
  <2>1. FILE_transfer(serie, n)
    BY <1>1, NoSuchTransferOK
  <2> DEFINE k == transfer_from_id(n)
             q == theap[transfers[k]].receiver
  <2>2. /\ k \in 1 .. Len(transfers) /\ theap[transfers[k]].id = n
        /\ Live(heap, q) /\ fifo[heap[q].path] = "open" =>
             out' = <<[to |-> heap[q].path, data |-> req_server_FILE_transfer(serie, n)]>>
    BY <1>1, <2>1, FileTransferOK
  <2> HIDE DEF k
  <2>3. /\ Live(heap, deal[n].receiver) /\ heap[deal[n].receiver].path = deal[n].path
        /\ \E j \in 1 .. Len(transfers) :
             theap[transfers[j]].id = n /\ theap[transfers[j]].receiver = deal[n].receiver
    BY <1>1 DEF RelayInv, Stands
  <2>4. q = deal[n].receiver
    BY <1>1, <2>2, <2>3 DEF RelayInv, SoundTransfers
  <2> QED  BY <2>2, <2>3, <2>4
<1> HIDE DEF Reaches
<1>2. RelayInv => [Reaches]_<<vars, relay>>
  BY <1>1
<1>3. RelaySpec /\ [][TwoAtOnce]_<<vars, relay>> => [][Reaches]_<<vars, relay>>
  BY <1>2, RelayInvariant, PTL
<1> QED  BY <1>3 DEF Reaches, PartsReachReceiver

\* While at most two transfers are open, a transfer leaves the table with the last part
\* of its own file, with one of its users or with the server, but not with another one
\* (pro_client_FILE_transfer).
THEOREM EndsWithLastPart ==
  ASSUME OneRegion, TwoPaths
  PROVE  RelaySpec /\ [][TwoAtOnce]_<<vars, relay>> => OnlyLastPartEnds
<1> DEFINE Leaver(x) == \E serie \in Series : serie >= theap[x].parts /\ FILE_transfer(serie, theap[x].id)
           Keeps == phase' = "running" =>
                      \A x \in Range(transfers) : x \in Range(transfers') \/ Leaver(x)
<1>1. ASSUME RelayInv, [RelayNext]_<<vars, relay>>, [TwoAtOnce]_<<vars, relay>>
      PROVE  Keeps
  <2> SUFFICES ASSUME phase' = "running", NEW x \in Range(transfers), x \notin Range(transfers')
               PROVE  Leaver(x)
    OBVIOUS
  <2> HIDE DEF Leaver
  <2>1. transfers' # transfers
    OBVIOUS
  <2>2. ~KeepsTransfers
    BY <2>1 DEF KeepsTransfers
  <2>3. ~UserStep
    BY <1>1, <2>2, UserStepOK
  <2>5. \A id \in Ids, nick \in Nick \cup {Null}, named \in BOOLEAN : ~RefuseFile(id, nick, named)
    BY <1>1, <2>2 DEF RefuseFile
  <2>6. TwoAtOnce
    BY <1>1, <2>1 DEF relay
  <2>7. \A id \in Ids, nick \in Nick, parts \in Parts, a \in Addr : ~AcceptFile(id, nick, parts, a)
    BY <1>1, <2>6, AcceptFileOK
  <2>8. (\A n \in Ids : ~NoSuchTransfer(n)) /\ ~Shutdown
    BY <2>2 DEF NoSuchTransfer, Shutdown
  <2>9. ~UNCHANGED <<vars, relay>>
    BY <2>1 DEF relay
  <2>10. PICK serie \in Series, n \in Ids : FILE_transfer(serie, n)
    BY <1>1, <2>3, <2>5, <2>7, <2>8, <2>9 DEF RelayNext
  <2>11. PICK j \in 1 .. Len(transfers) : transfers[j] = x
    BY <1>1 DEF RelayInv, SoundTransfers, Range
  <2>12. LET k == transfer_from_id(n)
         IN  /\ theap[transfers[k]].id = n
             /\ j = k /\ serie >= theap[transfers[k]].parts
    BY <1>1, <2>10, <2>11, FileTransferOK
  <2>13. theap[x].id = n /\ serie >= theap[x].parts
    BY <2>11, <2>12
  <2> QED  BY <2>10, <2>13 DEF Leaver
<1> DEFINE Lasts == phase' = "running" =>
                      \A x \in Range(transfers) :
                        \/ x \in Range(transfers')
                        \/ Leaver(x)
                        \/ Departs(theap[x].sender)
                        \/ Departs(theap[x].receiver)
<1>0. Keeps => Lasts
  <2> HIDE DEF Leaver
  <2> QED  OBVIOUS
<1> HIDE DEF Keeps
<1>2. RelayInv /\ [RelayNext]_<<vars, relay>> /\ [TwoAtOnce]_<<vars, relay>> => [Lasts]_<<vars, relay>>
  BY <1>0, <1>1
<1> HIDE DEF Lasts
<1>3. RelaySpec /\ [][TwoAtOnce]_<<vars, relay>> => [][Lasts]_<<vars, relay>>
  BY <1>2, RelayInvariant, PTL DEF RelaySpec
<1> QED  BY <1>3 DEF Lasts, OnlyLastPartEnds

=============================================================================
