------------------------------ MODULE ChatProofs ------------------------------
(***************************************************************************)
(* The whole system with two clients: what each of them believes of its    *)
(* connection is what the server has, or the client will be told otherwise.*)
(***************************************************************************)
EXTENDS Chat, ServerProofs

Listed(s) == \E S : s \in Seq(S)

Answer == {"OKOK", "BADD"}

-----------------------------------------------------------------------------
(* What the writes of a step leave in a FIFO.                               *)

\* r is s with the packets of o for c behind it, each once.
Gets(s, r, o, c, p) ==
  /\ Listed(r)
  /\ Len(s) \in Nat /\ Len(r) \in Nat /\ Len(s) <= Len(r)
  /\ \A j \in 1 .. Len(s) : r[j] = s[j]
  /\ \A j \in Len(s) + 1 .. Len(r) : \E k \in 1 .. Len(o) :
       o[k].to = c /\ r[j] = Carried(o[k].data, p)
  /\ \A k \in 1 .. Len(o) : o[k].to = c =>
       \E j \in Len(s) + 1 .. Len(r) : r[j] = Carried(o[k].data, p)
  /\ \A i1, j \in Len(s) + 1 .. Len(r) : i1 # j =>
       \E k, l \in 1 .. Len(o) :
         /\ k # l /\ o[k].to = c /\ o[l].to = c
         /\ r[i1] = Carried(o[k].data, p) /\ r[j] = Carried(o[l].data, p)

\* No step writes more than two packets, and none writes NODATA.
Short(o) ==
  /\ Len(o) = 0 \/ Len(o) = 1 \/ Len(o) = 2
  /\ \A k \in 1 .. Len(o) : o[k].data # NODATA

LEMMA PutFacts ==
  ASSUME NEW s, Listed(s), NEW w, NEW c, NEW p
  PROVE  LET r == Put(s, w, c, p)
         IN  /\ Listed(r) /\ Len(s) \in Nat /\ Len(r) \in Nat
             /\ w.to # c => r = s
             /\ w.to = c =>
                  /\ Len(r) = Len(s) + 1 /\ r[Len(s) + 1] = Carried(w.data, p)
                  /\ \A j \in 1 .. Len(s) : r[j] = s[j]
<1> DEFINE x == Carried(w.data, p)
           r == Put(s, w, c, p)
<1>1. PICK S : s \in Seq(S)
  BY DEF Listed
<1>2. Len(s) \in Nat
  BY <1>1
<1>3. CASE w.to # c
  BY <1>1, <1>2, <1>3 DEF Put, Listed
<1>4. CASE w.to = c
  <2>1. r = Append(s, x)
    BY <1>4 DEF Put
  <2> HIDE DEF x, r
  <2>2. s \in Seq(S \cup {x}) /\ x \in S \cup {x}
    BY <1>1
  <2>3. /\ Append(s, x) \in Seq(S \cup {x})
        /\ Len(Append(s, x)) = Len(s) + 1
        /\ Append(s, x)[Len(s) + 1] = x
        /\ \A j \in 1 .. Len(s) : Append(s, x)[j] = s[j]
    BY <2>2
  <2> QED  BY <1>2, <1>4, <2>1, <2>3 DEF Listed, x, r
<1> QED  BY <1>3, <1>4

\* Writes one after the other: the recursion of Posted, for as many as there are.
PostedBy(f, s, o, c, p) ==
  f = [k \in 0 .. Len(o) |-> IF k = 0 THEN s ELSE Put(f[k - 1], o[k], c, p)]

LEMMA PostedFrom ==
  ASSUME NEW s, NEW o, NEW c, NEW p, NEW f, PostedBy(f, s, o, c, p)
  PROVE  \E g : PostedBy(g, s, o, c, p) /\ Posted(s, o, c, p) = g[Len(o)]
<1> DEFINE g == CHOOSE g : g = [k \in 0 .. Len(o) |-> IF k = 0 THEN s ELSE Put(g[k - 1], o[k], c, p)]
<1>1. g = [k \in 0 .. Len(o) |-> IF k = 0 THEN s ELSE Put(g[k - 1], o[k], c, p)]
  BY Zenon DEF PostedBy
<1>2. Posted(s, o, c, p) = g[Len(o)]
  BY Zenon DEF Posted
<1> HIDE DEF g
<1> QED  BY <1>1, <1>2 DEF PostedBy

LEMMA PostedNone ==
  ASSUME NEW s, NEW o, Len(o) = 0, NEW c, NEW p
  PROVE  Posted(s, o, c, p) = s
<1> DEFINE f == [k \in 0 .. 0 |-> s]
<1>1. PostedBy(f, s, o, c, p)
  BY DEF PostedBy
<1>2. PICK g : PostedBy(g, s, o, c, p) /\ Posted(s, o, c, p) = g[Len(o)]
  BY <1>1, PostedFrom
<1> QED  BY <1>2 DEF PostedBy

LEMMA PostedOne ==
  ASSUME NEW s, NEW o, Len(o) = 1, NEW c, NEW p
  PROVE  Posted(s, o, c, p) = Put(s, o[1], c, p)
<1> DEFINE x == Put(s, o[1], c, p)
           f == [k \in 0 .. 1 |-> IF k = 0 THEN s ELSE x]
<1>1. PostedBy(f, s, o, c, p)
  <2>1. \A k \in 0 .. 1 : k = 0 \/ (k = 1 /\ k - 1 = 0)
    OBVIOUS
  <2>2. f[0] = s
    OBVIOUS
  <2>3. \A k \in 0 .. 1 : f[k] = IF k = 0 THEN s ELSE Put(f[k - 1], o[k], c, p)
    BY <2>1, <2>2
  <2> QED  BY <2>3 DEF PostedBy
<1>2. PICK g : PostedBy(g, s, o, c, p) /\ Posted(s, o, c, p) = g[Len(o)]
  BY <1>1, PostedFrom
<1>3. g[0] = s /\ g[1] = Put(g[0], o[1], c, p)
  BY <1>2 DEF PostedBy
<1> QED  BY <1>2, <1>3

LEMMA PostedTwo ==
  ASSUME NEW s, NEW o, Len(o) = 2, NEW c, NEW p
  PROVE  Posted(s, o, c, p) = Put(Put(s, o[1], c, p), o[2], c, p)
<1> DEFINE x == Put(s, o[1], c, p)
           y == Put(x, o[2], c, p)
           f == [k \in 0 .. 2 |-> IF k = 0 THEN s ELSE IF k = 1 THEN x ELSE y]
<1>1. PostedBy(f, s, o, c, p)
  <2>1. \A k \in 0 .. 2 : k = 0 \/ (k = 1 /\ k - 1 = 0) \/ (k = 2 /\ k - 1 = 1)
    OBVIOUS
  <2>2. f[0] = s /\ f[1] = x
    OBVIOUS
  <2>3. \A k \in 0 .. 2 : f[k] = IF k = 0 THEN s ELSE Put(f[k - 1], o[k], c, p)
    BY <2>1, <2>2
  <2> QED  BY <2>3 DEF PostedBy
<1>2. PICK g : PostedBy(g, s, o, c, p) /\ Posted(s, o, c, p) = g[Len(o)]
  BY <1>1, PostedFrom
<1>3. g[0] = s /\ g[1] = Put(g[0], o[1], c, p) /\ g[2] = Put(g[1], o[2], c, p)
  BY <1>2 DEF PostedBy
<1> QED  BY <1>2, <1>3

LEMMA PostedGets ==
  ASSUME NEW s, Listed(s), NEW o, Short(o), NEW c, NEW p
  PROVE  Gets(s, Posted(s, o, c, p), o, c, p)
<1> DEFINE r == Posted(s, o, c, p)
<1>1. CASE Len(o) = 0
  <2>1. r = s
    BY <1>1, PostedNone
  <2>2. Len(s) \in Nat
    BY DEF Listed
  <2> HIDE DEF r
  <2>3. Gets(s, s, o, c, p)
    BY <1>1, <2>2 DEF Gets
  <2> QED  BY <2>1, <2>3 DEF r
<1>2. ASSUME Len(o) = 1 PROVE Gets(s, r, o, c, p)
  <2>w. PICK w : w = o[1]
    OBVIOUS
  <2>1. r = Put(s, w, c, p) /\ Len(o) = 1 /\ o[1] = w
    BY <1>2, <2>w, PostedOne
  <2> HIDE DEF r
  <2>2. /\ Listed(r) /\ Len(s) \in Nat /\ Len(r) \in Nat
        /\ w.to # c => r = s
        /\ w.to = c =>
             /\ Len(r) = Len(s) + 1 /\ r[Len(s) + 1] = Carried(w.data, p)
             /\ \A j \in 1 .. Len(s) : r[j] = s[j]
    BY <2>1, PutFacts
  <2>3. CASE w.to # c
    BY <2>1, <2>2, <2>3 DEF Gets
  <2>4. CASE w.to = c
    <3>1. \A j \in Len(s) + 1 .. Len(r) : j = Len(s) + 1
      BY <2>2, <2>4
    <3>2. Len(s) + 1 \in Len(s) + 1 .. Len(r) /\ Len(s) <= Len(r) /\ 1 \in 1 .. Len(o)
      BY <2>1, <2>2, <2>4
    <3>3. \A k \in 1 .. Len(o) : k = 1
      BY <2>1
    <3> QED  BY <2>1, <2>2, <2>4, <3>1, <3>2, <3>3 DEF Gets
  <2> QED  BY <2>3, <2>4
<1>3. ASSUME Len(o) = 2 PROVE Gets(s, r, o, c, p)
  <2>w. PICK w : w = o[1]
    OBVIOUS
  <2>v. PICK v : v = o[2]
    OBVIOUS
  <2> DEFINE m == Put(s, w, c, p)
  <2>1. r = Put(m, v, c, p) /\ Len(o) = 2 /\ o[1] = w /\ o[2] = v
    BY <1>3, <2>w, <2>v, PostedTwo
  <2>2. /\ Listed(m) /\ Len(s) \in Nat /\ Len(m) \in Nat
        /\ w.to # c => m = s
        /\ w.to = c =>
             /\ Len(m) = Len(s) + 1 /\ m[Len(s) + 1] = Carried(w.data, p)
             /\ \A j \in 1 .. Len(s) : m[j] = s[j]
    BY PutFacts
  <2> HIDE DEF r, m
  <2>3. /\ Listed(r) /\ Len(m) \in Nat /\ Len(r) \in Nat
        /\ v.to # c => r = m
        /\ v.to = c =>
             /\ Len(r) = Len(m) + 1 /\ r[Len(m) + 1] = Carried(v.data, p)
             /\ \A j \in 1 .. Len(m) : r[j] = m[j]
    BY <2>1, <2>2, PutFacts
  <2>4. 1 \in 1 .. Len(o) /\ 2 \in 1 .. Len(o) /\ \A k \in 1 .. Len(o) : k = 1 \/ k = 2
    BY <2>1
  <2>5. CASE w.to # c /\ v.to # c
    BY <2>1, <2>2, <2>3, <2>4, <2>5 DEF Gets
  <2>6. CASE w.to # c /\ v.to = c
    <3>1. \A j \in Len(s) + 1 .. Len(r) : j = Len(s) + 1
      BY <2>2, <2>3, <2>6
    <3>2. Len(s) + 1 \in Len(s) + 1 .. Len(r) /\ Len(s) <= Len(r)
      BY <2>2, <2>3, <2>6
    <3> QED  BY <2>1, <2>2, <2>3, <2>4, <2>6, <3>1, <3>2 DEF Gets
  <2>7. CASE w.to = c /\ v.to # c
    <3>1. \A j \in Len(s) + 1 .. Len(r) : j = Len(s) + 1
      BY <2>2, <2>3, <2>7
    <3>2. Len(s) + 1 \in Len(s) + 1 .. Len(r) /\ Len(s) <= Len(r)
      BY <2>2, <2>3, <2>7
    <3> QED  BY <2>1, <2>2, <2>3, <2>4, <2>7, <3>1, <3>2 DEF Gets
  <2>8. CASE w.to = c /\ v.to = c
    <3>1. \A j \in Len(s) + 1 .. Len(r) : j = Len(s) + 1 \/ j = Len(s) + 2
      BY <2>2, <2>3, <2>8
    <3>2. /\ Len(s) + 1 \in Len(s) + 1 .. Len(r) /\ Len(s) + 2 \in Len(s) + 1 .. Len(r)
          /\ Len(s) <= Len(r) /\ Len(s) + 1 \in 1 .. Len(m)
          /\ \A j \in 1 .. Len(s) : j \in 1 .. Len(m)
      BY <2>2, <2>3, <2>8
    <3>3. r[Len(s) + 1] = Carried(w.data, p) /\ r[Len(s) + 2] = Carried(v.data, p)
      <4>1. Len(m) + 1 = Len(s) + 2
        BY <2>2, <2>8
      <4> QED  BY <2>2, <2>3, <2>8, <3>2, <4>1
    <3>4. \A j \in 1 .. Len(s) : r[j] = s[j]
      BY <2>2, <2>3, <2>8, <3>2
    <3>5. \A j \in Len(s) + 1 .. Len(r) : \E k \in 1 .. Len(o) :
            o[k].to = c /\ r[j] = Carried(o[k].data, p)
      BY <2>1, <2>4, <2>8, <3>1, <3>3
    <3>6. \A k \in 1 .. Len(o) : o[k].to = c =>
            \E j \in Len(s) + 1 .. Len(r) : r[j] = Carried(o[k].data, p)
      BY <2>1, <2>4, <3>2, <3>3
    <3>7. ASSUME NEW i1 \in Len(s) + 1 .. Len(r), NEW j \in Len(s) + 1 .. Len(r), i1 # j
          PROVE  \E k, l \in 1 .. Len(o) :
                   /\ k # l /\ o[k].to = c /\ o[l].to = c
                   /\ r[i1] = Carried(o[k].data, p) /\ r[j] = Carried(o[l].data, p)
      BY <2>1, <2>4, <2>8, <3>1, <3>3, <3>7
    <3> QED  BY <2>2, <2>3, <3>2, <3>4, <3>5, <3>6, <3>7 DEF Gets
  <2> QED  BY <2>5, <2>6, <2>7, <2>8
<1> QED  BY <1>1, <1>2, <1>3 DEF Short

-----------------------------------------------------------------------------
(* What the server does to a client that has not asked: nothing, as long as *)
(* it reads its FIFO and has not said BYEE.                                 *)

\* Users that go have stopped reading or are told BYEE, and user q alone is answered, once.
Mild(h, o, q) ==
  /\ \A a \in Addr : Live(h, a) => Live(heap, a) /\ h[a] = heap[a]
  /\ \A a \in Addr : Live(heap, a) /\ ~Live(h, a) =>
       \/ fifo[heap[a].path] # "open"
       \/ /\ heap[a].id \in Ids
          /\ \E k \in 1 .. Len(o) : o[k] = [to |-> heap[a].path, data |-> <<"BYEE", heap[a].id>>]
  /\ Short(o)
  /\ \A k \in 1 .. Len(o) : o[k].data[1] \in Answer =>
       Live(heap, q) /\ heap[q].id \in Ids /\ o[k].to = heap[q].path
  /\ \A j, k \in 1 .. Len(o) : o[j].data[1] \in Answer /\ o[k].data[1] \in Answer => j = k

\* What a single write comes to.
LEMMA SendOutcome ==
  ASSUME OneRegion, NEW t, Thinned(t), NEW p, Live(t.heap, p), NEW data \in Packet
  PROVE  LET r == send_to(t, p, data)
         IN  /\ Thinned(r) /\ t.heap[p] = heap[p] /\ p \in Addr /\ t.heap \in Cells
             /\ \/ r.out = t.out /\ r.heap = t.heap
                \/ /\ fifo[heap[p].path] # "open"
                   /\ r.out = t.out /\ r.heap = [t.heap EXCEPT ![p] = Freed]
                \/ /\ data # NODATA /\ r.heap = t.heap
                   /\ r.out = Append(t.out, [to |-> heap[p].path, data |-> data])
<1> DEFINE r == send_to(t, p, data)
<1>1. TableTyped(t) /\ ~t.bad /\ Sound(t.users, t.heap) /\ p \in Addr /\ t.heap \in Cells
  BY DEF Thinned, Live, Sound
<1>2. t.heap[p] = heap[p]
  BY <1>1 DEF Thinned, Live
<1>3. /\ \/ data = NODATA /\ r = t
         \/ /\ data # NODATA /\ ClosedPipe(t, p) /\ r = remove_user(t, p)
            /\ r.out = t.out /\ r.heap = [t.heap EXCEPT ![p] = Freed]
         \/ /\ data # NODATA /\ ~ClosedPipe(t, p)
            /\ r.users = t.users /\ r.heap = t.heap
            /\ r.out = Append(t.out, [to |-> t.heap[p].path, data |-> data])
  BY <1>1, SendPair
<1>4. Thinned(r)
  BY ThinnedSend
<1> HIDE DEF r
<1>5. ClosedPipe(t, p) => fifo[heap[p].path] # "open"
  BY <1>2 DEF ClosedPipe
<1>6. t.heap[p].path = heap[p].path
  BY <1>2
<1> QED  BY <1>1, <1>2, <1>3, <1>4, <1>5, <1>6 DEF r

LEMMA ShortCases ==
  /\ Len(<<>>) = 0
  /\ \A w : Len(Append(<<>>, w)) = 1 /\ Append(<<>>, w)[1] = w
  /\ \A w, v : /\ Len(Append(Append(<<>>, w), v)) = 2
               /\ Append(Append(<<>>, w), v)[1] = w /\ Append(Append(<<>>, w), v)[2] = v
<1>1. ASSUME NEW w, NEW v
      PROVE  /\ Len(Append(<<>>, w)) = 1 /\ Append(<<>>, w)[1] = w
             /\ Len(Append(Append(<<>>, w), v)) = 2
             /\ Append(Append(<<>>, w), v)[1] = w /\ Append(Append(<<>>, w), v)[2] = v
  <2>1. <<>> \in Seq({w, v}) /\ w \in {w, v} /\ v \in {w, v}
    OBVIOUS
  <2>2. /\ Append(<<>>, w) \in Seq({w, v}) /\ Len(Append(<<>>, w)) = 1
        /\ Append(<<>>, w)[1] = w
    BY <2>1
  <2>3. /\ Len(Append(Append(<<>>, w), v)) = 2
        /\ Append(Append(<<>>, w), v)[1] = w /\ Append(Append(<<>>, w), v)[2] = v
    BY <2>1, <2>2
  <2> QED  BY <2>2, <2>3
<1> QED  BY <1>1, Zenon

LEMMA ShortNone == Short(<<>>)
BY ShortCases DEF Short

LEMMA MildNow == ASSUME PairInv, NEW q PROVE Mild(heap, <<>>, q)
<1>1. Short(<<>>) /\ Len(<<>>) = 0
  BY ShortCases DEF Short
<1> QED  BY <1>1 DEF Mild

LEMMA MildSend ==
  ASSUME OneRegion, PairInv, NEW p, Live(heap, p), NEW data \in Packet, NEW q,
         data # NODATA /\ data[1] \in Answer => q = p /\ heap[p].id \in Ids
  PROVE  LET r == send_to(Now, p, data)
         IN  Thinned(r) /\ Mild(r.heap, r.out, q)
<1> DEFINE r == send_to(Now, p, data)
           w == [to |-> heap[p].path, data |-> data]
<1>1. Now.heap = heap /\ Now.out = <<>> /\ Thinned(Now)
  BY NowPair, ThinnedNow
<1>2. /\ Thinned(r) /\ p \in Addr /\ heap \in Cells
      /\ \/ r.out = <<>> /\ r.heap = heap
         \/ /\ fifo[heap[p].path] # "open"
            /\ r.out = <<>> /\ r.heap = [heap EXCEPT ![p] = Freed]
         \/ data # NODATA /\ r.heap = heap /\ r.out = Append(<<>>, w)
  <2>1. Live(Now.heap, p)
    BY <1>1
  <2>2. /\ Thinned(r) /\ Now.heap[p] = heap[p] /\ p \in Addr /\ Now.heap \in Cells
        /\ \/ r.out = Now.out /\ r.heap = Now.heap
           \/ /\ fifo[heap[p].path] # "open"
              /\ r.out = Now.out /\ r.heap = [Now.heap EXCEPT ![p] = Freed]
           \/ /\ data # NODATA /\ r.heap = Now.heap
              /\ r.out = Append(Now.out, [to |-> heap[p].path, data |-> data])
    <3>1. \A t, y : Thinned(t) /\ Live(t.heap, y) =>
            LET x == send_to(t, y, data)
            IN  /\ Thinned(x) /\ t.heap[y] = heap[y] /\ y \in Addr /\ t.heap \in Cells
                /\ \/ x.out = t.out /\ x.heap = t.heap
                   \/ /\ fifo[heap[y].path] # "open"
                      /\ x.out = t.out /\ x.heap = [t.heap EXCEPT ![y] = Freed]
                   \/ /\ data # NODATA /\ x.heap = t.heap
                      /\ x.out = Append(t.out, [to |-> heap[y].path, data |-> data])
      BY SendOutcome
    <3> QED  BY <1>1, <2>1, <3>1, Zenon
  <2> HIDE DEF r
  <2> QED  BY <1>1, <2>2
<1>3. w.to = heap[p].path /\ w.data = data
  OBVIOUS
<1> HIDE DEF r, w
<1>4. CASE r.out = <<>> /\ r.heap = heap
  BY <1>2, <1>4, MildNow DEF r
<1>5. CASE fifo[heap[p].path] # "open" /\ r.out = <<>> /\ r.heap = [heap EXCEPT ![p] = Freed]
  <2>1. \A a \in Addr : r.heap[a] = IF a = p THEN Freed ELSE heap[a]
    BY <1>2, <1>5 DEF Cells
  <2>2. \A a \in Addr : Live(r.heap, a) <=> Live(heap, a) /\ a # p
    BY <2>1 DEF Live
  <2>3. Short(<<>>) /\ Len(<<>>) = 0
    BY ShortCases DEF Short
  <2>4. Mild(r.heap, <<>>, q)
    <3>1. Live(heap, p) /\ \A a \in Addr : Live(heap, a) /\ ~Live(r.heap, a) => a = p
      BY <2>2
    <3>2. \A a \in Addr : Live(r.heap, a) => Live(heap, a) /\ r.heap[a] = heap[a]
      BY <2>1, <2>2
    <3>3. \A k : k \notin 1 .. Len(<<>>)
      BY <2>3
    <3> QED  BY <1>5, <2>3, <3>1, <3>2, <3>3 DEF Mild
  <2> QED  BY <1>2, <1>5, <2>4 DEF r
<1>6. CASE data # NODATA /\ r.heap = heap /\ r.out = Append(<<>>, w)
  <2>0. Len(r.out) = 1 /\ r.out[1] = w
    BY <1>6, ShortCases
  <2>2. \A k \in 1 .. Len(r.out) : k = 1
    BY <2>0
  <2>1. Short(r.out) /\ Len(r.out) = 1 /\ r.out[1] = w
    BY <1>3, <1>6, <2>0, <2>2 DEF Short
  <2>3. Mild(r.heap, r.out, q)
    BY <1>3, <1>6, <2>1, <2>2 DEF Mild
  <2> QED  BY <1>2, <2>3 DEF r
<1> QED  BY <1>2, <1>4, <1>5, <1>6

-----------------------------------------------------------------------------
(* The handlers that neither greet nor refuse a client.                     *)

\* What a broadcast writes is no answer.
Casts == d = NODATA \/ d[1] \in {"BCST", "SHUT"}

\* The server is still running and has been mild, or it has stopped.
Gently(q) ==
  /\ PairInv' /\ Casts' /\ fifo' = fifo /\ Short(out')
  /\ phase' = "running" => req' = req /\ Mild(heap', out', q)

LEMMA StopsGently ==
  ASSUME PairInv, Stops("exited") \/ Stops("undefined"), fifo' = fifo, NEW q
  PROVE  Gently(q)
<1>1. PairInv' /\ phase' # "running"
  BY StopsPair
<1>2. d' = NODATA /\ out' = <<>>
  BY DEF Stops, Idle
<1> QED  BY <1>1, <1>2, ShortNone DEF Gently, Casts

LEMMA LeavesGently ==
  ASSUME PairInv', NEW t, ~t.bad, Sound(t.users, t.heap), NEW q, Mild(t.heap, t.out, q),
         NEW ACTION Goto, Leaves(t, Goto), Goto => Casts' /\ req' = req, fifo' = fifo
  PROVE  Gently(q)
<1>1. heap' = t.heap /\ out' = t.out /\ Goto
  BY NothingCollected DEF Leaves
<1>2. Short(t.out)
  BY DEF Mild
<1> QED  BY <1>1, <1>2 DEF Gently

\* Between requests, and in the loops, no HELO is being served.
LEMMA NoneServed ==
  ASSUME PairInv
  PROVE  /\ pc \notin {"opening", "opened"} => req = <<>>
         /\ pc # "idle" => phase = "running"
         /\ phase # "running" => pc = "idle"
BY DEF PairInv, Inv, TypeOK, Halted

LEMMA IdleGently ==
  ASSUME PairInv, phase = "running", req = <<>>, NEW t, Thinned(t), NEW q, Mild(t.heap, t.out, q),
         Leaves(t, Idle), fifo' = fifo
  PROVE  Gently(q)
<1>1. PairInv'
  BY LeavesThinned
<1>2. Idle => Casts' /\ req' = req
  BY DEF Idle, Casts
<1>3. ~t.bad /\ Sound(t.users, t.heap)
  BY DEF Thinned
<1> QED  BY <1>1, <1>2, <1>3, LeavesGently

\* A step of Server that leaves the table as it was.
LEMMA NowGently ==
  ASSUME PairInv, PairInv', NEW q,
         NEW ACTION Goto, Leaves(Now, Goto), Goto => Casts' /\ req' = req, fifo' = fifo
  PROVE  Gently(q)
<1>1. Now.heap = heap /\ Now.out = <<>> /\ ~Now.bad /\ Sound(Now.users, Now.heap)
  BY NowPair
<1>2. Mild(Now.heap, Now.out, q)
  BY <1>1, MildNow
<1> QED  BY <1>1, <1>2, LeavesGently

LEMMA IgnoredGently ==
  ASSUME PairInv, Ignored, NEW q
  PROVE  Gently(q)
<1>1. phase = "running" /\ req = <<>> /\ Leaves(Now, Idle) /\ fifo' = fifo
  BY NoneServed DEF Ignored, Request
<1>2. Thinned(Now) /\ Now.heap = heap /\ Now.out = <<>>
  BY ThinnedNow, NowPair
<1>3. Mild(Now.heap, Now.out, q)
  BY <1>2, MildNow
<1> QED  BY <1>1, <1>2, <1>3, IdleGently

\* A request with an id is handled for the user who has that id.
LEMMA SenderHasId ==
  ASSUME PairInv, NEW id, NEW ACTION Handler, From(id, Handler)
  PROVE  /\ Handler /\ phase = "running" /\ req = <<>> /\ fifo' = fifo
         /\ user_from_id(Now, id) \in 1 .. Len(users)
         /\ Live(heap, Sender(id)) /\ heap[Sender(id)] \in User /\ heap[Sender(id)].id = id
<1> DEFINE k == user_from_id(Now, id)
<1>1. /\ Handler /\ phase = "running" /\ fifo' = fifo
      /\ k \in 1 .. Len(users) /\ Live(heap, Sender(id)) /\ heap[Sender(id)] \in User
  BY SenderFound
<1>2. req = <<>>
  BY NoneServed DEF From, Request
<1>3. Now.users = users /\ Now.heap = heap /\ users \in Seq(Ptr) /\ Len(users) <= 3
  BY NowOK DEF PairInv
<1>4. k = 0 \/ (k \in 1 .. Len(users) /\ (Live(heap, users[k]) => heap[users[k]].id = id))
  BY <1>3, UserFromId
<1>5. Sender(id) = users[k]
  BY DEF Sender
<1> HIDE DEF k
<1>6. heap[users[k]].id = id
  BY <1>1, <1>4, <1>5
<1> QED  BY <1>1, <1>2, <1>5, <1>6 DEF k

LEMMA ByeeGently ==
  ASSUME OneRegion, TwoPaths, PairInv, NEW id \in Ids, BYEE(id), NEW q
  PROVE  Gently(q)
<1> DEFINE p == Sender(id)
           data == req_server_BYEE(id)
           x == send_to(Now, p, data)
           k == user_from_id(x, id)
           t == Byee(id, p)
<1>1. /\ Leaves(t, Idle) /\ phase = "running" /\ req = <<>> /\ fifo' = fifo
      /\ Live(heap, p) /\ heap[p].id = id
  BY SenderHasId DEF BYEE
<1>2. PairInv'
  BY PairNext DEF Next, Receive
<1>3. /\ ~t.bad /\ Sound(t.users, t.heap)
      /\ \E a : Live(heap, a) /\ t.heap = [heap EXCEPT ![a] = Freed] /\ heap[a].id = id
  <2>1. ByeeServed(id, t)
    BY <1>1 DEF ByeeServed
  <2>2. \A a : Dropped(t, a) \/ Dismissed(t, a) => Live(heap, a) /\ t.heap = [heap EXCEPT ![a] = Freed]
    BY DEF Dropped, Dismissed
  <2> HIDE DEF t
  <2> QED  BY <2>1, <2>2, ByeePair
<1>4. PICK a : Live(heap, a) /\ t.heap = [heap EXCEPT ![a] = Freed] /\ heap[a].id = id
  BY <1>3
<1>5. a = p
  BY <1>1, <1>4 DEF PairInv, Sound, CellsDistinct, Live
<1>6. data = <<"BYEE", id>> /\ data \in Packet /\ data # NODATA
  <2>1. id \in Nat /\ ~(id > MAX_NUM)
    BY ServerAssumption DEF Ids
  <2> QED  BY <2>1, Packets DEF req_server_BYEE, Numbered, NODATA
<1>7. /\ ~x.bad /\ TableTyped(x) /\ Sound(x.users, x.heap)
      /\ x.out = <<>> \/ x.out = Append(<<>>, [to |-> heap[p].path, data |-> data])
      /\ fifo[heap[p].path] = "open" => x.out = Append(<<>>, [to |-> heap[p].path, data |-> data])
  <2>1. /\ TableTyped(Now) /\ ~Now.bad /\ Sound(Now.users, Now.heap) /\ Now.heap = heap /\ Now.out = <<>>
        /\ Thinned(Now)
    BY NowPair, ThinnedNow
  <2>2. Live(Now.heap, p)
    BY <1>1, <2>1
  <2>3. /\ \/ data = NODATA /\ x = Now
           \/ /\ data # NODATA /\ ClosedPipe(Now, p) /\ x = remove_user(Now, p)
              /\ x.out = Now.out /\ x.heap = [Now.heap EXCEPT ![p] = Freed]
           \/ /\ data # NODATA /\ ~ClosedPipe(Now, p)
              /\ x.users = Now.users /\ x.heap = Now.heap
              /\ x.out = Append(Now.out, [to |-> Now.heap[p].path, data |-> data])
    BY <1>6, <2>1, <2>2, SendPair
  <2>4. Thinned(x)
    BY <1>6, <2>1, <2>2, ThinnedSend
  <2>5. ClosedPipe(Now, p) <=> fifo[heap[p].path] # "open"
    BY <2>1 DEF ClosedPipe
  <2> HIDE DEF x, p, data
  <2> QED  BY <1>6, <2>1, <2>3, <2>4, <2>5 DEF Thinned
<1>8. t.out = x.out
  <2>1. t = IF x.bad \/ k = 0 THEN x
            ELSE IF BadRead(x, k) THEN [x EXCEPT !.bad = TRUE]
            ELSE remove_user(x, x.users[k])
    BY DEF Byee
  <2>2. ASSUME k # 0, ~BadRead(x, k) PROVE remove_user(x, x.users[k]).out = x.out
    <3>1. Live(x.heap, x.users[k])
      BY <2>2 DEF BadRead
    <3> QED  BY <1>7, <3>1, RemovePair
  <2>3. BadRead(x, k) => [x EXCEPT !.bad = TRUE].out = x.out
    BY <1>7 DEF TableTyped
  <2> HIDE DEF t, x, k
  <2> QED  BY <2>1, <2>2, <2>3
<1> HIDE DEF t, x, p, data
<1>9. Mild(t.heap, t.out, q)
  <2> DEFINE w == [to |-> heap[p].path, data |-> data]
  <2>1. \A b \in Addr : t.heap[b] = IF b = p THEN Freed ELSE heap[b]
    BY <1>4, <1>5, NowOK DEF PairInv, Cells
  <2>2. \A b \in Addr : Live(t.heap, b) <=> Live(heap, b) /\ b # p
    BY <2>1 DEF Live
  <2>3. /\ \A b \in Addr : Live(t.heap, b) => Live(heap, b) /\ t.heap[b] = heap[b]
        /\ \A b \in Addr : Live(heap, b) /\ ~Live(t.heap, b) => b = p
    BY <2>1, <2>2
  <2>4. CASE t.out = <<>>
    <3>1. fifo[heap[p].path] # "open"
      <4>1. Len(Append(<<>>, w)) = 1 /\ Len(<<>>) = 0
        BY ShortCases
      <4>2. Append(<<>>, w) # <<>>
        BY <4>1
      <4> QED  BY <1>7, <1>8, <2>4, <4>2
    <3>2. Short(t.out) /\ \A j : j \notin 1 .. Len(t.out)
      BY <2>4, ShortCases DEF Short
    <3> QED  BY <2>3, <3>1, <3>2 DEF Mild
  <2>5. CASE t.out = Append(<<>>, w)
    <3>1. Len(t.out) = 1 /\ t.out[1] = w
      BY <2>5, ShortCases
    <3>2. \A j \in 1 .. Len(t.out) : j = 1
      BY <3>1
    <3>3. w.data[1] = "BYEE" /\ w = [to |-> heap[p].path, data |-> <<"BYEE", heap[p].id>>]
      BY <1>1, <1>6
    <3>4. w.data # NODATA
      BY <1>6
    <3>5. 1 \in 1 .. Len(t.out) /\ Short(t.out) /\ t.out[1].data[1] \notin Answer
      BY <3>1, <3>2, <3>3, <3>4 DEF Short, Answer
    <3> HIDE DEF w
    <3> QED  BY <1>1, <2>3, <3>1, <3>2, <3>3, <3>5 DEF Mild
  <2> QED  BY <1>7, <1>8, <2>4, <2>5
<1>10. Idle => Casts' /\ req' = req
  BY <1>1 DEF Idle, Casts
<1> QED  BY <1>1, <1>2, <1>3, <1>9, <1>10, LeavesGently

\* Packets that answer nothing, for BCST, PRVT, SHUT and LIST.
LEMMA NoAnswer ==
  /\ \A nick, fits : LET x == req_server_BCST(nick, fits) IN x = NODATA \/ x[1] = "BCST"
  /\ \A nick, fits : LET x == req_server_PRVT(nick, fits) IN x = NODATA \/ x[1] = "PRVT"
  /\ \A n, nick : req_server_LIST(n, nick)[1] = "LIST"
  /\ \A nick : LET x == req_server_SHUT(nick) IN x = NODATA \/ x[1] = "SHUT"
BY DEF req_server_BCST, req_server_PRVT, req_server_LIST, req_server_SHUT

LEMMA BCSTGently ==
  ASSUME OneRegion, TwoPaths, PairInv, NEW id \in Ids, BCST(id, TRUE), NEW q
  PROVE  Gently(q)
<1> DEFINE packet == req_server_BCST(heap[Sender(id)].nick, TRUE)
           Goto == StartBroadcast("BCST", packet)
<1>1. Leaves(Now, Goto) /\ fifo' = fifo
  <2>1. From(id, Leaves(Now, Goto))
    BY DEF BCST
  <2> HIDE DEF Goto
  <2> QED  BY <2>1, SenderHasId
<1>2. PairInv'
  <2>1. Receive
    BY DEF Receive
  <2> QED  BY <2>1, PairNext DEF Next
<1>3. Goto => Casts' /\ req' = req
  BY NoAnswer DEF StartBroadcast, Casts
<1> HIDE DEF Goto
<1> QED  BY <1>1, <1>2, <1>3, NowGently

LEMMA LISTGently ==
  ASSUME OneRegion, TwoPaths, PairInv, Casts, NEW id \in Ids, LIST(id), NEW q
  PROVE  Gently(q)
<1> DEFINE Goto == pc' = "LIST" /\ i' = 1 /\ u' = Sender(id) /\ UNCHANGED <<req, d, got>>
<1>1. Leaves(Now, Goto) /\ fifo' = fifo
  BY SenderHasId DEF LIST
<1>2. PairInv'
  BY PairNext DEF Next, Receive
<1>3. Goto => Casts' /\ req' = req
  BY DEF Casts
<1> HIDE DEF Goto
<1> QED  BY <1>1, <1>2, <1>3, NowGently

LEMMA SHUTGently ==
  ASSUME OneRegion, TwoPaths, PairInv, NEW id \in Ids, SHUT(id), NEW q
  PROVE  Gently(q)
<1> DEFINE k == user_from_id(Now, id)
           packet == req_server_SHUT(IF k = 0 THEN Null ELSE heap[users[k]].nick)
           Goto == StartBroadcast("SHUT", packet)
<1>1. Stops("undefined") \/ Leaves(Now, Goto)
  BY DEF SHUT
<1>2. PairInv' /\ fifo' = fifo
  <2>1. id \in 0 .. MAX_NUM + 1
    BY ServerAssumption DEF Ids
  <2> QED  BY <2>1, PairNext DEF Next, Receive, SHUT
<1>3. Goto => Casts' /\ req' = req
  BY NoAnswer DEF StartBroadcast, Casts
<1> HIDE DEF Goto
<1> QED  BY <1>1, <1>2, <1>3, NowGently, StopsGently

\* The nick of a PRVT may be any, also none: /r before any message.
LEMMA PRVTGently ==
  ASSUME OneRegion, PairInv, NEW id, NEW nick, PRVT(id, nick, TRUE), NEW q
  PROVE  Gently(q)
<1> DEFINE p == Sender(id)
           k == user_from_nick(Now, nick)
           x == req_server_PRVT(heap[p].nick, TRUE)
           y == req_server_BCST("SERVER", TRUE)
           t == IF k # 0 THEN send_to(Now, users[k], x) ELSE send_to(Now, p, y)
<1>1. /\ IF BadRead(Now, k) THEN Stops("undefined") ELSE Leaves(t, Idle)
      /\ phase = "running" /\ req = <<>> /\ fifo' = fifo /\ Live(heap, p) /\ heap[p] \in User
  <2> DEFINE H == IF BadRead(Now, k) THEN Stops("undefined") ELSE Leaves(t, Idle)
  <2>1. From(id, H)
    BY DEF PRVT
  <2> HIDE DEF H
  <2>2. H /\ phase = "running" /\ req = <<>> /\ fifo' = fifo /\ Live(heap, p) /\ heap[p] \in User
    BY <2>1, SenderHasId
  <2> QED  BY <2>2 DEF H
<1>2. ~BadRead(Now, k) /\ (k # 0 => Live(heap, users[k]))
  BY NickFound
<1>3. x \in Packet /\ y \in Packet
  <2>1. heap[p].nick \in Nick
    BY <1>1 DEF User
  <2> QED  BY <2>1, Packets
<1>4. (x = NODATA \/ x[1] \notin Answer) /\ (y = NODATA \/ y[1] \notin Answer)
  BY NoAnswer DEF Answer
<1> HIDE DEF p, k, x, y
<1>5. Thinned(t) /\ Mild(t.heap, t.out, q)
  <2>1. CASE k # 0
    BY <1>2, <1>3, <1>4, <2>1, MildSend
  <2>2. CASE k = 0
    BY <1>1, <1>3, <1>4, <2>2, MildSend
  <2> QED  BY <2>1, <2>2
<1> HIDE DEF t
<1> QED  BY <1>1, <1>2, <1>5, IdleGently

LEMMA BroadcastGently ==
  ASSUME OneRegion, TwoPaths, PairInv, Casts, Broadcast, NEW q
  PROVE  Gently(q)
<1> DEFINE p == users[i]
           t == send_to(Now, p, d)
           Goto == /\ IF d # NODATA /\ ClosedPipe(Now, p)
                      THEN UNCHANGED <<i, got>>
                      ELSE i' = i + 1 /\ got' = got \cup {p}
                   /\ UNCHANGED <<pc, req, d, u>>
<1>1. /\ IF ~Live(heap, p) THEN Stops("undefined") ELSE Leaves(t, Goto)
      /\ fifo' = fifo
  BY DEF Broadcast
<1>2. PairInv' /\ d \in Packet
  BY PairNext DEF Next, Serve, PairInv, Inv, TypeOK
<1>3. Goto => Casts' /\ req' = req
  BY DEF Casts
<1>4. d = NODATA \/ d[1] \notin Answer
  BY DEF Casts, Answer
<1>5. Live(heap, p) => Thinned(t) /\ Mild(t.heap, t.out, q)
  BY <1>2, <1>4, MildSend
<1> HIDE DEF p, t, Goto
<1>6. Thinned(t) => ~t.bad /\ Sound(t.users, t.heap)
  BY DEF Thinned
<1> QED  BY <1>1, <1>2, <1>3, <1>5, <1>6, StopsGently, LeavesGently

LEMMA BroadcastEndsGently ==
  ASSUME OneRegion, TwoPaths, PairInv, BroadcastEnds, NEW q
  PROVE  Gently(q)
<1>1. /\ server_end \/ Leaves(Now, Idle)
      /\ fifo' = fifo /\ req = <<>>
  BY NoneServed DEF BroadcastEnds, Broadcasting
<1>2. PairInv'
  BY PairNext DEF Next, Serve
<1>3. Idle => Casts' /\ req' = req
  BY <1>1 DEF Idle, Casts
<1>4. CASE server_end
  BY <1>1, <1>4, StopsGently DEF server_end
<1> QED  BY <1>1, <1>2, <1>3, <1>4, NowGently

LEMMA ListOneGently ==
  ASSUME OneRegion, TwoPaths, PairInv, Casts, ListOne, NEW q
  PROVE  Gently(q)
<1> DEFINE p == users[i]
           packet == req_server_LIST(Len(users), heap[p].nick)
           t == send_to(Now, u, packet)
           Goto == i' = i + 1 /\ UNCHANGED <<pc, req, d, u, got>>
<1>1. /\ IF ~Live(heap, p) \/ ~Live(heap, u) THEN Stops("undefined") ELSE Leaves(t, Goto)
      /\ fifo' = fifo
  BY DEF ListOne
<1>2. PairInv'
  BY PairNext DEF Next, Serve
<1>3. Goto => Casts' /\ req' = req
  BY DEF Casts
<1>4. Live(heap, p) => packet \in Packet /\ packet[1] \notin Answer
  <2>1. Live(heap, p) => heap[p].nick \in Nick
    BY NowOK DEF PairInv, User
  <2>2. Len(users) \in Nat
    BY NowOK DEF PairInv
  <2> QED  BY <2>1, <2>2, Packets, NoAnswer DEF Answer
<1> HIDE DEF p, packet, Goto
<1>5. Live(heap, p) /\ Live(heap, u) => ~t.bad /\ Sound(t.users, t.heap) /\ Mild(t.heap, t.out, q)
  BY <1>4, MildSend DEF Thinned
<1> HIDE DEF t
<1> QED  BY <1>1, <1>2, <1>3, <1>5, StopsGently, LeavesGently

LEMMA ListEndsGently ==
  ASSUME OneRegion, TwoPaths, PairInv, ListEnds, NEW q
  PROVE  Gently(q)
<1>1. Leaves(Now, Idle) /\ fifo' = fifo /\ req = <<>>
  BY NoneServed DEF ListEnds
<1>2. PairInv'
  BY PairNext DEF Next, Serve
<1>3. Idle => Casts' /\ req' = req
  BY <1>1 DEF Idle, Casts
<1> QED  BY <1>1, <1>2, <1>3, NowGently

LEMMA OpenReturnsGently ==
  ASSUME OneRegion, TwoPaths, PairInv, Casts, OpenReturns, NEW q
  PROVE  Gently(q)
<1>1. PairInv'
  BY PairNext DEF Next, Serve
<1>2. heap' = heap /\ out' = <<>> /\ fifo' = fifo /\ req' = req /\ d' = d
  BY DEF OpenReturns
<1> QED  BY <1>1, <1>2, MildNow, ShortNone DEF Gently, Casts

\* A second write by the same handler, the only one that answers.
LEMMA MildAgain ==
  ASSUME OneRegion, PairInv, NEW t, Thinned(t), NEW q, Mild(t.heap, t.out, q), Live(t.heap, q),
         heap[q].id \in Ids, NEW data \in Packet,
         NEW w, t.out = <<>> \/ (t.out = Append(<<>>, w) /\ w.data[1] \notin Answer)
  PROVE  LET r == send_to(t, q, data)
         IN  Thinned(r) /\ Mild(r.heap, r.out, q)
<1> DEFINE r == send_to(t, q, data)
           v == [to |-> heap[q].path, data |-> data]
<1>1. /\ Thinned(r) /\ t.heap[q] = heap[q] /\ q \in Addr /\ t.heap \in Cells
      /\ \/ r.out = t.out /\ r.heap = t.heap
         \/ /\ fifo[heap[q].path] # "open"
            /\ r.out = t.out /\ r.heap = [t.heap EXCEPT ![q] = Freed]
         \/ /\ data # NODATA /\ r.heap = t.heap
            /\ r.out = Append(t.out, v)
  <2> HIDE DEF v
  <2> HIDE DEF r
  <2>1. \A s, y : Thinned(s) /\ Live(s.heap, y) =>
          LET x == send_to(s, y, data)
          IN  /\ Thinned(x) /\ s.heap[y] = heap[y] /\ y \in Addr /\ s.heap \in Cells
              /\ \/ x.out = s.out /\ x.heap = s.heap
                 \/ /\ fifo[heap[y].path] # "open"
                    /\ x.out = s.out /\ x.heap = [s.heap EXCEPT ![y] = Freed]
                 \/ /\ data # NODATA /\ x.heap = s.heap
                    /\ x.out = Append(s.out, [to |-> heap[y].path, data |-> data])
    BY SendOutcome
  <2> QED  BY <2>1, Zenon DEF v, r
<1>2. Live(heap, q)
  BY DEF Mild, Live
<1>3. v.to = heap[q].path /\ v.data = data
  OBVIOUS
<1> HIDE DEF r, v
<1>4. CASE r.out = t.out /\ r.heap = t.heap
  BY <1>1, <1>4 DEF r
<1>5. CASE fifo[heap[q].path] # "open" /\ r.out = t.out /\ r.heap = [t.heap EXCEPT ![q] = Freed]
  <2>1. \A a \in Addr : r.heap[a] = IF a = q THEN Freed ELSE t.heap[a]
    BY <1>1, <1>5 DEF Cells
  <2>2. \A a \in Addr : Live(r.heap, a) <=> Live(t.heap, a) /\ a # q
    BY <2>1 DEF Live
  <2>3. /\ \A a \in Addr : Live(r.heap, a) => Live(heap, a) /\ r.heap[a] = heap[a]
        /\ \A a \in Addr : Live(heap, a) /\ ~Live(r.heap, a) =>
             \/ fifo[heap[a].path] # "open"
             \/ /\ heap[a].id \in Ids
                /\ \E k \in 1 .. Len(t.out) :
                     t.out[k] = [to |-> heap[a].path, data |-> <<"BYEE", heap[a].id>>]
    BY <1>5, <2>1, <2>2 DEF Mild
  <2>4. Mild(r.heap, t.out, q)
    BY <2>3 DEF Mild
  <2> QED  BY <1>1, <1>5, <2>4 DEF r
<1>6. CASE data # NODATA /\ r.heap = t.heap /\ r.out = Append(t.out, v)
  <2>1. /\ \A a \in Addr : Live(r.heap, a) => Live(heap, a) /\ r.heap[a] = heap[a]
        /\ \A a \in Addr : Live(heap, a) /\ ~Live(r.heap, a) =>
             \/ fifo[heap[a].path] # "open"
             \/ /\ heap[a].id \in Ids
                /\ \E k \in 1 .. Len(t.out) :
                     t.out[k] = [to |-> heap[a].path, data |-> <<"BYEE", heap[a].id>>]
    BY <1>6 DEF Mild
  <2>2. /\ Len(r.out) = 1 \/ Len(r.out) = 2
        /\ r.out[Len(r.out)] = v
        /\ \A k \in 1 .. Len(t.out) : k \in 1 .. Len(r.out) /\ r.out[k] = t.out[k]
        /\ \A k \in 1 .. Len(r.out) : r.out[k].data[1] \in Answer => k = Len(r.out)
        /\ \A k \in 1 .. Len(r.out) : k = Len(r.out) \/ k \in 1 .. Len(t.out)
    <3>1. CASE t.out = <<>>
      <4>1. Len(r.out) = 1 /\ r.out[1] = v /\ Len(t.out) = 0
        BY <1>6, <3>1, ShortCases
      <4>2. \A k \in 1 .. Len(r.out) : k = 1
        BY <4>1
      <4>3. \A k : k \notin 1 .. Len(t.out)
        BY <4>1
      <4> QED  BY <4>1, <4>2, <4>3
    <3>2. CASE t.out = Append(<<>>, w) /\ w.data[1] \notin Answer
      <4>1. /\ Len(r.out) = 2 /\ r.out[1] = w /\ r.out[2] = v
            /\ Len(t.out) = 1 /\ t.out[1] = w
        BY <1>6, <3>2, ShortCases
      <4>2. \A k \in 1 .. Len(r.out) : k = 1 \/ k = 2
        BY <4>1
      <4>3. \A k \in 1 .. Len(t.out) : k = 1
        BY <4>1
      <4>4. 1 \in 1 .. Len(r.out)
        BY <4>1
      <4>5. \A k \in 1 .. Len(r.out) : r.out[k].data[1] \in Answer => k = 2
        BY <3>2, <4>1, <4>2
      <4> QED  BY <4>1, <4>3, <4>4, <4>5
    <3> QED  BY <3>1, <3>2
  <2>3. Short(r.out)
    BY <1>3, <1>6, <2>2 DEF Mild, Short
  <2>4. \A k \in 1 .. Len(r.out) : r.out[k].data[1] \in Answer =>
          Live(heap, q) /\ heap[q].id \in Ids /\ r.out[k].to = heap[q].path
    BY <1>2, <1>3, <2>2
  <2>5. \A j, k \in 1 .. Len(r.out) :
          r.out[j].data[1] \in Answer /\ r.out[k].data[1] \in Answer => j = k
    BY <2>2
  <2>6. \A a \in Addr : Live(heap, a) /\ ~Live(r.heap, a) =>
          \/ fifo[heap[a].path] # "open"
          \/ /\ heap[a].id \in Ids
             /\ \E k \in 1 .. Len(r.out) :
                  r.out[k] = [to |-> heap[a].path, data |-> <<"BYEE", heap[a].id>>]
    BY <2>1, <2>2
  <2>7. Mild(r.heap, r.out, q)
    BY <2>1, <2>3, <2>4, <2>5, <2>6 DEF Mild
  <2> QED  BY <1>1, <2>7 DEF r
<1> QED  BY <1>1, <1>4, <1>5, <1>6

LEMMA AnnouncedMild ==
  ASSUME OneRegion, PairInv, NEW id \in Ids, NEW k \in 1 .. Len(users), Live(heap, users[k]),
         Live(heap, Sender(id)), heap[Sender(id)].id = id, users[k] # Sender(id),
         NEW n \in Nat, NEW parts \in Parts
  PROVE  LET t == Announced(id, k, n, parts)
         IN  Thinned(t) /\ Mild(t.heap, t.out, Sender(id))
<1> DEFINE p == Sender(id)
           q == users[k]
           packet == req_server_FILE_announce(n, parts, heap[p].nick)
           w == [to |-> heap[q].path, data |-> packet]
           t == send_to(Now, q, packet)
<1>1. /\ packet \in Packet /\ req_server_OKOK(n) \in Packet
      /\ packet = NODATA \/ packet[1] \notin Answer
  <2>1. heap[p].nick \in Nick /\ parts \in Nat
    BY RelayAssumption, NowOK DEF User, PairInv
  <2>2. packet = NODATA \/ packet[1] = "FILE"
    BY DEF req_server_FILE_announce
  <2> QED  BY <2>1, <2>2, RelayPackets, Packets DEF Answer
<1>2. Now.heap = heap /\ Now.out = <<>> /\ Thinned(Now) /\ Live(Now.heap, q)
  BY NowPair, ThinnedNow
<1>3. Announced(id, k, n, parts) = send_to(t, p, req_server_OKOK(n))
  BY DEF Announced
<1>4. p # q /\ Live(heap, q) /\ Live(heap, p) /\ heap[p].id = id
  OBVIOUS
<1> HIDE DEF p, q, packet
<1>5. Thinned(t) /\ Mild(t.heap, t.out, p)
  BY <1>1, <1>4, MildSend
<1>6. /\ \A a \in Addr : a # q => t.heap[a] = Now.heap[a]
  BY <1>1, <1>2, ThinnedSend
<1>7. /\ \/ t.out = Now.out /\ t.heap = Now.heap
         \/ /\ fifo[heap[q].path] # "open"
            /\ t.out = Now.out /\ t.heap = [Now.heap EXCEPT ![q] = Freed]
         \/ /\ packet # NODATA /\ t.heap = Now.heap
            /\ t.out = Append(Now.out, [to |-> heap[q].path, data |-> packet])
  BY <1>1, <1>2, SendOutcome
<1> HIDE DEF t
<1>8. Live(t.heap, p)
  BY <1>2, <1>4, <1>6 DEF Live
<1>9. t.out = <<>> \/ (t.out = Append(<<>>, w) /\ w.data[1] \notin Answer)
  BY <1>1, <1>2, <1>7
<1> HIDE DEF w
<1>10. LET r == send_to(t, p, req_server_OKOK(n)) IN Thinned(r) /\ Mild(r.heap, r.out, p)
  BY <1>1, <1>4, <1>5, <1>8, <1>9, MildAgain
<1> QED  BY <1>3, <1>10 DEF p

LEMMA AcceptFileGently ==
  ASSUME OneRegion, PairInv, NEW id \in Ids, NEW nick \in Nick, NEW parts \in Parts, NEW x,
         get_available_transfer_id \in Nat, AcceptFile(id, nick, parts, x)
  PROVE  Gently(Sender(id))
<1> DEFINE k == user_from_nick(Now, nick)
           n == get_available_transfer_id
           t == Announced(id, k, n, parts)
           H == /\ ~Refusal(id, nick, TRUE)
                /\ IF Unreadable(nick) THEN Stops("undefined") ELSE Leaves(t, Idle)
<1>1. From(id, H)
  BY DEF AcceptFile
<1> HIDE DEF H
<1>2. /\ H /\ phase = "running" /\ req = <<>> /\ fifo' = fifo
      /\ user_from_id(Now, id) \in 1 .. Len(users)
      /\ Live(heap, Sender(id)) /\ heap[Sender(id)].id = id
  BY <1>1, SenderHasId
<1>3. ~Refusal(id, nick, TRUE) /\ IF Unreadable(nick) THEN Stops("undefined") ELSE Leaves(t, Idle)
  BY <1>2 DEF H
<1>4. /\ k = 0 \/ k \in 1 .. Len(users)
      /\ k # 0 => Live(heap, users[k])
      /\ ~BadRead(Now, k)
  BY NickFound
<1>5. ~Unreadable(nick)
  BY <1>4 DEF Unreadable
<1>6. k # 0 /\ k # user_from_id(Now, id)
  BY <1>3 DEF Refusal
<1>7. users[k] # Sender(id)
  BY <1>2, <1>4, <1>6 DEF Sender, PairInv, Sound
<1> HIDE DEF k, n
<1>8. Thinned(t) /\ Mild(t.heap, t.out, Sender(id))
  BY <1>2, <1>4, <1>6, <1>7, AnnouncedMild DEF n
<1> HIDE DEF t
<1> QED  BY <1>2, <1>3, <1>5, <1>8, IdleGently

LEMMA RefuseFileGently ==
  ASSUME OneRegion, PairInv, NEW id \in Ids, NEW nick \in Nick, RefuseFile(id, nick, TRUE)
  PROVE  Gently(Sender(id))
<1> DEFINE k == user_from_nick(Now, nick)
           t == send_to(Now, Sender(id), req_server_BADD)
           H == /\ Refusal(id, nick, TRUE)
                /\ IF Unreadable(nick) THEN Stops("undefined") ELSE Leaves(t, Idle)
<1>1. From(id, H)
  BY DEF RefuseFile
<1> HIDE DEF H
<1>2. /\ H /\ phase = "running" /\ req = <<>> /\ fifo' = fifo
      /\ Live(heap, Sender(id)) /\ heap[Sender(id)].id = id
  BY <1>1, SenderHasId
<1>3. IF Unreadable(nick) THEN Stops("undefined") ELSE Leaves(t, Idle)
  BY <1>2 DEF H
<1>4. ~Unreadable(nick)
  BY NickFound DEF Unreadable
<1>5. Thinned(t) /\ Mild(t.heap, t.out, Sender(id))
  BY <1>2, Packets, MildSend
<1> HIDE DEF t
<1> QED  BY <1>2, <1>3, <1>4, <1>5, IdleGently

LEMMA TransferGently ==
  ASSUME OneRegion, PairInv, NEW serie \in Nat, NEW n \in Nat, FILE_transfer(serie, n), NEW q
  PROVE  Gently(q)
<1> DEFINE k == transfer_from_id(n)
           p == theap[transfers[k]].receiver
           data == req_server_FILE_transfer(serie, n)
           t == send_to(Now, p, data)
<1>1. /\ \/ Stops("undefined")
         \/ Live(heap, p) /\ Leaves(t, Idle)
      /\ phase = "running" /\ req = <<>> /\ fifo' = fifo
  BY NoneServed DEF FILE_transfer, Request
<1>2. data \in Packet /\ data[1] \notin Answer
  <2>1. data[1] = "FILE"
    BY DEF req_server_FILE_transfer
  <2> QED  BY <2>1, RelayPackets DEF Answer
<1> HIDE DEF p, data
<1>3. Live(heap, p) => Thinned(t) /\ Mild(t.heap, t.out, q)
  BY <1>2, MildSend
<1> HIDE DEF t
<1> QED  BY <1>1, <1>3, IdleGently, StopsGently

-----------------------------------------------------------------------------
(* A HELO, from the server's FIFO to its answer.                            *)

LEMMA HELOServed ==
  ASSUME OneRegion, TwoPaths, PairInv, Casts, NEW n \in Nick \cup BadNick, NEW c \in Path, HELO(n, c)
  PROVE  /\ PairInv' /\ Casts' /\ fifo' = fifo /\ Short(out')
         /\ phase' = "running" /\ heap' = heap /\ req' = <<n, c>> /\ out' = <<>>
<1>1. PairInv'
  BY PairNext DEF Next, Receive
<1>2. /\ phase' = "running" /\ heap' = heap /\ req' = <<n, c>> /\ out' = <<>> /\ fifo' = fifo
      /\ d' = d
  BY DEF HELO, Request
<1> QED  BY <1>1, <1>2, ShortNone DEF Casts

\* Whoever is refused reads BADD first and the reason after it.
LEMMA RefuseServed ==
  ASSUME OneRegion, TwoPaths, PairInv, Refuse
  PROVE  /\ PairInv' /\ Casts' /\ fifo' = fifo /\ Short(out')
         /\ phase' = "running" =>
              /\ heap' = heap /\ req' = <<>>
              /\ fifo[req[2]] # "open" => out' = <<>>
              /\ fifo[req[2]] = "open" =>
                   /\ Len(out') = 2
                   /\ out'[1] = [to |-> req[2], data |-> <<"BADD">>]
                   /\ out'[2] = [to |-> req[2], data |-> <<"BCST", "SERVER">>]
<1>1. PairInv'
  BY PairNext DEF Next, Serve
<1>2. CASE Stops("undefined")
  <2>1. d' = NODATA /\ out' = <<>> /\ phase' # "running" /\ fifo' = fifo
    BY <1>2 DEF Stops, Idle, Refuse
  <2> QED  BY <1>1, <2>1, ShortNone DEF Casts
<1>3. CASE Leaves(Refused, Idle)
  <2> DEFINE b == [to |-> req[2], data |-> <<"BADD">>]
             r == [to |-> req[2], data |-> <<"BCST", "SERVER">>]
  <2>1. Refused.users = users /\ Refused.heap = heap /\ ~Refused.bad
        /\ Refused.out = IF fifo[req[2]] = "open" THEN <<b, r>> ELSE <<>>
    BY DEF Refused, Now, req_server_BADD, req_server_BCST
  <2>2. Sound(Refused.users, Refused.heap)
    BY <2>1 DEF PairInv
  <2> HIDE DEF b, r
  <2>3. heap' = heap /\ req' = <<>> /\ d' = NODATA /\ fifo' = fifo
        /\ out' = IF fifo[req[2]] = "open" THEN <<b, r>> ELSE <<>>
    <3>1. Collected(Refused) = Refused.heap
      BY <2>2, NothingCollected
    <3> QED  BY <1>3, <2>1, <3>1 DEF Leaves, Idle, Refuse
  <2>4. Len(<<b, r>>) = 2 /\ <<b, r>>[1] = b /\ <<b, r>>[2] = r
    OBVIOUS
  <2>5. Short(<<b, r>>)
    <3>1. \A k \in 1 .. Len(<<b, r>>) : k = 1 \/ k = 2
      BY <2>4
    <3>2. b.data # NODATA /\ r.data # NODATA
      BY DEF b, r, NODATA
    <3> QED  BY <2>4, <3>1, <3>2 DEF Short
  <2> QED  BY <1>1, <2>3, <2>4, <2>5, ShortNone DEF Casts, b, r
<1> QED  BY <1>2, <1>3 DEF Refuse

\* Who joins is told the number it has, if a packet can carry it.
LEMMA RegisterServed ==
  ASSUME OneRegion, TwoPaths, PairInv, NEW a \in Addr, Register(a)
  PROVE  /\ PairInv' /\ Casts' /\ fifo' = fifo /\ Short(out')
         /\ phase' = "running" /\ req' = <<>>
         /\ \/ heap' = heap /\ out' = <<>> /\ fifo[req[2]] # "open"
            \/ \E n \in Nat :
                 LET new == [id |-> n, nick |-> req[1], path |-> req[2]]
                 IN  /\ heap[a] = Freed /\ new \in User /\ heap' = [heap EXCEPT ![a] = new]
                     /\ n > MAX_NUM => out' = <<>>
                     /\ ~(n > MAX_NUM) =>
                          Len(out') = 1 /\ out'[1] = [to |-> req[2], data |-> <<"OKOK", n>>]
<1> DEFINE n == get_available_id(Now)
           t == Added(a, n)
           new == NewUser(n)
           w == [to |-> new.path, data |-> <<"OKOK", new.id>>]
<1>1. PairInv'
  BY PairNext DEF Next, Serve
<1>2. /\ ~t.bad /\ Sound(t.users, t.heap)
      /\ (Kept(t) /\ t.out = <<>> /\ fifo[req[2]] # "open") \/ Joined(t, a)
  <2>1. Registering(a)
    BY DEF Register, Registering
  <2> QED  BY <2>1, AddedPair
<1>3. Leaves(t, Idle) /\ fifo' = fifo /\ phase = "running"
  BY NoneServed DEF Register
<1>4. new = [id |-> n, nick |-> req[1], path |-> req[2]]
  BY DEF NewUser
<1>5. new.id = n /\ new.path = req[2]
  BY <1>4
<1>6. w = [to |-> req[2], data |-> <<"OKOK", n>>]
  BY <1>5
<1>7. w.data # NODATA
  BY DEF NODATA
<1>8. Joined(t, a) =>
        /\ heap[a] = Freed /\ new \in User
        /\ t.heap = [heap EXCEPT ![a] = new]
        /\ t.out = IF new.id > MAX_NUM THEN <<>> ELSE Append(<<>>, w)
  BY DEF Joined
<1> HIDE DEF t, n, new, w
<1>9. heap' = t.heap /\ out' = t.out /\ req' = <<>> /\ d' = NODATA /\ phase' = "running"
  BY <1>2, <1>3, NothingCollected DEF Leaves, Idle
<1>10. CASE Kept(t) /\ t.out = <<>> /\ fifo[req[2]] # "open"
  BY <1>1, <1>3, <1>9, <1>10, ShortNone DEF Kept, Casts
<1>11. CASE Joined(t, a)
  <2>1. n \in Nat
    BY <1>5, <1>8, <1>11, ServerAssumption DEF User
  <2>2. CASE n > MAX_NUM
    BY <1>1, <1>3, <1>4, <1>5, <1>8, <1>9, <1>11, <2>1, <2>2, ShortNone DEF Casts
  <2>3. CASE ~(n > MAX_NUM)
    <3>0. out' = Append(<<>>, w)
      BY <1>5, <1>8, <1>9, <1>11, <2>3
    <3>1. Len(out') = 1 /\ out'[1] = w
      BY <3>0, ShortCases
    <3>2. Short(out')
      <4>1. \A k \in 1 .. Len(out') : k = 1
        BY <3>1
      <4> QED  BY <1>7, <3>1, <4>1 DEF Short
    <3> QED  BY <1>1, <1>3, <1>4, <1>6, <1>8, <1>9, <1>11, <2>1, <2>3, <3>1, <3>2 DEF Casts
  <2> QED  BY <2>2, <2>3
<1> QED  BY <1>2, <1>10, <1>11

-----------------------------------------------------------------------------
(* The table of transfers.                                                  *)

\* It can be numbered, and no slot points to freed memory.
Filed(ts, h) == Rows(ts, h) /\ h \in TCells

\* A transfer with the number on offer is put in the table, or refused and lost.
LEMMA AddFile ==
  ASSUME NEW t, NEW ts, NEW h, t.users = ts, t.heap = h, Filed(ts, h),
         NEW x \in Addr, h[x] = Freed, NEW new \in Transfer, new.id = get_available_id(t),
         NEW cells, cells = [h EXCEPT ![x] = new]
  PROVE  LET r == arlist_add(ts, TransferIds(cells), x)
         IN  Filed(r, HeldBy(r, cells))
<1> DEFINE key == TransferIds(cells)
           r == arlist_add(ts, key, x)
           g == HeldBy(r, cells)
           n == new.id
<1>1. /\ Rows(ts, h) /\ ts \in Seq(Ptr) /\ Len(ts) \in Nat /\ Len(ts) <= 3 /\ h \in TCells
      /\ \A k \in 1 .. Len(ts) : Live(h, ts[k]) /\ h[ts[k]].id \in Nat
  BY DEF Filed, Rows
<1>2. new # Freed /\ new.id \in Nat
  BY RelayAssumption DEF Transfer
<1>3. cells \in TCells /\ cells[x] = new /\ \A a \in Addr : a # x => cells[a] = h[a]
  BY <1>1 DEF TCells
<1>4. \A k \in 1 .. Len(ts) : ts[k] \in Addr /\ ts[k] # x /\ cells[ts[k]] = h[ts[k]] /\ cells[ts[k]] # Freed
  BY <1>1, <1>3 DEF Live
<1>5. \A p \in Addr : cells[p] # Freed => key[p] = cells[p].id
  BY DEF TransferIds
<1> HIDE DEF key
<1>6. Slotted(r, ts, h, key, x, n)
  <2>1. key[x] = get_available_id(t)
    BY <1>2, <1>3, <1>5
  <2>2. \A k \in 1 .. Len(ts) : key[ts[k]] = h[ts[k]].id
    BY <1>4, <1>5
  <2> QED  BY <1>1, <2>1, <2>2, AddSlots
<1> HIDE DEF r, n
<1>7. /\ r \in Seq(Ptr) /\ Len(r) \in Nat /\ Len(r) <= 3
      /\ \A k \in 1 .. Len(r) : r[k] = x \/ r[k] \in Range(ts)
  <2>1. \A k \in 1 .. Len(ts) : ts[k] \in Range(ts)
    <3>1. DOMAIN ts = 1 .. Len(ts)
      BY <1>1
    <3> QED  BY <3>1 DEF Range
  <2> QED  BY <1>1, <1>6, <2>1 DEF Slotted
<1>8. ASSUME NEW k \in 1 .. Len(r)
      PROVE  r[k] \in Addr /\ cells[r[k]] # Freed /\ cells[r[k]].id \in Nat
  <2>1. CASE r[k] = x
    BY <1>2, <1>3, <2>1
  <2>2. CASE r[k] \in Range(ts)
    <3>1. PICK l \in DOMAIN ts : r[k] = ts[l]
      BY <2>2 DEF Range
    <3>2. l \in 1 .. Len(ts)
      BY <1>1, <3>1
    <3> QED  BY <1>1, <1>4, <3>1, <3>2
  <2> QED  BY <1>7, <2>1, <2>2
<1>9. \A k \in 1 .. Len(r) : r[k] \in Range(r)
  <2>1. DOMAIN r = 1 .. Len(r)
    BY <1>7
  <2> QED  BY <2>1 DEF Range
<1>10. g \in TCells /\ \A a \in Addr : a \in Range(r) => g[a] = cells[a]
  BY <1>3 DEF HeldBy, TCells
<1> HIDE DEF g
<1>11. \A k \in 1 .. Len(r) : g[r[k]] = cells[r[k]] /\ Live(g, r[k]) /\ g[r[k]].id \in Nat
  BY <1>8, <1>9, <1>10 DEF Live
<1>12. Full(r, g)
  <2>1. ASSUME Len(r) = 3
        PROVE  \/ g[r[2]].id = g[r[1]].id + 1 /\ g[r[3]].id > g[r[2]].id
               \/ g[r[2]].id <= g[r[1]].id /\ g[r[3]].id = g[r[1]].id + 1
    <3>1. 1 \in 1 .. Len(r) /\ 2 \in 1 .. Len(r) /\ 3 \in 1 .. Len(r)
      BY <2>1
    <3>2. CASE Len(ts) = 3 /\ r = ts
      <4>1. /\ g[r[1]].id = h[ts[1]].id /\ g[r[2]].id = h[ts[2]].id /\ g[r[3]].id = h[ts[3]].id
        BY <1>4, <1>11, <3>1, <3>2
      <4> QED  BY <1>1, <3>2, <4>1 DEF Rows, Full
    <3>3. CASE ~(Len(ts) = 3 /\ r = ts)
      <4>1. key[r[1]] = g[r[1]].id /\ key[r[2]] = g[r[2]].id /\ key[r[3]] = g[r[3]].id
        BY <1>5, <1>8, <1>11, <3>1
      <4> QED  BY <1>6, <2>1, <3>3, <4>1 DEF Slotted
    <3> QED  BY <3>2, <3>3
  <2>2. Len(r) = 3 => \A k \in 1 .. 3 : Live(g, r[k])
    BY <1>11
  <2> QED  BY <2>1, <2>2 DEF Full
<1>13. Filed(r, g)
  BY <1>7, <1>10, <1>11, <1>12 DEF Filed, Rows
<1> QED  BY <1>13 DEF r, key, g

\* Whatever is moved over a pointer has all that differs in two bytes.
LEMMA MixWide ==
  ASSUME OneRegion, NEW p \in Addr, NEW q \in Addr, NEW b \in Nat, b >= 2
  PROVE  Mix(p, q, b) = q
<1>1. p \in Ptr /\ q \in Ptr
  BY ServerAssumption
<1>2. \A j \in 0 .. PtrSize - 1 : (IF j < b THEN q[j] ELSE p[j]) = q[j]
  BY PtrSizeAssumption DEF OneRegion
<1> QED  BY <1>1, <1>2 DEF Mix, Ptr

\* A transfer that ends leaves the others.
LEMMA DropFile ==
  ASSUME OneRegion, NEW ts, NEW h, Filed(ts, h), NEW n \in 1 .. Len(ts)
  PROVE  LET r == arlist_remove(ts, n)
         IN  Filed(r, HeldBy(r, h))
<1> DEFINE r == arlist_remove(ts, n)
           g == HeldBy(r, h)
<1>1. /\ ts \in Seq(Ptr) /\ Len(ts) \in Nat /\ Len(ts) <= 3 /\ h \in TCells
      /\ \A k \in 1 .. Len(ts) : Live(h, ts[k]) /\ h[ts[k]].id \in Nat
  BY DEF Filed, Rows
<1>2. /\ r \in Seq(Ptr) /\ Len(r) = Len(ts) - 1
      /\ \A j \in 1 .. Len(ts) - 1 :
           r[j] = IF j = n THEN Mix(ts[n], ts[n + 1], Len(ts) - n + 1) ELSE ts[j]
  BY <1>1, RemoveSlots
<1> HIDE DEF r
<1>3. ASSUME NEW j \in 1 .. Len(r)
      PROVE  \E k \in 1 .. Len(ts) : r[j] = ts[k]
  <2>1. j \in 1 .. Len(ts) - 1 /\ j \in 1 .. Len(ts)
    BY <1>1, <1>2
  <2>2. CASE j # n
    BY <1>2, <2>1, <2>2
  <2>3. CASE j = n
    <3>1. n + 1 \in 1 .. Len(ts) /\ n \in 1 .. Len(ts)
      BY <1>1, <2>1, <2>3
    <3>2. \A l \in Nat : l = (Len(ts) - n) + 1 => l >= 2
      BY <1>1, <2>1, <2>3
    <3>3. (Len(ts) - n) + 1 \in Nat
      BY <1>1, <3>1
    <3>4. ts[n] \in Addr /\ ts[n + 1] \in Addr
      BY <1>1, <3>1 DEF Live
    <3>5. Mix(ts[n], ts[n + 1], (Len(ts) - n) + 1) = ts[n + 1]
      BY <3>2, <3>3, <3>4, MixWide
    <3>6. r[j] = ts[n + 1]
      BY <1>1, <1>2, <2>1, <2>3, <3>5
    <3> QED  BY <3>1, <3>6
  <2> QED  BY <2>2, <2>3
<1>4. \A j \in 1 .. Len(r) : r[j] \in Range(r)
  <2>1. DOMAIN r = 1 .. Len(r)
    BY <1>2
  <2> QED  BY <2>1 DEF Range
<1>5. g \in TCells /\ \A a \in Addr : a \in Range(r) => g[a] = h[a]
  BY <1>1 DEF HeldBy, TCells
<1> HIDE DEF g
<1>6. \A j \in 1 .. Len(r) : Live(g, r[j]) /\ g[r[j]].id \in Nat
  BY <1>1, <1>3, <1>4, <1>5 DEF Live
<1>7. Len(r) <= 3 /\ Len(r) # 3
  BY <1>1, <1>2
<1> QED  BY <1>2, <1>5, <1>6, <1>7 DEF Filed, Rows, Full, g, r

LEMMA FilesFound ==
  ASSUME Filed(transfers, theap)
  PROVE  /\ get_available_transfer_id \in Nat
         /\ get_available_transfer_id = get_available_id(Transfers)
         /\ Transfers.users = transfers /\ Transfers.heap = theap
         /\ \A n : transfer_from_id(n) = 0 \/ transfer_from_id(n) \in 1 .. Len(transfers)
<1>1. Transfers.users = transfers /\ Transfers.heap = theap
  BY DEF Transfers, Now
<1>2. Rows(transfers, theap) /\ transfers \in Seq(Ptr) /\ Len(transfers) <= 3
  BY DEF Filed, Rows
<1>3. \A n : transfer_from_id(n) = 0 \/ transfer_from_id(n) \in 1 .. Len(transfers)
  <2> TAKE n
  <2>1. Transfers.users \in Seq(Ptr) /\ Len(Transfers.users) <= 3
    BY <1>1, <1>2
  <2>2. \/ user_from_id(Transfers, n) = 0
        \/ user_from_id(Transfers, n) \in 1 .. Len(Transfers.users)
    BY <2>1, UserFromId
  <2> QED  BY <1>1, <2>2 DEF transfer_from_id
<1>4. get_available_id(Transfers) \in Nat
  BY <1>1, <1>2, AvailableId
<1> QED  BY <1>1, <1>3, <1>4 DEF get_available_transfer_id

LEMMA FiledNone == ASSUME NEW h \in TCells PROVE Filed(<<>>, HeldBy(<<>>, h))
<1>1. <<>> \in Seq(Ptr) /\ Len(<<>>) = 0
  OBVIOUS
<1>2. HeldBy(<<>>, h) \in TCells
  BY DEF HeldBy, TCells
<1> QED  BY <1>1, <1>2 DEF Filed, Rows, Full

LEMMA FiledKept ==
  ASSUME Filed(transfers, theap), KeepsTransfers
  PROVE  Filed(transfers', theap')
<1>1. CASE phase' = "running"
  BY <1>1 DEF KeepsTransfers
<1>2. CASE phase' # "running"
  <2>1. transfers' = <<>> /\ theap' = HeldBy(<<>>, theap)
    BY <1>2 DEF KeepsTransfers, Holds, HeldBy
  <2>2. theap \in TCells
    BY DEF Filed
  <2> QED  BY <2>1, <2>2, FiledNone
<1> QED  BY <1>1, <1>2

LEMMA AcceptFileFiled ==
  ASSUME OneRegion, PairInv, Filed(transfers, theap), NEW id \in Ids, NEW nick \in Nick,
         NEW parts \in Parts, NEW x \in Addr, AcceptFile(id, nick, parts, x)
  PROVE  Filed(transfers', theap')
<1> DEFINE p == Sender(id)
           k == user_from_nick(Now, nick)
           n == get_available_transfer_id
           new == [id |-> n, sender |-> p, receiver |-> users[k], parts |-> parts]
           cells == [theap EXCEPT ![x] = new]
           key == [y \in {z \in Addr : cells[z] # Freed} |-> cells[y].id]
           t == Announced(id, k, n, parts)
           Handler == /\ ~Refusal(id, nick, TRUE)
                      /\ IF Unreadable(nick) THEN Stops("undefined") ELSE Leaves(t, Idle)
           r == arlist_add(transfers, key, x)
<1>1. CASE phase' # "running"
  <2>1. KeepsTransfers
    BY <1>1 DEF AcceptFile
  <2> QED  BY <2>1, FiledKept
<1>2. CASE phase' = "running"
  <2>1. theap[x] = Freed /\ From(id, Handler) /\ Holds(r, cells)
    BY <1>2 DEF AcceptFile
  <2>2. /\ Handler /\ user_from_id(Now, id) \in 1 .. Len(users) /\ Live(heap, p)
    <3> HIDE DEF Handler
    <3> QED  BY <2>1, SenderHasId
  <2>3. /\ k = 0 \/ k \in 1 .. Len(users)
        /\ k # 0 => Live(heap, users[k])
    BY NickFound
  <2>4. k # 0
    BY <2>2 DEF Refusal
  <2>5. n \in Nat /\ n = get_available_id(Transfers) /\ Transfers.users = transfers /\ Transfers.heap = theap
    BY FilesFound
  <2>6. new \in Transfer /\ new.id = n
    BY <2>2, <2>3, <2>4, <2>5 DEF Transfer, Live
  <2>7. transfers' = r /\ theap' = HeldBy(r, cells)
    BY <2>1 DEF Holds, HeldBy
  <2>8. key = TransferIds(cells)
    BY DEF TransferIds
  <2> HIDE DEF new, n, k, p, key
  <2>9. cells = [theap EXCEPT ![x] = new] /\ new.id = get_available_id(Transfers)
    BY <2>5, <2>6
  <2> HIDE DEF cells
  <2>10. Filed(arlist_add(transfers, TransferIds(cells), x), HeldBy(arlist_add(transfers, TransferIds(cells), x), cells))
    BY <2>1, <2>5, <2>6, <2>9, AddFile
  <2> QED  BY <2>7, <2>8, <2>10
<1> QED  BY <1>1, <1>2

LEMMA TransferFiled ==
  ASSUME OneRegion, Filed(transfers, theap), NEW serie, NEW n, FILE_transfer(serie, n)
  PROVE  Filed(transfers', theap')
<1> DEFINE k == transfer_from_id(n)
           r == arlist_remove(transfers, k)
<1>1. k # 0 /\ (KeepsTransfers \/ Holds(r, theap))
  BY DEF FILE_transfer
<1>2. k \in 1 .. Len(transfers)
  BY <1>1, FilesFound
<1>3. CASE KeepsTransfers
  BY <1>3, FiledKept
<1>4. CASE Holds(r, theap)
  <2>1. transfers' = r /\ theap' = HeldBy(r, theap)
    BY <1>4 DEF Holds, HeldBy
  <2> HIDE DEF k
  <2>2. Filed(r, HeldBy(r, theap))
    BY <1>2, DropFile
  <2> QED  BY <2>1, <2>2
<1> QED  BY <1>1, <1>3, <1>4

-----------------------------------------------------------------------------
(* Clients: what their handlers leave of their records and send.            *)

IsRequest(q) ==
  \/ q[1] = "HELO" /\ q[2] \in Nick /\ q[3] \in Path
  \/ q[1] \in {"BYEE", "BCST", "PRVT", "LIST", "SHUT"} /\ q[2] \in Ids
  \/ q[1] = "FILE" /\ q[2] = 0 /\ q[3] \in Ids /\ q[4] \in Nick /\ q[5] \in Parts
  \/ q[1] = "FILE" /\ q[2] \in Nat \ {0} /\ q[3] \in Nat
  \/ q[1] = "DEBG"

Requests(o) == \E A : (\A q \in A : IsRequest(q)) /\ o \in Seq(A)

\* Requests that greet for no other client.
OwnRequests(o, c) == Requests(o) /\ \A k \in 1 .. Len(o) : o[k][1] = "HELO" => o[k][3] = c

\* Requests without a HELO.
Quiet(o) == Requests(o) /\ \A k \in 1 .. Len(o) : o[k][1] # "HELO"

Fields == {"phase", "has_id", "id", "nick", "last_prvt", "upload", "downloads", "hist",
           "current_hist", "roster", "sent", "waiting", "bye", "blame", "files", "no_wait"}

Fit(r) ==
  /\ DOMAIN r = Fields
  /\ r.phase \in {"off", "running", "exited", "undefined"}
  /\ r.has_id \in BOOLEAN
  /\ ~r.has_id => r.id = MAX_NUM + 1
  /\ r.has_id => r.id \in Ids
  /\ r.waiting \in Nat
  /\ r.upload = Null \/ r.upload \in C!Upload

\* A handler that leaves s of r has sent no HELO and changed nothing the session is about.
Calm(r, s) ==
  /\ Fit(s) /\ Quiet(s.sent)
  /\ s.phase = r.phase /\ s.has_id = r.has_id /\ s.id = r.id /\ s.nick = r.nick
  /\ s.waiting = r.waiting /\ ("hasty" \in s.blame <=> "hasty" \in r.blame)

LEMMA QuietNone == Quiet(<<>>)
<1>1. <<>> \in Seq({}) /\ Len(<<>>) = 0
  OBVIOUS
<1>2. (\A q \in {} : IsRequest(q)) /\ \A k \in 1 .. 0 : FALSE
  OBVIOUS
<1>3. Requests(<<>>)
  BY <1>1, <1>2 DEF Requests
<1> QED  BY <1>1, <1>2, <1>3 DEF Quiet

LEMMA RequestsCat ==
  ASSUME NEW o, NEW v, Requests(o), Requests(v)
  PROVE  /\ Requests(o \o v) /\ Len(o) \in Nat /\ Len(v) \in Nat
         /\ Len(o \o v) = Len(o) + Len(v)
         /\ \A k \in 1 .. Len(o) : (o \o v)[k] = o[k]
         /\ \A k \in Len(o) + 1 .. Len(o) + Len(v) : (o \o v)[k] = v[k - Len(o)]
<1>1. PICK A : (\A q \in A : IsRequest(q)) /\ o \in Seq(A)
  BY DEF Requests
<1>2. PICK B : (\A q \in B : IsRequest(q)) /\ v \in Seq(B)
  BY DEF Requests
<1> DEFINE D == A \cup B
<1>3. o \in Seq(D) /\ v \in Seq(D)
  BY <1>1, <1>2
<1>4. \A q \in D : IsRequest(q)
  BY <1>1, <1>2
<1> HIDE DEF D
<1>5. o \o v \in Seq(D)
  BY <1>3
<1>6. /\ Len(o) \in Nat /\ Len(v) \in Nat
      /\ Len(o \o v) = Len(o) + Len(v)
      /\ \A k \in 1 .. Len(o) : (o \o v)[k] = o[k]
      /\ \A k \in Len(o) + 1 .. Len(o) + Len(v) : (o \o v)[k] = v[k - Len(o)]
  BY <1>3
<1> QED  BY <1>4, <1>5, <1>6 DEF Requests

LEMMA RequestsAppend ==
  ASSUME NEW o, NEW q, Requests(o), IsRequest(q)
  PROVE  /\ Requests(Append(o, q)) /\ Len(o) \in Nat
         /\ Len(Append(o, q)) = Len(o) + 1
         /\ \A k \in 1 .. Len(o) : Append(o, q)[k] = o[k]
         /\ Append(o, q)[Len(o) + 1] = q
<1>1. PICK A : (\A x \in A : IsRequest(x)) /\ o \in Seq(A)
  BY DEF Requests
<1> DEFINE D == A \cup {q}
<1>3. o \in Seq(D) /\ q \in D
  BY <1>1
<1>4. \A x \in D : IsRequest(x)
  BY <1>1
<1> HIDE DEF D
<1>5. Append(o, q) \in Seq(D)
  BY <1>3
<1>6. /\ Len(o) \in Nat
      /\ Len(Append(o, q)) = Len(o) + 1
      /\ \A k \in 1 .. Len(o) : Append(o, q)[k] = o[k]
      /\ Append(o, q)[Len(o) + 1] = q
  BY <1>3
<1> QED  BY <1>4, <1>5, <1>6 DEF Requests

LEMMA QuietCat ==
  ASSUME NEW o, NEW v, Quiet(o), Quiet(v)
  PROVE  Quiet(o \o v)
<1>1. Requests(o) /\ Requests(v)
  BY DEF Quiet
<1> DEFINE w == o \o v
<1>2. /\ Requests(w) /\ Len(o) \in Nat /\ Len(v) \in Nat
      /\ Len(w) = Len(o) + Len(v)
      /\ \A k \in 1 .. Len(o) : w[k] = o[k]
      /\ \A k \in Len(o) + 1 .. Len(o) + Len(v) : w[k] = v[k - Len(o)]
  BY <1>1, RequestsCat
<1> HIDE DEF w
<1>3. ASSUME NEW k \in 1 .. Len(w) PROVE w[k][1] # "HELO"
  <2>1. CASE k <= Len(o)
    BY <1>2, <2>1 DEF Quiet
  <2>2. CASE ~(k <= Len(o))
    <3>1. k - Len(o) \in 1 .. Len(v) /\ w[k] = v[k - Len(o)]
      BY <1>2, <2>2
    <3> QED  BY <3>1 DEF Quiet
  <2> QED  BY <2>1, <2>2
<1> QED  BY <1>2, <1>3 DEF Quiet, w

LEMMA QuietAppend ==
  ASSUME NEW o, NEW q, Quiet(o), IsRequest(q), q[1] # "HELO"
  PROVE  Quiet(Append(o, q))
<1>1. Requests(o)
  BY DEF Quiet
<1> DEFINE w == Append(o, q)
<1>2. /\ Requests(w) /\ Len(o) \in Nat
      /\ Len(w) = Len(o) + 1
      /\ \A k \in 1 .. Len(o) : w[k] = o[k]
      /\ w[Len(o) + 1] = q
  BY <1>1, RequestsAppend
<1> HIDE DEF w
<1>3. ASSUME NEW k \in 1 .. Len(w) PROVE w[k][1] # "HELO"
  <2>1. CASE k <= Len(o)
    BY <1>2, <2>1 DEF Quiet
  <2>2. CASE ~(k <= Len(o))
    <3>1. k = Len(o) + 1
      BY <1>2, <2>2
    <3> QED  BY <1>2, <3>1
  <2> QED  BY <2>1, <2>2
<1> QED  BY <1>2, <1>3 DEF Quiet, w

LEMMA CalmItself == ASSUME NEW r, Fit(r), Quiet(r.sent) PROVE Calm(r, r)
BY DEF Calm

LEMMA CalmOn == ASSUME NEW r, NEW s, NEW t, Calm(r, s), Calm(s, t) PROVE Calm(r, t)
BY DEF Calm

LEMMA WritesCalm ==
  ASSUME NEW r, Fit(r), Quiet(r.sent), NEW q, IsRequest(q), q[1] # "HELO"
  PROVE  Calm(r, C!Writes(r, q))
<1> DEFINE s == C!Writes(r, q)
<1>1. /\ DOMAIN s = Fields /\ s.phase = r.phase /\ s.has_id = r.has_id /\ s.id = r.id
      /\ s.nick = r.nick /\ s.waiting = r.waiting /\ s.upload = r.upload /\ s.blame = r.blame
      /\ s.sent = Append(r.sent, q)
  BY DEF Fit, Fields, C!Writes
<1>2. Quiet(Append(r.sent, q))
  BY QuietAppend
<1> HIDE DEF s
<1> QED  BY <1>1, <1>2 DEF Calm, Fit, s

\* A packet with an id is written only by a client that has one.
LEMMA WritesAsCalm ==
  ASSUME NEW r, Fit(r), Quiet(r.sent), NEW type \in {"BYEE", "BCST", "PRVT", "LIST", "SHUT"},
         NEW A, NEW rest \in Seq(A)
  PROVE  Calm(r, C!WritesAs(r, type, rest))
<1>1. CASE r.id > MAX_NUM
  <2>1. C!WritesAs(r, type, rest) = r
    BY <1>1 DEF C!WritesAs
  <2> QED  BY <2>1, CalmItself
<1>2. CASE ~(r.id > MAX_NUM)
  <2> DEFINE q == <<type, r.id>> \o rest
  <2>1. r.id \in Ids
    BY <1>2, ServerAssumption DEF Fit
  <2>2. q[1] = type /\ q[2] = r.id
    <3>1. <<type, r.id>> \in Seq({type, r.id}) /\ Len(<<type, r.id>>) = 2
      OBVIOUS
    <3>2. rest \in Seq({type, r.id} \cup A) /\ <<type, r.id>> \in Seq({type, r.id} \cup A)
      BY <3>1
    <3> QED  BY <3>1, <3>2
  <2>3. C!WritesAs(r, type, rest) = C!Writes(r, q)
    BY <1>2 DEF C!WritesAs
  <2> HIDE DEF q
  <2>4. IsRequest(q) /\ q[1] # "HELO"
    BY <2>1, <2>2 DEF IsRequest
  <2> QED  BY <2>3, <2>4, WritesCalm
<1> QED  BY <1>1, <1>2

\* A download that ends, grows or is refused leaves what Fit speaks of; so do the nick of
\* a last message and the list being collected.
LEMMA BesidesCalm ==
  ASSUME NEW r, Fit(r), Quiet(r.sent), NEW s, DOMAIN s = Fields,
         s.phase = r.phase, s.has_id = r.has_id, s.id = r.id, s.nick = r.nick,
         s.waiting = r.waiting, s.upload = r.upload, s.sent = r.sent,
         "hasty" \in s.blame <=> "hasty" \in r.blame
  PROVE  Calm(r, s)
BY DEF Calm, Fit

\* What a running client, asked nothing, may become: another one that is running, in the
\* same session, or one that is not running any more.
RunsOn(r, s) ==
  /\ Fit(s) /\ Quiet(s.sent) /\ s.phase # "off"
  /\ "hasty" \in r.blame => "hasty" \in s.blame
  /\ s.phase = "running" =>
       s.has_id = r.has_id /\ s.id = r.id /\ s.nick = r.nick /\ (~r.has_id => s.waiting = r.waiting)

LEMMA CalmRunsOn ==
  ASSUME NEW r, r.phase = "running", NEW s, Calm(r, s)
  PROVE  RunsOn(r, s)
BY DEF Calm, RunsOn

LEMMA Ended ==
  ASSUME NEW r, NEW s, Calm(r, s), NEW t, t \in {C!Exits(s), C!Crashes(s)}
  PROVE  /\ Fit(t) /\ Quiet(t.sent) /\ t.phase \in {"exited", "undefined"}
         /\ "hasty" \in r.blame => "hasty" \in t.blame
         /\ RunsOn(r, t)
<1>1. Fit(s) /\ Quiet(s.sent)
  BY DEF Calm
<1>2. /\ DOMAIN t = Fields /\ t.phase \in {"exited", "undefined"} /\ t.has_id = s.has_id /\ t.id = s.id
      /\ t.waiting = s.waiting /\ t.upload = s.upload /\ t.sent = s.sent /\ t.blame = s.blame
  BY <1>1 DEF Fit, Fields, C!Exits, C!Crashes
<1> QED  BY <1>1, <1>2 DEF Calm, Fit, RunsOn

LEMMA Blamed ==
  ASSUME NEW r, NEW s, Calm(r, s), NEW cause, cause # "hasty"
  PROVE  Calm(r, [s EXCEPT !.blame = @ \cup {cause}]) /\ RunsOn(r, C!CrashesBy(s, cause))
<1> DEFINE t == [s EXCEPT !.blame = @ \cup {cause}]
<1>1. Fit(s) /\ Quiet(s.sent)
  BY DEF Calm
<1>2. /\ DOMAIN t = Fields /\ t.phase = s.phase /\ t.has_id = s.has_id /\ t.id = s.id
      /\ t.nick = s.nick /\ t.waiting = s.waiting /\ t.upload = s.upload /\ t.sent = s.sent
      /\ t.blame = s.blame \cup {cause}
  BY <1>1 DEF Fit, Fields
<1>3. C!CrashesBy(s, cause) = C!Crashes(t)
  BY DEF C!CrashesBy
<1> HIDE DEF t
<1>4. Calm(s, t)
  BY <1>1, <1>2, BesidesCalm
<1>5. Calm(r, t)
  BY <1>4, CalmOn
<1>6. RunsOn(r, C!Crashes(t))
  BY <1>5, Ended
<1> QED  BY <1>3, <1>5, <1>6 DEF t

\* A client without a nick does not run on; another one does not notice.
LEMMA NickUsed ==
  ASSUME NEW r, r.phase = "running", NEW s, Calm(r, s)
  PROVE  /\ RunsOn(r, C!UsesNick(s))
         /\ C!UsesNick(s).phase = "undefined" \/ C!UsesNick(s) = s
<1>1. RunsOn(r, C!CrashesBy(s, "no nick")) /\ RunsOn(r, s)
  BY Blamed, CalmRunsOn
<1>2. C!CrashesBy(s, "no nick").phase = "undefined"
  <2> DEFINE x == [s EXCEPT !.blame = @ \cup {"no nick"}]
  <2>1. "phase" \in DOMAIN x
    BY DEF Calm, Fit, Fields
  <2> QED  BY <2>1 DEF C!CrashesBy, C!Crashes
<1> QED  BY <1>1, <1>2 DEF C!UsesNick

LEMMA UploadEnds ==
  ASSUME NEW r, NEW s, r.phase = "running", Fit(s), Quiet(s.sent), s.phase = "running",
         s.has_id = r.has_id, s.id = r.id, s.nick = r.nick, r.has_id = TRUE,
         "hasty" \in r.blame => "hasty" \in s.blame
  PROVE  RunsOn(r, C!destroy_upload(s))
<1> DEFINE t == C!destroy_upload(s)
<1>1. CASE s.upload = Null \/ s.upload.destroyed
  <2>1. t = C!Crashes(s)
    BY <1>1 DEF C!destroy_upload
  <2>2. Calm(s, s)
    BY CalmItself
  <2>3. RunsOn(s, C!Crashes(s)) /\ C!Crashes(s).phase \in {"exited", "undefined"}
    BY <2>2, Ended
  <2> QED  BY <2>1, <2>3 DEF RunsOn
<1>2. CASE ~(s.upload = Null \/ s.upload.destroyed)
  <2>1. t = [s EXCEPT !.upload.destroyed = TRUE]
    BY <1>2 DEF C!destroy_upload
  <2>2. s.upload \in C!Upload
    BY <1>2 DEF Fit
  <2>3. /\ DOMAIN t = Fields /\ t.phase = s.phase /\ t.has_id = s.has_id /\ t.id = s.id
        /\ t.nick = s.nick /\ t.waiting = s.waiting /\ t.sent = s.sent /\ t.blame = s.blame
        /\ t.upload = [s.upload EXCEPT !.destroyed = TRUE]
    BY <2>1 DEF Fit, Fields
  <2>4. [s.upload EXCEPT !.destroyed = TRUE] \in C!Upload
    BY <2>2 DEF C!Upload
  <2> HIDE DEF t
  <2> QED  BY <2>3, <2>4 DEF Fit, RunsOn, t
<1> QED  BY <1>1, <1>2

LEMMA QuietParts ==
  ASSUME NEW n \in Nat, NEW f, f = [k \in 1 .. n |-> f[k]],
         \A k \in 1 .. n : IsRequest(f[k]) /\ f[k][1] # "HELO"
  PROVE  Quiet(f)
<1> DEFINE A == {f[k] : k \in 1 .. n}
<1>1. f \in [1 .. n -> A]
  OBVIOUS
<1>2. f \in Seq(A) /\ Len(f) = n
  <2> HIDE DEF A
  <2> QED  BY <1>1
<1>3. \A x \in A : IsRequest(x)
  OBVIOUS
<1> HIDE DEF A
<1> QED  BY <1>2, <1>3 DEF Quiet, Requests

\* The parts go out under the number of the OKOK.
LEMMA FileSent ==
  ASSUME NEW r, NEW s, r.phase = "running", Fit(s), Quiet(s.sent), s.phase = "running",
         s.has_id = r.has_id, s.id = r.id, s.nick = r.nick, r.has_id = TRUE,
         "hasty" \in r.blame => "hasty" \in s.blame, s.upload # Null
  PROVE  RunsOn(r, C!send_file(s))
<1> DEFINE t == s.upload
           Part(k) == <<"FILE", k, t.id, <<t.file, k>>>>
           n == PartsOf[t.file]
           f == [k \in 1 .. n |-> Part(k)]
           x == [s EXCEPT !.sent = @ \o f]
<1>1. C!send_file(s) = C!destroy_upload(x)
  BY DEF C!send_file
<1>2. t \in C!Upload
  BY DEF Fit
<1>3. t.id \in Nat /\ n \in Nat
  BY <1>2, ChatAssumption, ServerAssumption DEF C!Upload
<1>4. Quiet(f)
  <2>1. \A k \in 1 .. n : IsRequest(f[k]) /\ f[k][1] # "HELO"
    BY <1>3 DEF IsRequest
  <2>2. f = [k \in 1 .. n |-> f[k]]
    OBVIOUS
  <2> HIDE DEF f, n
  <2> QED  BY <1>3, <2>1, <2>2, QuietParts
<1> HIDE DEF f
<1>5. Quiet(s.sent \o f)
  BY <1>4, QuietCat
<1>6. /\ DOMAIN x = Fields /\ x.phase = s.phase /\ x.has_id = s.has_id /\ x.id = s.id
      /\ x.nick = s.nick /\ x.waiting = s.waiting /\ x.upload = s.upload /\ x.blame = s.blame
      /\ x.sent = s.sent \o f
  BY DEF Fit, Fields
<1> HIDE DEF x
<1>7. Fit(x) /\ Quiet(x.sent)
  BY <1>5, <1>6 DEF Fit
<1> QED  BY <1>1, <1>6, <1>7, UploadEnds

LEMMA AnsweredFit ==
  ASSUME NEW r, Fit(r), Quiet(r.sent)
  PROVE  LET s == C!Answered(r)
         IN  /\ Fit(s) /\ Quiet(s.sent) /\ s.phase = r.phase /\ s.has_id = r.has_id /\ s.id = r.id
             /\ s.nick = r.nick /\ s.upload = r.upload /\ s.sent = r.sent
             /\ r.waiting = 1 => s.waiting = 0
             /\ "hasty" \in s.blame <=> "hasty" \in r.blame
<1> DEFINE s == C!Answered(r)
<1>1. CASE r.waiting = 0
  <2>1. s = [r EXCEPT !.blame = @ \cup {"unasked"}]
    BY <1>1 DEF C!Answered
  <2>2. /\ DOMAIN s = Fields /\ s.phase = r.phase /\ s.has_id = r.has_id /\ s.id = r.id
        /\ s.nick = r.nick /\ s.waiting = r.waiting /\ s.upload = r.upload /\ s.sent = r.sent
        /\ s.blame = r.blame \cup {"unasked"}
    BY <2>1 DEF Fit, Fields
  <2> HIDE DEF s
  <2> QED  BY <1>1, <2>2 DEF Fit, s
<1>2. CASE r.waiting # 0
  <2>1. s = [r EXCEPT !.waiting = @ - 1]
    BY <1>2 DEF C!Answered
  <2>2. /\ DOMAIN s = Fields /\ s.phase = r.phase /\ s.has_id = r.has_id /\ s.id = r.id
        /\ s.nick = r.nick /\ s.waiting = r.waiting - 1 /\ s.upload = r.upload /\ s.sent = r.sent
        /\ s.blame = r.blame
    BY <2>1 DEF Fit, Fields
  <2>3. r.waiting \in Nat /\ r.waiting - 1 \in Nat
    BY <1>2 DEF Fit
  <2> HIDE DEF s
  <2> QED  BY <1>2, <2>2, <2>3 DEF Fit, s
<1> QED  BY <1>1, <1>2

\* A list of downloads that changes leaves the rest as it is.
LEMMA ListsCalm ==
  ASSUME NEW r, Fit(r), Quiet(r.sent), NEW l
  PROVE  LET s == [r EXCEPT !.downloads = l]
         IN  Calm(r, s) /\ Calm(r, C!Inexact(s))
<1> DEFINE s == [r EXCEPT !.downloads = l]
<1>1. /\ DOMAIN s = Fields /\ s.phase = r.phase /\ s.has_id = r.has_id /\ s.id = r.id
      /\ s.nick = r.nick /\ s.waiting = r.waiting /\ s.upload = r.upload /\ s.sent = r.sent
      /\ s.blame = r.blame
  BY DEF Fit, Fields
<1> HIDE DEF s
<1>2. Calm(r, s)
  BY <1>1, BesidesCalm
<1>3. Calm(r, [s EXCEPT !.blame = @ \cup {"third"}])
  BY <1>2, Blamed
<1> QED  BY <1>2, <1>3 DEF C!Inexact, s

LEMMA EnlistedIs ==
  ASSUME NEW r, NEW t, NEW s \in C!Enlisted(r, t)
  PROVE  \/ s = r
         \/ s = C!Crashes(r)
         \/ \E l : s = [r EXCEPT !.downloads = l] \/ s = C!Inexact([r EXCEPT !.downloads = l])
<1> DEFINE k == C!NotBefore(r.downloads, t)
           Holding(l) == [r EXCEPT !.downloads = l]
           L == C!Inserted(r.downloads, k, t)
           Made == {IF k = Len(r.downloads) THEN Holding(l) ELSE C!Inexact(Holding(l)) : l \in L}
<1>1. \/ s \in {Holding(<<t>>)}
      \/ s \in {C!Crashes(r)}
      \/ s \in {Holding(Append(r.downloads, t))}
      \/ s \in {r}
      \/ s \in Made
  BY DEF C!Enlisted
<1>2. s \in Made => \E l : s = Holding(l) \/ s = C!Inexact(Holding(l))
  BY Zenon
<1> QED  BY <1>1, <1>2

\* Packets that are about downloads leave the session alone.
LEMMA AnnounceCalm ==
  ASSUME NEW r, r.phase = "running", Fit(r), Quiet(r.sent), NEW id, NEW parts, NEW file,
         NEW s \in C!pro_server_FILE_announce(r, id, parts, file)
  PROVE  RunsOn(r, s)
<1> DEFINE t == [id |-> id, series |-> 0, parts |-> parts, file |-> file, got |-> <<>>]
           x == C!Received(r, t)
<1>1. s = r \/ s = x \/ s \in C!Enlisted(r, t)
  BY DEF C!pro_server_FILE_announce
<1>2. Calm(r, r)
  BY CalmItself
<1>3. Calm(r, x)
  <2>1. /\ DOMAIN x = Fields /\ x.phase = r.phase /\ x.has_id = r.has_id /\ x.id = r.id
        /\ x.nick = r.nick /\ x.waiting = r.waiting /\ x.upload = r.upload /\ x.sent = r.sent
        /\ x.blame = r.blame
    BY DEF Fit, Fields, C!Received
  <2> HIDE DEF x
  <2> QED  BY <2>1, BesidesCalm
<1>4. RunsOn(r, C!Crashes(r))
  BY <1>2, Ended
<1>5. \A l : /\ Calm(r, [r EXCEPT !.downloads = l])
             /\ Calm(r, C!Inexact([r EXCEPT !.downloads = l]))
  BY ListsCalm
<1> HIDE DEF t, x
<1>6. ASSUME s \in C!Enlisted(r, t) PROVE RunsOn(r, s)
  <2>1. \/ s = r
        \/ s = C!Crashes(r)
        \/ \E l : s = [r EXCEPT !.downloads = l] \/ s = C!Inexact([r EXCEPT !.downloads = l])
    BY <1>6, EnlistedIs
  <2>2. Calm(r, s) \/ s = C!Crashes(r)
    BY <1>2, <1>5, <2>1, Zenon
  <2> QED  BY <1>4, <2>2, CalmRunsOn
<1> QED  BY <1>1, <1>2, <1>3, <1>6, CalmRunsOn

LEMMA EndsCalm ==
  ASSUME NEW r, r.phase = "running", NEW x, Calm(r, x), NEW k, NEW s \in C!EndsDownload(x, k)
  PROVE  RunsOn(r, s)
<1> DEFINE l == C!Removed(C!Becomes(x.downloads, k, Null), k)
           y == [x EXCEPT !.downloads = l]
<1>1. s = y \/ s = C!Inexact(y) \/ s = C!CrashesBy(x, "behind")
  BY DEF C!EndsDownload
<1> HIDE DEF l
<1>2. Calm(x, y) /\ Calm(x, C!Inexact(y))
  BY ListsCalm DEF Calm
<1> HIDE DEF y
<1>3. Calm(r, y) /\ Calm(r, C!Inexact(y))
  BY <1>2, CalmOn
<1>4. RunsOn(r, C!CrashesBy(x, "behind"))
  BY Blamed
<1> QED  BY <1>1, <1>3, <1>4, CalmRunsOn

LEMMA PartCalm ==
  ASSUME NEW r, r.phase = "running", Fit(r), Quiet(r.sent), NEW serie, NEW id, NEW bytes,
         NEW s \in C!pro_server_FILE_transfer(r, serie, id, bytes)
  PROVE  RunsOn(r, s)
<1> DEFINE k == C!transfer_from_id(r, id)
           t == [r.downloads[k] EXCEPT !.series = @ + 1, !.got = Append(@, bytes)]
           x == C!Received(r, t)
           v == [r EXCEPT !.blame = @ \cup {"lost part"}]
           l == C!Becomes(r.downloads, k, t)
           w == [r EXCEPT !.downloads = l]
<1>1. s = r \/ s = C!Crashes(r) \/ s = v \/ s = w \/ s \in C!EndsDownload(x, k)
  <2> HIDE DEF l
  <2>1. w = [r EXCEPT !.downloads = C!Becomes(@, k, t)]
    BY DEF l
  <2>2. s \in IF k = 0 THEN {r}
              ELSE IF r.downloads[k] = Null THEN {C!Crashes(r)}
              ELSE {v} \cup IF t.series >= t.parts THEN C!EndsDownload(x, k) ELSE {w}
    BY <2>1 DEF C!pro_server_FILE_transfer
  <2> HIDE DEF k, t, x, v, w
  <2> QED  BY <2>2
<1>2. Calm(r, r)
  BY CalmItself
<1>3. Calm(r, v)
  BY <1>2, Blamed
<1> HIDE DEF l, k, t
<1>4. Calm(r, w)
  BY ListsCalm
<1>5. /\ DOMAIN x = Fields /\ x.phase = r.phase /\ x.has_id = r.has_id /\ x.id = r.id
      /\ x.nick = r.nick /\ x.waiting = r.waiting /\ x.upload = r.upload /\ x.sent = r.sent
      /\ x.blame = r.blame
  BY DEF Fit, Fields, C!Received
<1> HIDE DEF x, v, w
<1>6. Calm(r, x)
  BY <1>5, BesidesCalm
<1>7. s \in C!EndsDownload(x, k) => RunsOn(r, s)
  BY <1>6, EndsCalm
<1>8. RunsOn(r, C!Crashes(r))
  BY <1>2, Ended
<1> QED  BY <1>1, <1>2, <1>3, <1>4, <1>7, <1>8, CalmRunsOn

\* What an answer makes of a client without an id: OKOK gives it one.
GivenId(r, s, id) ==
  /\ Fit(s) /\ Quiet(s.sent) /\ s.phase = "running"
  /\ "hasty" \in r.blame => "hasty" \in s.blame
  /\ s.has_id = TRUE /\ s.id = id /\ s.nick = r.nick

TurnedAway(r, s) ==
  /\ Fit(s) /\ Quiet(s.sent) /\ s.phase = "running"
  /\ "hasty" \in r.blame => "hasty" \in s.blame
  /\ s.has_id = FALSE /\ s.nick = r.nick /\ (r.waiting = 1 => s.waiting = 0)

LEMMA OKOKRead ==
  ASSUME NEW r, r.phase = "running", Fit(r), Quiet(r.sent), NEW id \in Ids
  PROVE  LET s == C!pro_server_OKOK(C!Answered(r), id)
         IN  /\ r.has_id => RunsOn(r, s)
             /\ ~r.has_id => GivenId(r, s, id)
<1> DEFINE a == C!Answered(r)
           s == C!pro_server_OKOK(a, id)
<1>1. /\ Fit(a) /\ Quiet(a.sent) /\ a.phase = r.phase /\ a.has_id = r.has_id /\ a.id = r.id
      /\ a.nick = r.nick /\ a.upload = r.upload /\ a.sent = r.sent
      /\ "hasty" \in a.blame <=> "hasty" \in r.blame
  BY AnsweredFit
<1> HIDE DEF a
<1>2. r.has_id \in BOOLEAN /\ id \in 0 .. MAX_NUM
  BY DEF Fit, Ids
<1>3. CASE r.has_id
  <2>1. CASE a.upload = Null \/ a.upload.destroyed
    <3>1. s = C!Crashes(a)
      BY <1>1, <1>3, <2>1 DEF C!pro_server_OKOK
    <3>2. Calm(a, a)
      BY <1>1, CalmItself
    <3>3. RunsOn(a, s)
      BY <3>1, <3>2, Ended
    <3>4. Fit(s) /\ Quiet(s.sent) /\ s.phase \in {"exited", "undefined"}
      BY <3>1, <3>2, Ended
    <3> HIDE DEF s
    <3>5. RunsOn(r, s)
      BY <1>1, <3>3, <3>4 DEF RunsOn
    <3> QED  BY <1>3, <3>5 DEF s, a
  <2>2. CASE ~(a.upload = Null \/ a.upload.destroyed)
    <3> DEFINE x == [a EXCEPT !.upload.id = id]
    <3>1. s = C!send_file(x)
      BY <1>1, <1>3, <2>2 DEF C!pro_server_OKOK
    <3>2. a.upload \in C!Upload
      BY <1>1, <2>2 DEF Fit
    <3>3. /\ DOMAIN x = Fields /\ x.phase = a.phase /\ x.has_id = a.has_id /\ x.id = a.id
          /\ x.nick = a.nick /\ x.waiting = a.waiting /\ x.sent = a.sent /\ x.blame = a.blame
          /\ x.upload = [a.upload EXCEPT !.id = id]
      BY <1>1 DEF Fit, Fields
    <3>4. [a.upload EXCEPT !.id = id] \in C!Upload
      BY <1>2, <3>2 DEF C!Upload
    <3>5. x.upload # Null
      BY <3>3, <3>4, ChatAssumption
    <3> HIDE DEF x, s
    <3>6. Fit(x)
      BY <1>1, <3>3, <3>4 DEF Fit
    <3>7. RunsOn(r, C!send_file(x))
      BY <1>1, <1>2, <1>3, <3>3, <3>5, <3>6, FileSent
    <3> QED  BY <1>3, <3>1, <3>7 DEF s, a
  <2> QED  BY <2>1, <2>2
<1>4. CASE ~r.has_id
  <2>1. s = [a EXCEPT !.has_id = TRUE, !.id = id]
    BY <1>1, <1>4 DEF C!pro_server_OKOK
  <2>2. /\ DOMAIN s = Fields /\ s.phase = a.phase /\ s.has_id = TRUE /\ s.id = id
        /\ s.nick = a.nick /\ s.waiting = a.waiting /\ s.upload = a.upload /\ s.sent = a.sent
        /\ s.blame = a.blame
    BY <1>1, <2>1 DEF Fit, Fields
  <2> HIDE DEF s
  <2>3. Fit(s)
    BY <1>1, <2>2 DEF Fit
  <2>4. GivenId(r, s, id)
    BY <1>1, <2>2, <2>3 DEF GivenId
  <2> QED  BY <1>4, <2>4 DEF s, a
<1> QED  BY <1>3, <1>4

LEMMA BADDRead ==
  ASSUME NEW r, r.phase = "running", Fit(r), Quiet(r.sent)
  PROVE  LET s == C!pro_server_BADD(C!Answered(r))
         IN  /\ r.has_id => RunsOn(r, s)
             /\ ~r.has_id => TurnedAway(r, s)
<1> DEFINE a == C!Answered(r)
           s == C!pro_server_BADD(a)
<1>1. /\ Fit(a) /\ Quiet(a.sent) /\ a.phase = r.phase /\ a.has_id = r.has_id /\ a.id = r.id
      /\ a.nick = r.nick /\ a.upload = r.upload /\ a.sent = r.sent
      /\ r.waiting = 1 => a.waiting = 0
      /\ "hasty" \in a.blame <=> "hasty" \in r.blame
  BY AnsweredFit
<1> HIDE DEF a
<1>2. r.has_id \in BOOLEAN
  BY DEF Fit
<1>3. CASE r.has_id
  <2>1. s = C!destroy_upload(a)
    BY <1>1, <1>3 DEF C!pro_server_BADD
  <2>2. RunsOn(r, C!destroy_upload(a))
    BY <1>1, <1>2, <1>3, UploadEnds
  <2> QED  BY <1>3, <2>1, <2>2 DEF a
<1>4. CASE ~r.has_id
  <2>1. s = a
    BY <1>1, <1>4 DEF C!pro_server_BADD
  <2>2. TurnedAway(r, a)
    BY <1>1, <1>2, <1>4 DEF TurnedAway
  <2> QED  BY <1>4, <2>1, <2>2 DEF a
<1> QED  BY <1>3, <1>4

\* A packet read by a running client.
LEMMA PacketRead ==
  ASSUME NEW r, r.phase = "running", Fit(r), Quiet(r.sent),
         NEW p, p[1] = "OKOK" => p[2] \in Ids, NEW s \in C!process_packet(r, p)
  PROVE  \/ /\ RunsOn(r, s)
            /\ p[1] \in Answer => r.has_id
            /\ p[1] = "BYEE" /\ p[2] = r.id => s.phase # "running"
         \/ ~r.has_id /\ p[1] = "OKOK" /\ GivenId(r, s, p[2])
         \/ ~r.has_id /\ p[1] = "BADD" /\ TurnedAway(r, s)
<1>1. Calm(r, r) /\ RunsOn(r, r)
  BY CalmItself, CalmRunsOn
<1>2. CASE p[1] = "OKOK"
  <2>1. s = C!pro_server_OKOK(C!Answered(r), p[2])
    BY <1>2 DEF C!process_packet
  <2>2. LET x == C!pro_server_OKOK(C!Answered(r), p[2])
        IN  /\ r.has_id => RunsOn(r, x)
            /\ ~r.has_id => GivenId(r, x, p[2])
    BY <1>2, OKOKRead
  <2> QED  BY <1>2, <2>1, <2>2
<1>3. CASE p[1] = "BADD"
  <2>1. s = C!pro_server_BADD(C!Answered(r))
    BY <1>3 DEF C!process_packet
  <2>2. LET x == C!pro_server_BADD(C!Answered(r))
        IN  /\ r.has_id => RunsOn(r, x)
            /\ ~r.has_id => TurnedAway(r, x)
    BY BADDRead
  <2> QED  BY <1>3, <2>1, <2>2
<1>4. CASE p[1] = "BYEE"
  <2>1. s = IF r.id = p[2] THEN C!Exits(r) ELSE r
    BY <1>4 DEF C!process_packet, C!pro_server_BYEE
  <2>2. RunsOn(r, C!Exits(r)) /\ C!Exits(r).phase # "running"
    BY <1>1, Ended
  <2>3. p[1] \notin Answer
    BY <1>4 DEF Answer
  <2> QED  BY <1>1, <2>1, <2>2, <2>3
<1>5. CASE p[1] = "BCST"
  <2>1. s = C!UsesNick(r)
    BY <1>5 DEF C!process_packet
  <2>2. RunsOn(r, s)
    BY <1>1, <2>1, NickUsed
  <2> QED  BY <1>5, <2>2 DEF Answer
<1>6. CASE p[1] = "PRVT"
  <2>1. s = [r EXCEPT !.last_prvt = p[2]]
    BY <1>6 DEF C!process_packet, C!pro_server_PRVT
  <2>2. /\ DOMAIN s = Fields /\ s.phase = r.phase /\ s.has_id = r.has_id /\ s.id = r.id
        /\ s.nick = r.nick /\ s.waiting = r.waiting /\ s.upload = r.upload /\ s.sent = r.sent
        /\ s.blame = r.blame
    BY <2>1 DEF Fit, Fields
  <2>3. RunsOn(r, s)
    BY <2>2, BesidesCalm, CalmRunsOn
  <2> QED  BY <1>6, <2>3 DEF Answer
<1>7. CASE p[1] = "LIST"
  <2> DEFINE names == IF r.roster # <<>> /\ r.roster[1] = p[2] THEN Append(r.roster, p[3]) ELSE <<p[2], p[3]>>
             x == IF Len(names) = p[2] + 1 THEN <<>> ELSE names
  <2>1. s = [r EXCEPT !.roster = x]
    BY <1>7 DEF C!process_packet, C!pro_server_LIST
  <2> HIDE DEF x
  <2>2. /\ DOMAIN s = Fields /\ s.phase = r.phase /\ s.has_id = r.has_id /\ s.id = r.id
        /\ s.nick = r.nick /\ s.waiting = r.waiting /\ s.upload = r.upload /\ s.sent = r.sent
        /\ s.blame = r.blame
    BY <2>1 DEF Fit, Fields
  <2>3. RunsOn(r, s)
    BY <2>2, BesidesCalm, CalmRunsOn
  <2> QED  BY <1>7, <2>3 DEF Answer
<1>8. CASE p[1] = "SHUT"
  <2>1. s = C!Exits(r)
    BY <1>8 DEF C!process_packet
  <2>2. RunsOn(r, C!Exits(r))
    BY <1>1, Ended
  <2> QED  BY <1>8, <2>1, <2>2 DEF Answer
<1>9. CASE p[1] = "FILE" /\ p[2] = 0
  <2>1. s \in C!pro_server_FILE_announce(r, p[3], p[4], p[6])
    BY <1>9 DEF C!process_packet
  <2>2. RunsOn(r, s)
    BY <2>1, AnnounceCalm
  <2> QED  BY <1>9, <2>2 DEF Answer
<1>10. CASE /\ p[1] \notin {"OKOK", "BADD", "BYEE", "BCST", "PRVT", "LIST", "SHUT"}
            /\ ~(p[1] = "FILE" /\ p[2] = 0)
  <2>1. s \in C!pro_server_FILE_transfer(r, p[2], p[3], p[4])
    BY <1>10 DEF C!process_packet
  <2>2. RunsOn(r, s)
    BY <2>1, PartCalm
  <2> QED  BY <1>10, <2>2 DEF Answer
<1> QED  BY <1>2, <1>3, <1>4, <1>5, <1>6, <1>7, <1>8, <1>9, <1>10

-----------------------------------------------------------------------------
(* Lines that are typed.                                                    *)

LEMMA LineIs ==
  ASSUME NEW l \in C!Line
  PROVE  /\ l[1] = "nick" => l[2] \in Nick
         /\ l[1] = "send" => l[2] \in Nick /\ l[3] \in File
<1>1. CASE l \in {<<"other">>, <<"text">>, <<"shell">>, <<"debug">>, <<"who">>, <<"quit">>, <<"shut">>}
  BY <1>1
<1>2. CASE l \in {"nick"} \X Nick
  BY <1>2
<1>3. CASE l \in {"msg"} \X (Nick \cup {}) \X BOOLEAN \/ l \in {"r"} \X BOOLEAN
  BY <1>3
<1>4. CASE l \in {"send"} \X Nick \X File
  BY <1>4
<1> QED  BY <1>1, <1>2, <1>3, <1>4 DEF C!Line

\* A HELO goes out with the nick the client shows from then on.
Greets(c, r, s) ==
  /\ Fit(s) /\ s.phase = "running" /\ Requests(s.sent)
  /\ "hasty" \in r.blame => "hasty" \in s.blame
  /\ s.has_id = FALSE /\ s.waiting = r.waiting + 1
  /\ r.waiting > 0 => "hasty" \in s.blame
  /\ Len(s.sent) = 1 /\ s.sent[1][1] = "HELO" /\ s.sent[1][2] = s.nick /\ s.sent[1][3] = c

LEMMA HELOSent ==
  ASSUME NEW c \in Path, NEW r, Fit(r), r.phase = "running", r.has_id = FALSE, r.sent = <<>>, r.nick \in Nick
  PROVE  Greets(c, r, C!Asks(C!req_client_HELO(r, c)))
<1> DEFINE q == <<"HELO", r.nick, c>>
           x == C!Writes(r, q)
           s == C!Asks(x)
<1>1. IsRequest(q) /\ q[1] = "HELO" /\ q[2] = r.nick /\ q[3] = c
  BY DEF IsRequest
<1> HIDE DEF q
<1>2. /\ DOMAIN x = Fields /\ x.phase = r.phase /\ x.has_id = r.has_id /\ x.id = r.id
      /\ x.nick = r.nick /\ x.waiting = r.waiting /\ x.upload = r.upload /\ x.blame = r.blame
      /\ x.sent = Append(<<>>, q)
  BY DEF Fit, Fields, C!Writes
<1> HIDE DEF x
<1>3. Requests(<<>>) /\ Len(<<>>) = 0
  BY QuietNone, ShortCases DEF Quiet
<1>4. Requests(x.sent) /\ Len(x.sent) = 1 /\ x.sent[1] = q
  <2>1. /\ Requests(Append(<<>>, q)) /\ Len(Append(<<>>, q)) = Len(<<>>) + 1
        /\ Append(<<>>, q)[Len(<<>>) + 1] = q
    <3>1. \A o : Requests(o) => /\ Requests(Append(o, q)) /\ Len(Append(o, q)) = Len(o) + 1
                                /\ Append(o, q)[Len(o) + 1] = q
      BY <1>1, RequestsAppend
    <3> QED  BY <1>3, <3>1, Zenon
  <2>2. Len(<<>>) + 1 = 1
    BY <1>3
  <2> QED  BY <1>2, <2>1, <2>2
<1>5. r.waiting \in Nat
  BY DEF Fit
<1>6. /\ DOMAIN s = Fields /\ s.phase = x.phase /\ s.has_id = x.has_id /\ s.id = x.id
      /\ s.nick = x.nick /\ s.waiting = x.waiting + 1 /\ s.upload = x.upload /\ s.sent = x.sent
      /\ s.blame = IF x.waiting > 0 THEN x.blame \cup {"hasty"} ELSE x.blame
  BY <1>2 DEF Fields, C!Asks
<1> HIDE DEF s
<1>7. Fit(s)
  BY <1>2, <1>5, <1>6 DEF Fit
<1>8. Greets(c, r, s)
  BY <1>1, <1>2, <1>4, <1>5, <1>6, <1>7 DEF Greets
<1>9. s = C!Asks(C!req_client_HELO(r, c))
  BY DEF s, x, q, C!req_client_HELO
<1> QED  BY <1>8, <1>9

LEMMA FileAsked ==
  ASSUME NEW r, Fit(r), r.phase = "running", Quiet(r.sent), r.has_id = TRUE, NEW nick \in Nick, NEW file \in File
  PROVE  RunsOn(r, C!CMD_SEND(r, nick, file))
<1> DEFINE v == [id |-> 0, file |-> file, destroyed |-> FALSE]
           y == [r EXCEPT !.upload = v,
                         !.blame = IF file \in LongFile THEN @ \cup {"long name"} ELSE @]
           q == <<"FILE", 0, r.id, nick, PartsOf[file], file>>
           x == C!Writes(y, q)
           s == C!Asks(x)
<1>1. v \in C!Upload
  BY ServerAssumption DEF C!Upload
<1>2. IsRequest(q) /\ q[1] # "HELO"
  <2>1. PartsOf[file] \in Parts
    BY ChatAssumption DEF Range
  <2>2. r.id \in Ids
    BY DEF Fit
  <2>3. q[1] = "FILE" /\ q[2] = 0 /\ q[3] = r.id /\ q[4] = nick /\ q[5] = PartsOf[file]
    OBVIOUS
  <2> HIDE DEF q
  <2> QED  BY <2>1, <2>2, <2>3 DEF IsRequest
<1> HIDE DEF v, q
<1>3. /\ DOMAIN y = Fields /\ y.phase = r.phase /\ y.has_id = r.has_id /\ y.id = r.id
      /\ y.nick = r.nick /\ y.waiting = r.waiting /\ y.upload = v /\ y.sent = r.sent
      /\ "hasty" \in r.blame => "hasty" \in y.blame
  BY DEF Fit, Fields
<1> HIDE DEF y
<1>4. /\ DOMAIN x = Fields /\ x.phase = y.phase /\ x.has_id = y.has_id /\ x.id = y.id
      /\ x.nick = y.nick /\ x.waiting = y.waiting /\ x.upload = y.upload /\ x.sent = Append(y.sent, q)
      /\ x.blame = y.blame
  BY <1>3 DEF Fields, C!Writes
<1>5. Quiet(Append(r.sent, q))
  BY <1>2, QuietAppend
<1> HIDE DEF x
<1>6. /\ DOMAIN s = Fields /\ s.phase = x.phase /\ s.has_id = x.has_id /\ s.id = x.id
      /\ s.nick = x.nick /\ s.waiting = x.waiting + 1 /\ s.upload = x.upload /\ s.sent = x.sent
      /\ s.blame = IF x.waiting > 0 THEN x.blame \cup {"hasty"} ELSE x.blame
  BY <1>4 DEF Fields, C!Asks
<1> HIDE DEF s
<1>7. r.waiting + 1 \in Nat
  BY DEF Fit
<1>8. Fit(s) /\ Quiet(s.sent)
  BY <1>1, <1>3, <1>4, <1>5, <1>6, <1>7 DEF Fit
<1>9. RunsOn(r, s)
  BY <1>3, <1>4, <1>6, <1>8 DEF RunsOn
<1>10. s = C!CMD_SEND(r, nick, file)
  BY DEF s, x, y, q, v, C!CMD_SEND
<1> QED  BY <1>9, <1>10

\* exec_command, with an id and without.
LEMMA CommandConnected ==
  ASSUME NEW r, Fit(r), r.phase = "running", Quiet(r.sent), r.has_id = TRUE, NEW l \in C!Line
  PROVE  RunsOn(r, C!Connected(r, l))
<1> DEFINE s == C!Connected(r, l)
<1>1. <<>> \in Seq({}) /\ \A y : <<y>> \in Seq({y})
  OBVIOUS
<1>2. /\ Calm(r, C!WritesAs(r, "BCST", <<>>)) /\ Calm(r, C!WritesAs(r, "LIST", <<>>))
      /\ Calm(r, C!WritesAs(r, "BYEE", <<>>)) /\ Calm(r, C!WritesAs(r, "SHUT", <<>>))
      /\ \A y : Calm(r, C!WritesAs(r, "PRVT", <<y>>))
  BY <1>1, WritesAsCalm
<1>3. CASE l[1] = "text"
  <2>1. s = C!UsesNick(C!WritesAs(r, "BCST", <<>>))
    BY <1>3 DEF C!Connected
  <2> HIDE DEF s
  <2> QED  BY <1>2, <2>1, NickUsed DEF s
<1>4. CASE l[1] = "who"
  BY <1>2, <1>4, CalmRunsOn DEF C!Connected
<1>5. CASE l[1] = "msg"
  <2> DEFINE w == C!WritesAs(r, "PRVT", <<l[2]>>)
             x == [w EXCEPT !.last_prvt = l[2]]
  <2>1. s = x \/ s = C!CrashesBy(w, "full line")
    BY <1>5 DEF C!Connected, C!CMD_MSG
  <2>2. Calm(r, w)
    BY <1>2
  <2> HIDE DEF w
  <2>3. /\ DOMAIN x = Fields /\ x.phase = w.phase /\ x.has_id = w.has_id /\ x.id = w.id
        /\ x.nick = w.nick /\ x.waiting = w.waiting /\ x.upload = w.upload /\ x.sent = w.sent
        /\ x.blame = w.blame
    BY <2>2 DEF Calm, Fit, Fields
  <2> HIDE DEF x
  <2>4. Calm(w, x)
    BY <2>2, <2>3, BesidesCalm DEF Calm
  <2>5. Calm(r, x)
    BY <2>2, <2>4, CalmOn
  <2>6. RunsOn(r, x) /\ RunsOn(r, C!CrashesBy(w, "full line"))
    BY <2>2, <2>5, CalmRunsOn, Blamed
  <2> QED  BY <2>1, <2>6
<1>6. CASE l[1] = "r"
  <2> DEFINE w == C!WritesAs(r, "PRVT", <<r.last_prvt>>)
  <2>1. s = w \/ s = C!CrashesBy(w, "full line")
    BY <1>6 DEF C!Connected, C!CMD_RESP
  <2>2. Calm(r, w)
    BY <1>2
  <2> HIDE DEF w
  <2>3. RunsOn(r, w) /\ RunsOn(r, C!CrashesBy(w, "full line"))
    BY <2>2, CalmRunsOn, Blamed
  <2> QED  BY <2>1, <2>3
<1>7. CASE l[1] = "quit"
  BY <1>2, <1>7, CalmRunsOn DEF C!Connected
<1>8. CASE l[1] = "send"
  BY <1>8, LineIs, FileAsked DEF C!Connected
<1>9. CASE l[1] = "shut"
  BY <1>2, <1>9, CalmRunsOn DEF C!Connected
<1>10. CASE l[1] \notin {"text", "who", "msg", "r", "quit", "send", "shut"}
  <2>1. s = r
    BY <1>10 DEF C!Connected
  <2>2. RunsOn(r, r)
    BY CalmItself, CalmRunsOn
  <2> QED  BY <2>1, <2>2
<1> QED  BY <1>3, <1>4, <1>5, <1>6, <1>7, <1>8, <1>9, <1>10

LEMMA CommandConnecting ==
  ASSUME NEW c \in Path, NEW r, Fit(r), r.phase = "running", r.sent = <<>>, r.has_id = FALSE, NEW l \in C!Line
  PROVE  RunsOn(r, C!Connecting(r, c, l)) \/ Greets(c, r, C!Connecting(r, c, l))
<1> DEFINE s == C!Connecting(r, c, l)
<1>0. Calm(r, r)
  BY QuietNone, CalmItself
<1>1. CASE l[1] = "nick"
  <2> DEFINE y == [r EXCEPT !.nick = l[2]]
  <2>1. s = C!Asks(C!req_client_HELO(y, c))
    BY <1>1 DEF C!Connecting
  <2>2. /\ DOMAIN y = Fields /\ y.phase = r.phase /\ y.has_id = r.has_id /\ y.id = r.id
        /\ y.nick = l[2] /\ y.waiting = r.waiting /\ y.upload = r.upload /\ y.sent = r.sent
        /\ y.blame = r.blame
    BY DEF Fit, Fields
  <2> HIDE DEF y
  <2>3. Fit(y) /\ y.nick \in Nick
    BY <1>1, <2>2, LineIs DEF Fit
  <2>4. Greets(c, y, C!Asks(C!req_client_HELO(y, c)))
    BY <2>2, <2>3, HELOSent
  <2> HIDE DEF s
  <2>5. Greets(c, y, s)
    BY <2>1, <2>4
  <2>6. Greets(c, r, s)
    BY <2>2, <2>5 DEF Greets
  <2> QED  BY <2>6 DEF s
<1>2. CASE l[1] = "quit"
  <2>1. s = C!Exits(r)
    BY <1>2 DEF C!Connecting
  <2> QED  BY <1>0, <2>1, Ended
<1>3. CASE l[1] \notin {"nick", "quit"}
  <2>1. s = r
    BY <1>3 DEF C!Connecting
  <2> QED  BY <1>0, <2>1, CalmRunsOn
<1> QED  BY <1>1, <1>2, <1>3

LEMMA LineTyped ==
  ASSUME NEW c \in Path, NEW r, Fit(r), r.phase = "running", r.sent = <<>>, NEW l \in C!Line
  PROVE  LET s == C!input_handler(r, c, l)
         IN  RunsOn(r, s) \/ (~r.has_id /\ Greets(c, r, s))
<1> DEFINE x == [r EXCEPT !.hist = @ + 1, !.current_hist = r.hist + 1]
           s == C!exec_command(x, c, l)
<1>1. C!input_handler(r, c, l) = s
  BY DEF C!input_handler
<1>2. /\ DOMAIN x = Fields /\ x.phase = r.phase /\ x.has_id = r.has_id /\ x.id = r.id
      /\ x.nick = r.nick /\ x.waiting = r.waiting /\ x.upload = r.upload /\ x.sent = r.sent
      /\ x.blame = r.blame
  BY DEF Fit, Fields
<1> HIDE DEF x
<1>3. Calm(r, x) /\ Quiet(x.sent) /\ x.has_id \in BOOLEAN /\ Fit(x)
  BY <1>2, QuietNone, BesidesCalm DEF Calm, Fit
<1>4. ASSUME RunsOn(x, s) PROVE RunsOn(r, s)
  BY <1>2, <1>4 DEF RunsOn
<1>5. CASE l[1] = "shell"
  <2> DEFINE y == C!WritesAs(x, "BCST", <<>>)
             z == C!UsesNick(y)
  <2>1. s = IF z.phase = "undefined" THEN z ELSE C!WritesAs(z, "BCST", <<>>)
    BY <1>5 DEF C!exec_command, C!CMD_SHELL
  <2>2. <<>> \in Seq({})
    OBVIOUS
  <2>3. Calm(x, y)
    BY <1>3, <2>2, WritesAsCalm
  <2> HIDE DEF y, z, s
  <2>4. Calm(y, C!WritesAs(y, "BCST", <<>>))
    BY <2>2, <2>3, WritesAsCalm DEF Calm
  <2>5. RunsOn(x, z) /\ (z.phase = "undefined" \/ z = y)
    BY <1>2, <2>3, NickUsed DEF z
  <2>6. RunsOn(x, C!WritesAs(y, "BCST", <<>>))
    BY <1>2, <2>3, <2>4, CalmOn, CalmRunsOn
  <2>7. RunsOn(x, s)
    BY <2>1, <2>5, <2>6
  <2> QED  BY <1>1, <1>4, <2>7 DEF s
<1>6. CASE l[1] = "debug"
  <2> DEFINE q == <<"DEBG">>
  <2>1. s = C!Writes(x, q)
    BY <1>6 DEF C!exec_command
  <2>2. IsRequest(q) /\ q[1] # "HELO"
    BY DEF IsRequest
  <2> HIDE DEF q
  <2>3. Calm(x, s)
    BY <1>3, <2>1, <2>2, WritesCalm
  <2> HIDE DEF s
  <2>4. RunsOn(x, s)
    BY <1>2, <2>3, CalmRunsOn
  <2> QED  BY <1>1, <1>4, <2>4
<1>7. CASE l[1] \notin {"shell", "debug"} /\ x.has_id
  <2>1. s = C!Connected(x, l)
    BY <1>7 DEF C!exec_command
  <2>2. RunsOn(x, s)
    BY <1>2, <1>3, <1>7, <2>1, CommandConnected
  <2> QED  BY <1>1, <1>4, <2>2
<1>8. CASE l[1] \notin {"shell", "debug"} /\ ~x.has_id
  <2>1. s = C!Connecting(x, c, l)
    BY <1>8 DEF C!exec_command
  <2>2. RunsOn(x, s) \/ Greets(c, x, s)
    BY <1>2, <1>3, <1>8, <2>1, CommandConnecting
  <2> HIDE DEF s
  <2>3. Greets(c, x, s) => Greets(c, r, s)
    BY <1>2 DEF Greets
  <2> QED  BY <1>1, <1>2, <1>4, <1>8, <2>2, <2>3
<1> QED  BY <1>5, <1>6, <1>7, <1>8

-----------------------------------------------------------------------------
(* The session of a client, as its record, its FIFO, the server's FIFO, the *)
(* HELO being served and the table have it.                                 *)

\* w counts the answers a client waits for, n is its nick, s what is in its FIFO, o in
\* the server's, q the HELO being served, h the heap.
Unanswered(s) == \A k \in 1 .. Len(s) : s[k][1] \notin Answer

NoHelo(o, c) == \A k \in 1 .. Len(o) : o[k][1] = "HELO" => o[k][3] # c

OneHelo(o, n, c) ==
  \E k \in 1 .. Len(o) :
    /\ o[k][1] = "HELO" /\ o[k][2] = n /\ o[k][3] = c
    /\ \A j \in 1 .. Len(o) : o[j][1] = "HELO" /\ o[j][3] = c => j = k

Serving(q, c) == q # <<>> /\ q[2] = c

Unknown(h, c) == \A a \in Addr : Live(h, a) => h[a].path # c

\* Registered, or about to read that it is no more, behind slot k of its FIFO.
Here(id, n, s, k, h, c) ==
  \/ \E a \in Addr : Live(h, a) /\ h[a].id = id /\ h[a].nick = n /\ h[a].path = c
  \/ \E m \in 1 .. Len(s) : m > k /\ s[m] = <<"BYEE", id>>

Resting(w, s, o, q, h, c) ==
  w = 0 /\ NoHelo(o, c) /\ ~Serving(q, c) /\ Unknown(h, c) /\ Unanswered(s)

Asking(w, n, s, o, q, h, c) ==
  w = 1 /\ OneHelo(o, n, c) /\ ~Serving(q, c) /\ Unknown(h, c) /\ Unanswered(s)

Attended(w, n, s, o, q, h, c) ==
  w = 1 /\ NoHelo(o, c) /\ Serving(q, c) /\ q[1] = n /\ Unknown(h, c) /\ Unanswered(s)

Turned(w, s, o, q, h, c) ==
  /\ w = 1 /\ NoHelo(o, c) /\ ~Serving(q, c) /\ Unknown(h, c)
  /\ \E k \in 1 .. Len(s) : s[k][1] = "BADD" /\ \A j \in 1 .. Len(s) : s[j][1] \in Answer => j = k

Accepted(w, n, s, o, q, h, c) ==
  /\ w = 1 /\ NoHelo(o, c) /\ ~Serving(q, c)
  /\ \E k \in 1 .. Len(s) :
       /\ s[k][1] = "OKOK" /\ \A j \in 1 .. Len(s) : j < k => s[j][1] \notin Answer
       /\ Here(s[k][2], n, s, k, h, c)

\* Registered under a number no packet can carry.
Unheard(w, s, o, q, h, c) ==
  /\ w = 1 /\ NoHelo(o, c) /\ ~Serving(q, c) /\ Unanswered(s)
  /\ \E a \in Addr : Live(h, a) /\ h[a].path = c /\ h[a].id \notin Ids

Expects(w, n, s, o, q, h, c) ==
  \/ Resting(w, s, o, q, h, c)
  \/ Asking(w, n, s, o, q, h, c)
  \/ Attended(w, n, s, o, q, h, c)
  \/ Turned(w, s, o, q, h, c)
  \/ Accepted(w, n, s, o, q, h, c)
  \/ Unheard(w, s, o, q, h, c)

Session(r, s, o, q, h, c) ==
  /\ r.phase = "off" => r.has_id = FALSE /\ Resting(r.waiting, s, o, q, h, c)
  /\ r.phase = "running" /\ "hasty" \notin r.blame =>
       IF r.has_id THEN Here(r.id, r.nick, s, 0, h, c)
       ELSE Expects(r.waiting, r.nick, s, o, q, h, c)

\* What Gets says of packets.
Fed(s, r, o, c) ==
  /\ Len(s) \in Nat /\ Len(r) \in Nat /\ Len(s) <= Len(r)
  /\ \A j \in 1 .. Len(s) : r[j] = s[j]
  /\ \A j \in Len(s) + 1 .. Len(r) : \E k \in 1 .. Len(o) :
       /\ o[k].to = c /\ r[j][1] = o[k].data[1]
       /\ o[k].data[1] # "FILE" => r[j] = o[k].data
  /\ \A k \in 1 .. Len(o) : o[k].to = c /\ o[k].data[1] # "FILE" =>
       \E j \in Len(s) + 1 .. Len(r) : r[j] = o[k].data
  /\ \A i1, j \in Len(s) + 1 .. Len(r) : i1 # j =>
       \E k, l \in 1 .. Len(o) :
         /\ k # l /\ o[k].to = c /\ o[l].to = c
         /\ r[i1][1] = o[k].data[1] /\ r[j][1] = o[l].data[1]

LEMMA CarriedHead ==
  ASSUME NEW data \in Packet, data # NODATA, NEW p
  PROVE  /\ Carried(data, p)[1] = data[1]
         /\ data[1] # "FILE" => Carried(data, p) = data
<1>1. CASE data[1] # "FILE"
  BY <1>1 DEF Carried
<1>2. CASE data[1] = "FILE"
  <2> DEFINE x == p[Len(p)]
  <2>1. Carried(data, p) = Append(data, x)
    BY <1>2 DEF Carried
  <2>2. \A y, z, a, v, w : /\ <<y, z, a>> \in Seq({y, z, a}) /\ Len(<<y, z, a>>) = 3
                           /\ <<y, z, a, v, w>> \in Seq({y, z, a, v, w}) /\ Len(<<y, z, a, v, w>>) = 5
    OBVIOUS
  <2>3. \E S : data \in Seq(S) /\ Len(data) >= 1
    <3>1. CASE data \in {"FILE"} \X Nat \X Nat
      <4>1. PICK y, z, a : data = <<y, z, a>>
        BY <3>1
      <4>2. data \in Seq({y, z, a}) /\ Len(data) = 3
        BY <2>2, <4>1
      <4> QED  BY <4>2
    <3>2. CASE data \in {"FILE"} \X {0} \X Nat \X Nat \X Nick
      <4>1. PICK y, z, a, v, w : data = <<y, z, a, v, w>>
        BY <3>2
      <4>2. data \in Seq({y, z, a, v, w}) /\ Len(data) = 5
        BY <2>2, <4>1
      <4> QED  BY <4>2
    <3>3. CASE data \in {"OKOK", "BYEE"} \X (0 .. MAX_NUM)
      BY <1>2, <3>3
    <3>4. CASE data \in {"BCST", "PRVT", "SHUT"} \X (Nick \cup {"SERVER"})
      BY <1>2, <3>4
    <3>5. CASE data \in {"LIST"} \X Nat \X Nick
      BY <1>2, <3>5
    <3>6. CASE data = req_server_BADD
      BY <1>2, <3>6 DEF req_server_BADD
    <3> QED  BY <3>1, <3>2, <3>3, <3>4, <3>5, <3>6 DEF Packet
  <2>4. PICK S : data \in Seq(S) /\ Len(data) >= 1
    BY <2>3
  <2> HIDE DEF x
  <2>5. Append(data, x)[1] = data[1]
    <3>1. data \in Seq(S \cup {x}) /\ x \in S \cup {x} /\ 1 \in 1 .. Len(data)
      BY <2>4
    <3> QED  BY <3>1
  <2> QED  BY <1>2, <2>1, <2>5
<1> QED  BY <1>1, <1>2

LEMMA GetsFed ==
  ASSUME NEW s, NEW r, NEW o, NEW c, NEW p, Gets(s, r, o, c, p),
         \A k \in 1 .. Len(o) : o[k].data \in Packet /\ o[k].data # NODATA
  PROVE  Fed(s, r, o, c)
<1>1. \A k \in 1 .. Len(o) :
        /\ Carried(o[k].data, p)[1] = o[k].data[1]
        /\ o[k].data[1] # "FILE" => Carried(o[k].data, p) = o[k].data
  BY CarriedHead
<1>2. /\ Len(s) \in Nat /\ Len(r) \in Nat /\ Len(s) <= Len(r)
      /\ \A j \in 1 .. Len(s) : r[j] = s[j]
  BY DEF Gets
<1>3. ASSUME NEW j \in Len(s) + 1 .. Len(r)
      PROVE  \E k \in 1 .. Len(o) :
               /\ o[k].to = c /\ r[j][1] = o[k].data[1]
               /\ o[k].data[1] # "FILE" => r[j] = o[k].data
  <2>1. PICK k \in 1 .. Len(o) : o[k].to = c /\ r[j] = Carried(o[k].data, p)
    BY DEF Gets
  <2> QED  BY <1>1, <2>1
<1>4. ASSUME NEW k \in 1 .. Len(o), o[k].to = c, o[k].data[1] # "FILE"
      PROVE  \E j \in Len(s) + 1 .. Len(r) : r[j] = o[k].data
  <2>1. PICK j \in Len(s) + 1 .. Len(r) : r[j] = Carried(o[k].data, p)
    BY <1>4 DEF Gets
  <2> QED  BY <1>1, <1>4, <2>1
<1>5. ASSUME NEW i1 \in Len(s) + 1 .. Len(r), NEW j \in Len(s) + 1 .. Len(r), i1 # j
      PROVE  \E k, l \in 1 .. Len(o) :
               /\ k # l /\ o[k].to = c /\ o[l].to = c
               /\ r[i1][1] = o[k].data[1] /\ r[j][1] = o[l].data[1]
  <2>1. PICK k, l \in 1 .. Len(o) :
          /\ k # l /\ o[k].to = c /\ o[l].to = c
          /\ r[i1] = Carried(o[k].data, p) /\ r[j] = Carried(o[l].data, p)
    BY <1>5 DEF Gets
  <2> QED  BY <1>1, <2>1
<1> QED  BY <1>2, <1>3, <1>4, <1>5 DEF Fed

\* A client started without a nick.
Idles(r, s) ==
  /\ Fit(s) /\ Quiet(s.sent) /\ s.phase = "running"
  /\ s.has_id = FALSE /\ s.waiting = r.waiting

LEMMA Started ==
  ASSUME NEW c \in Path, NEW r, Fit(r), r.phase = "off", r.has_id = FALSE, r.sent = <<>>,
         NEW nick \in Nick \cup {Null}, NEW no_wait
  PROVE  LET x == [r EXCEPT !.phase = "running", !.nick = nick, !.no_wait = no_wait]
             s == IF nick = Null THEN x ELSE C!Asks(C!req_client_HELO(x, c))
         IN  Idles(r, s) \/ Greets(c, r, s)
<1> DEFINE x == [r EXCEPT !.phase = "running", !.nick = nick, !.no_wait = no_wait]
           s == IF nick = Null THEN x ELSE C!Asks(C!req_client_HELO(x, c))
<1>1. /\ DOMAIN x = Fields /\ x.phase = "running" /\ x.has_id = r.has_id /\ x.id = r.id
      /\ x.nick = nick /\ x.waiting = r.waiting /\ x.upload = r.upload /\ x.sent = r.sent
      /\ x.blame = r.blame
  BY DEF Fit, Fields
<1> HIDE DEF x
<1>2. Fit(x)
  BY <1>1 DEF Fit
<1>3. CASE nick = Null
  <2>1. s = x
    BY <1>3
  <2>2. Idles(r, x)
    BY <1>1, <1>2, QuietNone DEF Idles
  <2> QED  BY <2>1, <2>2 DEF x
<1>4. CASE nick # Null
  <2>1. nick \in Nick
    BY <1>4
  <2>2. Greets(c, x, C!Asks(C!req_client_HELO(x, c)))
    BY <1>1, <1>2, <2>1, HELOSent
  <2>3. Greets(c, x, s)
    BY <1>4, <2>2
  <2> HIDE DEF s
  <2>4. Greets(c, r, s)
    BY <1>1, <2>3 DEF Greets
  <2> QED  BY <2>4 DEF s, x
<1> QED  BY <1>3, <1>4

LEMMA Interrupted ==
  ASSUME NEW r, Fit(r), r.phase = "running", r.sent = <<>>
  PROVE  RunsOn(r, C!Exits(C!WritesAs(r, "BYEE", <<>>)))
<1>1. <<>> \in Seq({})
  OBVIOUS
<1>2. Calm(r, C!WritesAs(r, "BYEE", <<>>))
  BY <1>1, QuietNone, WritesAsCalm
<1> QED  BY <1>2, Ended

-----------------------------------------------------------------------------
(* Sequences of requests, and what the session makes of them.               *)

LEMMA TailOf ==
  ASSUME NEW s, Listed(s), s # <<>>
  PROVE  /\ Listed(Tail(s)) /\ Len(s) \in Nat /\ Len(s) >= 1 /\ Len(Tail(s)) = Len(s) - 1
         /\ \A k \in 1 .. Len(Tail(s)) : Tail(s)[k] = s[k + 1]
         /\ Head(s) = s[1]
<1>1. PICK S : s \in Seq(S)
  BY DEF Listed
<1>2. /\ Tail(s) \in Seq(S) /\ Len(s) \in Nat /\ Len(s) >= 1 /\ Len(Tail(s)) = Len(s) - 1
      /\ \A k \in 1 .. Len(Tail(s)) : Tail(s)[k] = s[k + 1]
      /\ Head(s) = s[1]
  BY <1>1
<1> QED  BY <1>2 DEF Listed

LEMMA RequestsTail ==
  ASSUME NEW o, Requests(o), o # <<>>
  PROVE  Requests(Tail(o)) /\ IsRequest(Head(o)) /\ Listed(o)
<1>1. PICK A : (\A q \in A : IsRequest(q)) /\ o \in Seq(A)
  BY DEF Requests
<1>2. Tail(o) \in Seq(A) /\ Head(o) \in A
  BY <1>1
<1> QED  BY <1>1, <1>2 DEF Requests, Listed

\* Taking a request that is no HELO of c leaves what c waits for.
LEMMA HeloLeft ==
  ASSUME NEW o, Listed(o), o # <<>>, NEW c, ~(Head(o)[1] = "HELO" /\ Head(o)[3] = c)
  PROVE  /\ NoHelo(o, c) => NoHelo(Tail(o), c)
         /\ \A n : OneHelo(o, n, c) => OneHelo(Tail(o), n, c)
<1> DEFINE v == Tail(o)
<1>1. /\ Len(o) \in Nat /\ Len(o) >= 1 /\ Len(v) = Len(o) - 1
      /\ \A k \in 1 .. Len(v) : v[k] = o[k + 1]
      /\ Head(o) = o[1]
  BY TailOf
<1> HIDE DEF v
<1>2. \A k \in 1 .. Len(v) : k + 1 \in 1 .. Len(o) /\ v[k] = o[k + 1]
  BY <1>1
<1>3. NoHelo(o, c) => NoHelo(v, c)
  BY <1>2 DEF NoHelo
<1>4. ASSUME NEW n, OneHelo(o, n, c)
      PROVE  OneHelo(v, n, c)
  <2>1. PICK k \in 1 .. Len(o) :
          /\ o[k][1] = "HELO" /\ o[k][2] = n /\ o[k][3] = c
          /\ \A j \in 1 .. Len(o) : o[j][1] = "HELO" /\ o[j][3] = c => j = k
    BY <1>4 DEF OneHelo
  <2>2. k # 1
    BY <1>1, <2>1
  <2>3. k - 1 \in 1 .. Len(v) /\ v[k - 1] = o[k]
    <3>1. k - 1 \in 1 .. Len(v) /\ (k - 1) + 1 = k
      BY <1>1, <2>2
    <3> QED  BY <1>2, <3>1
  <2>4. \A j \in 1 .. Len(v) : v[j][1] = "HELO" /\ v[j][3] = c => j = k - 1
    <3>1. ASSUME NEW j \in 1 .. Len(v), v[j][1] = "HELO" /\ v[j][3] = c
          PROVE  j = k - 1
      <4>1. j + 1 = k
        BY <1>2, <2>1, <3>1
      <4> QED  BY <4>1
    <3> QED  BY <3>1
  <2> QED  BY <2>1, <2>3, <2>4 DEF OneHelo
<1> QED  BY <1>3, <1>4 DEF v

\* The HELO of c that is taken was the one it waits for.
LEMMA HeloTaken ==
  ASSUME NEW o, Listed(o), o # <<>>, NEW c, Head(o)[1] = "HELO" /\ Head(o)[3] = c
  PROVE  ~NoHelo(o, c) /\ \A n : OneHelo(o, n, c) => Head(o)[2] = n /\ NoHelo(Tail(o), c)
<1> DEFINE v == Tail(o)
<1>1. /\ Len(o) \in Nat /\ Len(o) >= 1 /\ Len(v) = Len(o) - 1
      /\ \A k \in 1 .. Len(v) : v[k] = o[k + 1]
      /\ Head(o) = o[1]
  BY TailOf
<1> HIDE DEF v
<1>2. \A k \in 1 .. Len(v) : k + 1 \in 1 .. Len(o) /\ v[k] = o[k + 1] /\ k + 1 # 1
  BY <1>1
<1>3. 1 \in 1 .. Len(o)
  BY <1>1
<1>4. ~NoHelo(o, c)
  BY <1>1, <1>3 DEF NoHelo
<1>5. ASSUME NEW n, OneHelo(o, n, c)
      PROVE  Head(o)[2] = n /\ NoHelo(v, c)
  <2>1. PICK k \in 1 .. Len(o) :
          /\ o[k][1] = "HELO" /\ o[k][2] = n /\ o[k][3] = c
          /\ \A j \in 1 .. Len(o) : o[j][1] = "HELO" /\ o[j][3] = c => j = k
    BY <1>5 DEF OneHelo
  <2>2. k = 1
    BY <1>1, <1>3, <2>1
  <2>3. \A j \in 1 .. Len(v) : v[j][1] = "HELO" => v[j][3] # c
    BY <1>2, <2>1, <2>2
  <2> QED  BY <1>1, <2>1, <2>2, <2>3 DEF NoHelo
<1> QED  BY <1>4, <1>5 DEF v

\* What somebody else sends, or what is no HELO, leaves what c waits for.
LEMMA HeloKept ==
  ASSUME NEW o, Requests(o), NEW v, Requests(v), NEW c,
         \A k \in 1 .. Len(v) : v[k][1] = "HELO" => v[k][3] # c
  PROVE  /\ Requests(o \o v)
         /\ NoHelo(o, c) => NoHelo(o \o v, c)
         /\ \A n : OneHelo(o, n, c) => OneHelo(o \o v, n, c)
<1> DEFINE w == o \o v
<1>1. /\ Requests(w) /\ Len(o) \in Nat /\ Len(v) \in Nat
      /\ Len(w) = Len(o) + Len(v)
      /\ \A k \in 1 .. Len(o) : w[k] = o[k]
      /\ \A k \in Len(o) + 1 .. Len(o) + Len(v) : w[k] = v[k - Len(o)]
  BY RequestsCat
<1> HIDE DEF w
<1>2. ASSUME NEW k \in 1 .. Len(w)
      PROVE  (k \in 1 .. Len(o) /\ w[k] = o[k]) \/ (w[k][1] = "HELO" => w[k][3] # c)
  <2>1. CASE k <= Len(o)
    BY <1>1, <2>1
  <2>2. CASE ~(k <= Len(o))
    <3>1. k - Len(o) \in 1 .. Len(v) /\ w[k] = v[k - Len(o)]
      BY <1>1, <2>2
    <3> QED  BY <3>1
  <2> QED  BY <2>1, <2>2
<1>3. NoHelo(o, c) => NoHelo(w, c)
  BY <1>2 DEF NoHelo
<1>4. ASSUME NEW n, OneHelo(o, n, c)
      PROVE  OneHelo(w, n, c)
  <2>1. PICK k \in 1 .. Len(o) :
          /\ o[k][1] = "HELO" /\ o[k][2] = n /\ o[k][3] = c
          /\ \A j \in 1 .. Len(o) : o[j][1] = "HELO" /\ o[j][3] = c => j = k
    BY <1>4 DEF OneHelo
  <2>2. k \in 1 .. Len(w) /\ w[k] = o[k]
    BY <1>1
  <2>3. \A j \in 1 .. Len(w) : w[j][1] = "HELO" /\ w[j][3] = c => j = k
    BY <1>2, <2>1
  <2> QED  BY <2>1, <2>2, <2>3 DEF OneHelo
<1> QED  BY <1>1, <1>3, <1>4 DEF w

\* The first HELO of c is the one it waits for.
LEMMA HeloAdded ==
  ASSUME NEW o, Requests(o), NEW v, Requests(v), NEW c, NoHelo(o, c),
         Len(v) = 1, v[1][1] = "HELO", v[1][3] = c
  PROVE  OneHelo(o \o v, v[1][2], c)
<1> DEFINE w == o \o v
<1>1. /\ Len(o) \in Nat
      /\ Len(w) = Len(o) + Len(v)
      /\ \A k \in 1 .. Len(o) : w[k] = o[k]
      /\ \A k \in Len(o) + 1 .. Len(o) + Len(v) : w[k] = v[k - Len(o)]
  BY RequestsCat
<1> HIDE DEF w
<1> DEFINE m == Len(o) + 1
<1>2. m \in 1 .. Len(w) /\ w[m] = v[1]
  <2>1. m \in Len(o) + 1 .. Len(o) + Len(v) /\ m - Len(o) = 1
    BY <1>1
  <2> QED  BY <1>1, <2>1
<1>3. ASSUME NEW j \in 1 .. Len(w), w[j][1] = "HELO" /\ w[j][3] = c
      PROVE  j = m
  <2>1. ~(j <= Len(o))
    BY <1>1, <1>3 DEF NoHelo
  <2> QED  BY <1>1, <2>1
<1> HIDE DEF m
<1> QED  BY <1>2, <1>3 DEF OneHelo, w

-----------------------------------------------------------------------------
(* The server takes requests and goes on.                                   *)

LEMMA RequestHandled ==
  ASSUME OneRegion, TwoPaths, PairInv, Casts, Filed(transfers, theap), Request,
         NEW p, IsRequest(p), process_request(p)
  PROVE  /\ Filed(transfers', theap')
         /\ \/ /\ ~(p[1] = "HELO" /\ fifo[p[3]] # "absent")
               /\ \E q : Gently(q)
            \/ p[1] = "HELO" /\ p[2] \in Nick /\ p[3] \in Path /\ HELO(p[2], p[3])
<1>1. CASE p[1] = "FILE" /\ p[2] = 0 /\ p[6] \notin LongFile /\ Knows(p[3])
  <2>1. p[3] \in Ids /\ p[4] \in Nick /\ p[5] \in Parts
    BY <1>1 DEF IsRequest
  <2>2. process_FILE(p)
    BY <1>1 DEF process_request
  <2>3. CASE Refusal(p[3], p[4], TRUE)
    <3>1. RefuseFile(p[3], p[4], TRUE)
      BY <2>2, <2>3 DEF process_FILE
    <3>2. Gently(Sender(p[3]))
      BY <2>1, <3>1, RefuseFileGently
    <3>3. KeepsTransfers
      BY <3>1 DEF RefuseFile
    <3> QED  BY <1>1, <3>2, <3>3, FiledKept
  <2>4. CASE ~Refusal(p[3], p[4], TRUE)
    <3>1. PICK x \in Addr : AcceptFile(p[3], p[4], p[5], x)
      BY <2>2, <2>4 DEF process_FILE
    <3>2. get_available_transfer_id \in Nat
      BY FilesFound
    <3>3. Gently(Sender(p[3]))
      BY <2>1, <3>1, <3>2, AcceptFileGently
    <3>4. Filed(transfers', theap')
      BY <2>1, <3>1, AcceptFileFiled
    <3> QED  BY <1>1, <3>3, <3>4
  <2> QED  BY <2>3, <2>4
<1>2. CASE p[1] = "FILE" /\ p[2] # 0 /\ transfer_from_id(p[3]) # 0
  <2>1. p[2] \in Nat /\ p[3] \in Nat
    BY <1>2 DEF IsRequest
  <2>2. FILE_transfer(p[2], p[3])
    BY <1>2 DEF process_request
  <2>3. Gently(0)
    BY <2>1, <2>2, TransferGently
  <2>4. Filed(transfers', theap')
    BY <2>2, TransferFiled
  <2> QED  BY <1>2, <2>3, <2>4
<1>3. CASE p[1] = "SHUT"
  <2>1. SHUT(p[2]) /\ KeepsTransfers /\ p[2] \in Ids
    BY <1>3 DEF process_request, IsRequest
  <2>2. Gently(0)
    BY <2>1, SHUTGently
  <2> QED  BY <1>3, <2>1, <2>2, FiledKept
<1>4. CASE p[1] = "HELO" /\ fifo[p[3]] # "absent"
  <2>1. HELO(p[2], p[3]) /\ KeepsTransfers
    BY <1>4 DEF process_request
  <2>2. p[2] \in Nick /\ p[3] \in Path
    BY <1>4 DEF IsRequest
  <2> QED  BY <1>4, <2>1, <2>2, FiledKept
<1>5. CASE p[1] \in {"BYEE", "BCST", "PRVT", "LIST"} /\ Knows(p[2])
  <2>1. /\ CASE p[1] = "BYEE" -> BYEE(p[2])
             [] p[1] = "BCST" -> BCST(p[2], TRUE)
             [] p[1] = "PRVT" -> PRVT(p[2], p[3], TRUE)
             [] p[1] = "LIST" -> LIST(p[2])
        /\ KeepsTransfers
    BY <1>5 DEF process_request
  <2>2. p[2] \in Ids
    BY <1>5 DEF IsRequest
  <2>3. CASE p[1] = "BYEE"
    <3>1. BYEE(p[2])
      BY <2>1, <2>3
    <3> QED  BY <1>5, <2>1, <2>2, <3>1, ByeeGently, FiledKept
  <2>4. CASE p[1] = "BCST"
    <3>1. BCST(p[2], TRUE)
      BY <2>1, <2>4
    <3> QED  BY <1>5, <2>1, <2>2, <3>1, BCSTGently, FiledKept
  <2>5. CASE p[1] = "PRVT"
    <3>1. PRVT(p[2], p[3], TRUE)
      BY <2>1, <2>5
    <3> QED  BY <1>5, <2>1, <2>2, <3>1, PRVTGently, FiledKept
  <2>6. CASE p[1] = "LIST"
    <3>1. LIST(p[2])
      BY <2>1, <2>6
    <3> QED  BY <1>5, <2>1, <2>2, <3>1, LISTGently, FiledKept
  <2> QED  BY <1>5, <2>3, <2>4, <2>5, <2>6
<1>6. CASE /\ ~(p[1] = "FILE" /\ p[2] = 0 /\ p[6] \notin LongFile /\ Knows(p[3]))
           /\ ~(p[1] = "FILE" /\ p[2] # 0 /\ transfer_from_id(p[3]) # 0)
           /\ p[1] # "SHUT"
           /\ ~(p[1] = "HELO" /\ fifo[p[3]] # "absent")
           /\ ~(p[1] \in {"BYEE", "BCST", "PRVT", "LIST"} /\ Knows(p[2]))
  <2>1. Ignored /\ KeepsTransfers
    BY <1>6 DEF process_request
  <2>2. Gently(0)
    BY <2>1, IgnoredGently
  <2> QED  BY <1>6, <2>1, <2>2, FiledKept
<1> QED  BY <1>1, <1>2, <1>3, <1>4, <1>5, <1>6

LEMMA GoneOn ==
  ASSUME OneRegion, TwoPaths, PairInv, Casts, Filed(transfers, theap), GoesOn
  PROVE  /\ Filed(transfers', theap')
         /\ (\E q : Gently(q)) \/ Refuse \/ \E a \in Addr : Register(a)
<1>1. Filed(transfers', theap')
  BY FiledKept DEF GoesOn
<1>2. CASE OpenReturns
  BY <1>1, <1>2, OpenReturnsGently
<1>3. CASE Broadcast
  BY <1>1, <1>3, BroadcastGently
<1>4. CASE BroadcastEnds
  BY <1>1, <1>4, BroadcastEndsGently
<1>5. CASE ListOne
  BY <1>1, <1>5, ListOneGently
<1>6. CASE ListEnds
  BY <1>1, <1>6, ListEndsGently
<1>7. \/ OpenReturns \/ Refuse \/ (\E a \in Addr : Register(a))
      \/ Broadcast \/ BroadcastEnds \/ ListOne \/ ListEnds
  BY DEF GoesOn
<1> QED  BY <1>1, <1>2, <1>3, <1>4, <1>5, <1>6, <1>7

-----------------------------------------------------------------------------
(* What steps of the server make of a session.                              *)

\* Registered, and staying so or told; answered only if known: the session goes on.
LEMMA SessionLasts ==
  ASSUME NEW h, CellsDistinct(h), NEW g, \A a : Live(g, a) => Live(h, a) /\ g[a] = h[a],
         NEW c, NEW r, NEW q, NEW s, NEW t,
         Len(s) \in Nat /\ Len(t) \in Nat /\ Len(s) <= Len(t) /\ \A j \in 1 .. Len(s) : t[j] = s[j],
         r.phase = "running" =>
           \A a : Live(h, a) /\ h[a].path = c =>
             \/ Live(g, a)
             \/ h[a].id \in Ids /\ \E m \in Len(s) + 1 .. Len(t) : t[m] = <<"BYEE", h[a].id>>,
         (\E m \in Len(s) + 1 .. Len(t) : t[m][1] \in Answer) =>
           \E a : Live(h, a) /\ h[a].path = c /\ h[a].id \in Ids,
         NEW o, NEW v, NoHelo(o, c) => NoHelo(v, c), \A n : OneHelo(o, n, c) => OneHelo(v, n, c),
         Session(r, s, o, q, h, c)
  PROVE  Session(r, t, v, q, g, c)
<1>1. \A j \in 1 .. Len(t) : j \in 1 .. Len(s) \/ j \in Len(s) + 1 .. Len(t)
  OBVIOUS
<1>2. Unknown(h, c) => Unknown(g, c)
  BY DEF Unknown, Live
<1>3. ASSUME Unknown(h, c)
      PROVE  \A j \in 1 .. Len(t) : t[j][1] \in Answer => j \in 1 .. Len(s) /\ t[j] = s[j]
  <2>1. ~ \E m \in Len(s) + 1 .. Len(t) : t[m][1] \in Answer
    BY <1>3 DEF Unknown, Live
  <2> QED  BY <1>1, <2>1
<1>4. Unknown(h, c) /\ Unanswered(s) => Unanswered(t)
  BY <1>3 DEF Unanswered
<1>5. ASSUME NEW w, Resting(w, s, o, q, h, c)
      PROVE  Resting(w, t, v, q, g, c)
  BY <1>2, <1>4, <1>5 DEF Resting
<1>6. ASSUME r.phase = "running", NEW id, NEW n, NEW k \in 0 .. Len(s), Here(id, n, s, k, h, c)
      PROVE  Here(id, n, t, k, g, c)
  <2>1. CASE \E m \in 1 .. Len(s) : m > k /\ s[m] = <<"BYEE", id>>
    <3>1. PICK m \in 1 .. Len(s) : m > k /\ s[m] = <<"BYEE", id>>
      BY <2>1
    <3>2. m \in 1 .. Len(t) /\ t[m] = s[m]
      OBVIOUS
    <3> QED  BY <3>1, <3>2 DEF Here
  <2>2. CASE \E a \in Addr : Live(h, a) /\ h[a].id = id /\ h[a].nick = n /\ h[a].path = c
    <3>1. PICK a \in Addr : Live(h, a) /\ h[a].id = id /\ h[a].nick = n /\ h[a].path = c
      BY <2>2
    <3>2. CASE Live(g, a)
      <4>1. g[a] = h[a]
        BY <3>2
      <4> QED  BY <3>1, <3>2, <4>1 DEF Here
    <3>3. CASE ~Live(g, a)
      <4>1. PICK m \in Len(s) + 1 .. Len(t) : t[m] = <<"BYEE", id>>
        BY <1>6, <3>1, <3>3
      <4>2. m \in 1 .. Len(t) /\ m > k
        OBVIOUS
      <4> QED  BY <4>1, <4>2 DEF Here
    <3> QED  BY <3>2, <3>3
  <2> QED  BY <1>6, <2>1, <2>2 DEF Here
<1>7. ASSUME NEW w, NEW n, r.phase = "running", Expects(w, n, s, o, q, h, c)
      PROVE  Expects(w, n, t, v, q, g, c)
  <2>1. CASE Resting(w, s, o, q, h, c)
    BY <1>5, <2>1 DEF Expects
  <2>2. CASE Asking(w, n, s, o, q, h, c)
    <3>1. Asking(w, n, t, v, q, g, c)
      BY <1>2, <1>4, <2>2 DEF Asking
    <3> QED  BY <3>1 DEF Expects
  <2>3. CASE Attended(w, n, s, o, q, h, c)
    <3>1. Attended(w, n, t, v, q, g, c)
      BY <1>2, <1>4, <2>3 DEF Attended
    <3> QED  BY <3>1 DEF Expects
  <2>4. CASE Turned(w, s, o, q, h, c)
    <3>1. Unknown(h, c)
      BY <2>4 DEF Turned
    <3>2. PICK k \in 1 .. Len(s) : s[k][1] = "BADD" /\ \A j \in 1 .. Len(s) : s[j][1] \in Answer => j = k
      BY <2>4 DEF Turned
    <3>3. k \in 1 .. Len(t) /\ t[k] = s[k]
      OBVIOUS
    <3>4. \A j \in 1 .. Len(t) : t[j][1] \in Answer => j = k
      BY <1>3, <3>1, <3>2
    <3>5. Turned(w, t, v, q, g, c)
      BY <1>2, <2>4, <3>2, <3>3, <3>4 DEF Turned
    <3> QED  BY <3>5 DEF Expects
  <2>5. CASE Accepted(w, n, s, o, q, h, c)
    <3>1. PICK k \in 1 .. Len(s) :
            /\ s[k][1] = "OKOK" /\ \A j \in 1 .. Len(s) : j < k => s[j][1] \notin Answer
            /\ Here(s[k][2], n, s, k, h, c)
      BY <2>5 DEF Accepted
    <3>2. k \in 1 .. Len(t) /\ t[k] = s[k] /\ k \in 0 .. Len(s)
      OBVIOUS
    <3>3. \A j \in 1 .. Len(t) : j < k => t[j][1] \notin Answer
      <4>1. \A j \in 1 .. Len(t) : j < k => j \in 1 .. Len(s) /\ t[j] = s[j]
        OBVIOUS
      <4> QED  BY <3>1, <4>1
    <3>4. Here(t[k][2], n, t, k, g, c)
      BY <1>6, <1>7, <3>1, <3>2
    <3>5. Accepted(w, n, t, v, q, g, c)
      BY <2>5, <3>1, <3>2, <3>3, <3>4 DEF Accepted
    <3> QED  BY <3>5 DEF Expects
  <2>6. CASE Unheard(w, s, o, q, h, c)
    <3>1. PICK a \in Addr : Live(h, a) /\ h[a].path = c /\ h[a].id \notin Ids
      BY <2>6 DEF Unheard
    <3>2. Live(g, a) /\ g[a] = h[a]
      BY <1>7, <3>1
    <3>3. ~ \E m \in Len(s) + 1 .. Len(t) : t[m][1] \in Answer
      <4>1. ASSUME NEW b, Live(h, b), h[b].path = c, h[b].id \in Ids
            PROVE  FALSE
        <5>1. b \in Addr /\ b # a
          BY <3>1, <4>1 DEF Live
        <5> QED  BY <3>1, <4>1, <5>1 DEF CellsDistinct
      <4> QED  BY <4>1
    <3>4. Unanswered(t)
      <4>1. ASSUME NEW j \in 1 .. Len(t), t[j][1] \in Answer
            PROVE  FALSE
        <5>1. j \in 1 .. Len(s) /\ t[j] = s[j]
          BY <1>1, <3>3, <4>1
        <5> QED  BY <2>6, <4>1, <5>1 DEF Unheard, Unanswered
      <4> QED  BY <4>1 DEF Unanswered
    <3>5. Unheard(w, t, v, q, g, c)
      BY <2>6, <3>1, <3>2, <3>4 DEF Unheard
    <3> QED  BY <3>5 DEF Expects
  <2> QED  BY <1>7, <2>1, <2>2, <2>3, <2>4, <2>5, <2>6 DEF Expects
<1>8. 0 \in 0 .. Len(s)
  OBVIOUS
<1>9. r.phase = "off" => r.has_id = FALSE /\ Resting(r.waiting, t, v, q, g, c)
  BY <1>5 DEF Session
<1>10. ASSUME r.phase = "running" /\ "hasty" \notin r.blame
       PROVE  IF r.has_id THEN Here(r.id, r.nick, t, 0, g, c)
              ELSE Expects(r.waiting, r.nick, t, v, q, g, c)
  <2>1. CASE r.has_id
    <3>1. Here(r.id, r.nick, s, 0, h, c)
      BY <1>10, <2>1 DEF Session
    <3> QED  BY <1>6, <1>8, <1>10, <2>1, <3>1
  <2>2. CASE ~r.has_id
    <3>1. Expects(r.waiting, r.nick, s, o, q, h, c)
      BY <1>10, <2>2 DEF Session
    <3> QED  BY <1>7, <1>10, <2>2, <3>1
  <2> QED  BY <2>1, <2>2
<1> QED  BY <1>9, <1>10 DEF Session

LEMMA GentleSession ==
  ASSUME PairInv, NEW h, NEW w \in Seq(Written), NEW p, Mild(h, w, p), NEW c, NEW r,
         r.phase = "running" => fifo[c] = "open",
         NEW s, NEW t, Fed(s, t, w, c), NEW q,
         NEW o, NEW v, NoHelo(o, c) => NoHelo(v, c), \A n : OneHelo(o, n, c) => OneHelo(v, n, c),
         Session(r, s, o, q, heap, c)
  PROVE  Session(r, t, v, q, h, c)
<1>1. CellsDistinct(heap)
  BY DEF PairInv, Sound
<1>2. \A a : Live(h, a) => Live(heap, a) /\ h[a] = heap[a]
  BY DEF Mild, Live
<1>3. /\ Len(s) \in Nat /\ Len(t) \in Nat /\ Len(s) <= Len(t)
      /\ \A j \in 1 .. Len(s) : t[j] = s[j]
  BY DEF Fed
<1>4. ASSUME r.phase = "running", NEW a, Live(heap, a), heap[a].path = c, ~Live(h, a)
      PROVE  heap[a].id \in Ids /\ \E m \in Len(s) + 1 .. Len(t) : t[m] = <<"BYEE", heap[a].id>>
  <2>1. a \in Addr /\ fifo[heap[a].path] = "open"
    BY <1>4 DEF Live
  <2>2. /\ heap[a].id \in Ids
        /\ \E k \in 1 .. Len(w) : w[k] = [to |-> heap[a].path, data |-> <<"BYEE", heap[a].id>>]
    BY <1>4, <2>1 DEF Mild
  <2>3. PICK k \in 1 .. Len(w) : w[k] = [to |-> heap[a].path, data |-> <<"BYEE", heap[a].id>>]
    BY <2>2
  <2>4. w[k].to = c /\ w[k].data = <<"BYEE", heap[a].id>> /\ w[k].data[1] # "FILE"
    BY <1>4, <2>3
  <2>5. \E j \in Len(s) + 1 .. Len(t) : t[j] = w[k].data
    BY <2>4 DEF Fed
  <2> QED  BY <2>2, <2>4, <2>5
<1>5. ASSUME NEW m \in Len(s) + 1 .. Len(t), t[m][1] \in Answer
      PROVE  \E a : Live(heap, a) /\ heap[a].path = c /\ heap[a].id \in Ids
  <2>1. PICK k \in 1 .. Len(w) : w[k].to = c /\ t[m][1] = w[k].data[1]
    BY DEF Fed
  <2>2. Live(heap, p) /\ heap[p].id \in Ids /\ w[k].to = heap[p].path
    BY <1>5, <2>1 DEF Mild
  <2> QED  BY <2>1, <2>2
<1>6. r.phase = "running" =>
        \A a : Live(heap, a) /\ heap[a].path = c =>
          \/ Live(h, a)
          \/ heap[a].id \in Ids /\ \E m \in Len(s) + 1 .. Len(t) : t[m] = <<"BYEE", heap[a].id>>
  BY <1>4
<1>7. (\E m \in Len(s) + 1 .. Len(t) : t[m][1] \in Answer) =>
        \E a : Live(heap, a) /\ heap[a].path = c /\ heap[a].id \in Ids
  BY <1>5
<1> QED  BY <1>1, <1>2, <1>3, <1>6, <1>7, SessionLasts

\* Nothing arrives.
LEMMA SameSession ==
  ASSUME NEW h, CellsDistinct(h), NEW s, NEW t, NEW w, NEW c, Fed(s, t, w, c),
         \A k \in 1 .. Len(w) : w[k].to # c, NEW r, NEW q, NEW o, Session(r, s, o, q, h, c)
  PROVE  Session(r, t, o, q, h, c)
<1>1. /\ Len(s) \in Nat /\ Len(t) \in Nat /\ Len(s) <= Len(t)
      /\ \A j \in 1 .. Len(s) : t[j] = s[j]
      /\ \A j \in Len(s) + 1 .. Len(t) : FALSE
  BY DEF Fed
<1> QED  BY <1>1, SessionLasts

\* Whether the server is serving another client does not matter.
LEMMA UnservedSession ==
  ASSUME NEW q, NEW c, ~Serving(q, c), NEW p, ~Serving(p, c),
         NEW r, NEW s, NEW o, NEW h, Session(r, s, o, q, h, c)
  PROVE  Session(r, s, o, p, h, c)
<1>1. \A w : Resting(w, s, o, q, h, c) => Resting(w, s, o, p, h, c)
  BY DEF Resting
<1>2. ASSUME NEW w, NEW n, Expects(w, n, s, o, q, h, c)
      PROVE  Expects(w, n, s, o, p, h, c)
  <2>1. ~Attended(w, n, s, o, q, h, c)
    BY DEF Attended
  <2>2. Asking(w, n, s, o, q, h, c) => Asking(w, n, s, o, p, h, c)
    BY DEF Asking
  <2>3. Turned(w, s, o, q, h, c) => Turned(w, s, o, p, h, c)
    BY DEF Turned
  <2>4. Accepted(w, n, s, o, q, h, c) => Accepted(w, n, s, o, p, h, c)
    BY DEF Accepted
  <2>5. Unheard(w, s, o, q, h, c) => Unheard(w, s, o, p, h, c)
    BY DEF Unheard
  <2> QED  BY <1>1, <1>2, <2>1, <2>2, <2>3, <2>4, <2>5 DEF Expects
<1> QED  BY <1>1, <1>2 DEF Session

\* The server takes a HELO.
LEMMA GreetedSession ==
  ASSUME NEW o, Listed(o), o # <<>>, Head(o)[1] = "HELO", NEW q, q # <<>>, q[1] = Head(o)[2],
         q[2] = Head(o)[3], NEW c, NEW r, NEW s, NEW h, Session(r, s, o, <<>>, h, c)
  PROVE  Session(r, s, Tail(o), q, h, c)
<1>1. ~Serving(<<>>, c)
  BY DEF Serving
<1>2. CASE Head(o)[3] # c
  <2>1. /\ NoHelo(o, c) => NoHelo(Tail(o), c)
        /\ \A n : OneHelo(o, n, c) => OneHelo(Tail(o), n, c)
    BY <1>2, HeloLeft
  <2>2. Session(r, s, o, q, h, c)
    BY <1>1, <1>2, UnservedSession DEF Serving
  <2>3. \A w : Resting(w, s, o, q, h, c) => Resting(w, s, Tail(o), q, h, c)
    BY <2>1 DEF Resting
  <2>4. ASSUME NEW w, NEW n, Expects(w, n, s, o, q, h, c)
        PROVE  Expects(w, n, s, Tail(o), q, h, c)
    <3>1. Asking(w, n, s, o, q, h, c) => Asking(w, n, s, Tail(o), q, h, c)
      BY <2>1 DEF Asking
    <3>2. Attended(w, n, s, o, q, h, c) => Attended(w, n, s, Tail(o), q, h, c)
      BY <2>1 DEF Attended
    <3>3. Turned(w, s, o, q, h, c) => Turned(w, s, Tail(o), q, h, c)
      BY <2>1 DEF Turned
    <3>4. Accepted(w, n, s, o, q, h, c) => Accepted(w, n, s, Tail(o), q, h, c)
      BY <2>1 DEF Accepted
    <3>5. Unheard(w, s, o, q, h, c) => Unheard(w, s, Tail(o), q, h, c)
      BY <2>1 DEF Unheard
    <3> QED  BY <2>3, <2>4, <3>1, <3>2, <3>3, <3>4, <3>5 DEF Expects
  <2> QED  BY <2>2, <2>3, <2>4 DEF Session
<1>3. CASE Head(o)[3] = c
  <2>1. ~NoHelo(o, c) /\ \A n : OneHelo(o, n, c) => Head(o)[2] = n /\ NoHelo(Tail(o), c)
    BY <1>3, HeloTaken
  <2>2. \A w : ~Resting(w, s, o, <<>>, h, c)
    BY <2>1 DEF Resting
  <2>3. ASSUME NEW w, NEW n, Expects(w, n, s, o, <<>>, h, c)
        PROVE  Expects(w, n, s, Tail(o), q, h, c)
    <3>1. Asking(w, n, s, o, <<>>, h, c)
      BY <2>1, <2>2, <2>3 DEF Expects, Attended, Turned, Accepted, Unheard
    <3>2. Attended(w, n, s, Tail(o), q, h, c)
      BY <1>3, <2>1, <3>1 DEF Asking, Attended, Serving
    <3> QED  BY <3>2 DEF Expects
  <2> QED  BY <2>2, <2>3 DEF Session
<1> QED  BY <1>2, <1>3

\* Only the client being served can be waiting for its HELO to be.
LEMMA ServedExpects ==
  ASSUME NEW q, NEW c, Serving(q, c), NEW r, NEW s, NEW o, NEW h, Session(r, s, o, q, h, c)
  PROVE  /\ r.phase # "off"
         /\ r.phase = "running" /\ "hasty" \notin r.blame /\ ~r.has_id =>
              Attended(r.waiting, r.nick, s, o, q, h, c)
<1>1. \A w : ~Resting(w, s, o, q, h, c)
  BY DEF Resting
<1>2. ASSUME NEW w, NEW n, Expects(w, n, s, o, q, h, c)
      PROVE  Attended(w, n, s, o, q, h, c)
  BY <1>1, <1>2 DEF Expects, Asking, Turned, Accepted, Unheard
<1> QED  BY <1>1, <1>2 DEF Session

\* The server turns the client down.
LEMMA RefusedSession ==
  ASSUME NEW q, NEW c, Serving(q, c), NEW r, r.phase = "running", NEW s, NEW o, NEW h,
         Session(r, s, o, q, h, c), NEW t,
         Len(s) \in Nat /\ Len(t) \in Nat /\ Len(s) <= Len(t) /\ \A j \in 1 .. Len(s) : t[j] = s[j],
         NEW k \in Len(s) + 1 .. Len(t), t[k][1] = "BADD",
         \A j \in Len(s) + 1 .. Len(t) : t[j][1] \in Answer => j = k
  PROVE  Session(r, t, o, <<>>, h, c)
<1>1. k \in 1 .. Len(t) /\ \A j \in 1 .. Len(t) : j \in 1 .. Len(s) \/ j \in Len(s) + 1 .. Len(t)
  OBVIOUS
<1>2. ASSUME NEW id, NEW n, Here(id, n, s, 0, h, c)
      PROVE  Here(id, n, t, 0, h, c)
  <2>1. \A m \in 1 .. Len(s) : m \in 1 .. Len(t) /\ t[m] = s[m]
    OBVIOUS
  <2> QED  BY <1>2, <2>1 DEF Here
<1>3. ASSUME NEW w, NEW n, Attended(w, n, s, o, q, h, c)
      PROVE  Expects(w, n, t, o, <<>>, h, c)
  <2>1. \A j \in 1 .. Len(t) : t[j][1] \in Answer => j = k
    BY <1>1, <1>3 DEF Attended, Unanswered
  <2>2. Turned(w, t, o, <<>>, h, c)
    BY <1>1, <1>3, <2>1 DEF Attended, Turned, Serving
  <2> QED  BY <2>2 DEF Expects
<1>4. ASSUME "hasty" \notin r.blame
      PROVE  IF r.has_id THEN Here(r.id, r.nick, t, 0, h, c)
             ELSE Expects(r.waiting, r.nick, t, o, <<>>, h, c)
  <2>1. CASE r.has_id
    BY <1>2, <1>4, <2>1 DEF Session
  <2>2. CASE ~r.has_id
    <3>1. Attended(r.waiting, r.nick, s, o, q, h, c)
      BY <1>4, <2>2, ServedExpects
    <3> QED  BY <1>3, <2>2, <3>1
  <2> QED  BY <2>1, <2>2
<1> QED  BY <1>4 DEF Session

\* A new user is no concern of the other clients.
LEMMA OtherRegistered ==
  ASSUME NEW h, NEW a \in Addr, h[a] = Freed, NEW new, NEW g, g[a] = new,
         \A b \in Addr : b # a => g[b] = h[b],
         NEW c, new.path # c, NEW r, NEW s, NEW o, NEW q, Session(r, s, o, q, h, c)
  PROVE  Session(r, s, o, q, g, c)
<1>1. \A b \in Addr : Live(h, b) => Live(g, b) /\ g[b] = h[b]
  BY DEF Live
<1>2. Unknown(h, c) => Unknown(g, c)
  BY DEF Unknown, Live
<1>3. \A id, n, k : Here(id, n, s, k, h, c) => Here(id, n, s, k, g, c)
  BY <1>1 DEF Here
<1>4. \A w : Resting(w, s, o, q, h, c) => Resting(w, s, o, q, g, c)
  BY <1>2 DEF Resting
<1>5. ASSUME NEW w, NEW n, Expects(w, n, s, o, q, h, c)
      PROVE  Expects(w, n, s, o, q, g, c)
  <2>1. Asking(w, n, s, o, q, h, c) => Asking(w, n, s, o, q, g, c)
    BY <1>2 DEF Asking
  <2>2. Attended(w, n, s, o, q, h, c) => Attended(w, n, s, o, q, g, c)
    BY <1>2 DEF Attended
  <2>3. Turned(w, s, o, q, h, c) => Turned(w, s, o, q, g, c)
    BY <1>2 DEF Turned
  <2>4. Accepted(w, n, s, o, q, h, c) => Accepted(w, n, s, o, q, g, c)
    BY <1>3 DEF Accepted
  <2>5. Unheard(w, s, o, q, h, c) => Unheard(w, s, o, q, g, c)
    BY <1>1 DEF Unheard
  <2> QED  BY <1>4, <1>5, <2>1, <2>2, <2>3, <2>4, <2>5 DEF Expects
<1> QED  BY <1>3, <1>4, <1>5 DEF Session

\* The client being served is registered, under a number it is told or one that no packet
\* can carry.
LEMMA RegisteredSession ==
  ASSUME NEW q, NEW c, Serving(q, c), NEW r, r.phase = "running", NEW s, NEW o, NEW h,
         Session(r, s, o, q, h, c), NEW t,
         Len(s) \in Nat /\ Len(t) \in Nat /\ Len(s) <= Len(t) /\ \A j \in 1 .. Len(s) : t[j] = s[j],
         NEW a \in Addr, h[a] = Freed, NEW n \in Nat, NEW new, new # Freed,
         new = [id |-> n, nick |-> q[1], path |-> q[2]], NEW g, g[a] = new,
         \A b \in Addr : b # a => g[b] = h[b],
         \/ n \notin Ids /\ \A j \in Len(s) + 1 .. Len(t) : t[j][1] \notin Answer
         \/ \E k \in Len(s) + 1 .. Len(t) :
              t[k] = <<"OKOK", n>> /\ \A j \in Len(s) + 1 .. Len(t) : t[j][1] \in Answer => j = k
  PROVE  Session(r, t, o, <<>>, g, c)
<1>1. \A j \in 1 .. Len(t) : j \in 1 .. Len(s) \/ j \in Len(s) + 1 .. Len(t)
  OBVIOUS
<1>2. Live(g, a) /\ g[a].id = n /\ g[a].nick = q[1] /\ g[a].path = c
  BY DEF Live, Serving
<1>3. ASSUME NEW id, NEW y, Here(id, y, s, 0, h, c)
      PROVE  Here(id, y, t, 0, g, c)
  <2>1. \A m \in 1 .. Len(s) : m \in 1 .. Len(t) /\ t[m] = s[m]
    OBVIOUS
  <2>2. \A b \in Addr : Live(h, b) => Live(g, b) /\ g[b] = h[b]
    BY DEF Live
  <2> QED  BY <1>3, <2>1, <2>2 DEF Here
<1>4. ASSUME NEW w, NEW y, Attended(w, y, s, o, q, h, c)
      PROVE  Expects(w, y, t, o, <<>>, g, c)
  <2>1. w = 1 /\ NoHelo(o, c) /\ ~Serving(<<>>, c) /\ q[1] = y /\ Unanswered(s)
    BY <1>4 DEF Attended, Serving
  <2>2. CASE n \notin Ids /\ \A j \in Len(s) + 1 .. Len(t) : t[j][1] \notin Answer
    <3>1. Unanswered(t)
      BY <1>1, <2>1, <2>2 DEF Unanswered
    <3>2. Unheard(w, t, o, <<>>, g, c)
      BY <1>2, <2>1, <2>2, <3>1 DEF Unheard
    <3> QED  BY <3>2 DEF Expects
  <2>3. CASE \E k \in Len(s) + 1 .. Len(t) :
               t[k] = <<"OKOK", n>> /\ \A j \in Len(s) + 1 .. Len(t) : t[j][1] \in Answer => j = k
    <3>1. PICK k \in Len(s) + 1 .. Len(t) :
            t[k] = <<"OKOK", n>> /\ \A j \in Len(s) + 1 .. Len(t) : t[j][1] \in Answer => j = k
      BY <2>3
    <3>2. k \in 1 .. Len(t) /\ t[k][1] = "OKOK" /\ t[k][2] = n
      BY <3>1
    <3>3. \A j \in 1 .. Len(t) : j < k => t[j][1] \notin Answer
      <4>1. ASSUME NEW j \in 1 .. Len(t), j < k PROVE t[j][1] \notin Answer
        <5>1. CASE j \in 1 .. Len(s)
          BY <2>1, <5>1 DEF Unanswered
        <5>2. CASE j \in Len(s) + 1 .. Len(t)
          BY <3>1, <4>1, <5>2
        <5> QED  BY <1>1, <5>1, <5>2
      <4> QED  BY <4>1
    <3>4. Here(t[k][2], y, t, k, g, c)
      BY <1>2, <2>1, <3>2 DEF Here
    <3>5. Accepted(w, y, t, o, <<>>, g, c)
      BY <2>1, <3>2, <3>3, <3>4 DEF Accepted
    <3> QED  BY <3>5 DEF Expects
  <2> QED  BY <2>2, <2>3
<1>5. ASSUME "hasty" \notin r.blame
      PROVE  IF r.has_id THEN Here(r.id, r.nick, t, 0, g, c)
             ELSE Expects(r.waiting, r.nick, t, o, <<>>, g, c)
  <2>1. CASE r.has_id
    BY <1>3, <1>5, <2>1 DEF Session
  <2>2. CASE ~r.has_id
    <3>1. Attended(r.waiting, r.nick, s, o, q, h, c)
      BY <1>5, <2>2, ServedExpects
    <3> QED  BY <1>4, <2>2, <3>1
  <2> QED  BY <2>1, <2>2
<1> QED  BY <1>5 DEF Session

-----------------------------------------------------------------------------
(* What the steps of a client make of its session, and of the others'.      *)

LEMMA QuietKept ==
  ASSUME NEW o, Requests(o), NEW v, Quiet(v), NEW c
  PROVE  /\ Requests(o \o v)
         /\ NoHelo(o, c) => NoHelo(o \o v, c)
         /\ \A n : OneHelo(o, n, c) => OneHelo(o \o v, n, c)
<1>1. Requests(v) /\ \A k \in 1 .. Len(v) : v[k][1] = "HELO" => v[k][3] # c
  BY DEF Quiet
<1> QED  BY <1>1, HeloKept

\* Requests that are not for c leave its session as it is.
LEMMA OtherSent ==
  ASSUME NEW o, NEW v, NEW c, NoHelo(o, c) => NoHelo(v, c), \A n : OneHelo(o, n, c) => OneHelo(v, n, c),
         NEW r, NEW s, NEW q, NEW h, Session(r, s, o, q, h, c)
  PROVE  Session(r, s, v, q, h, c)
<1>1. \A w : Resting(w, s, o, q, h, c) => Resting(w, s, v, q, h, c)
  BY DEF Resting
<1>2. ASSUME NEW w, NEW n, Expects(w, n, s, o, q, h, c)
      PROVE  Expects(w, n, s, v, q, h, c)
  <2>1. Asking(w, n, s, o, q, h, c) => Asking(w, n, s, v, q, h, c)
    BY DEF Asking
  <2>2. Attended(w, n, s, o, q, h, c) => Attended(w, n, s, v, q, h, c)
    BY DEF Attended
  <2>3. Turned(w, s, o, q, h, c) => Turned(w, s, v, q, h, c)
    BY DEF Turned
  <2>4. Accepted(w, n, s, o, q, h, c) => Accepted(w, n, s, v, q, h, c)
    BY DEF Accepted
  <2>5. Unheard(w, s, o, q, h, c) => Unheard(w, s, v, q, h, c)
    BY DEF Unheard
  <2> QED  BY <1>1, <1>2, <2>1, <2>2, <2>3, <2>4, <2>5 DEF Expects
<1> QED  BY <1>1, <1>2 DEF Session

\* What is in a FIFO after its first packet has been read.
LEMMA Later ==
  ASSUME NEW s, Listed(s), s # <<>>
  PROVE  /\ Unanswered(s) => Unanswered(Tail(s))
         /\ \A id, n, k, h, c : k \in Nat /\ Here(id, n, s, k + 1, h, c) => Here(id, n, Tail(s), k, h, c)
         /\ \A id, n, h, c : Here(id, n, s, 0, h, c) /\ ~(Head(s)[1] = "BYEE" /\ Head(s)[2] = id)
              => Here(id, n, Tail(s), 0, h, c)
<1> DEFINE t == Tail(s)
<1>1. /\ Len(s) \in Nat /\ Len(s) >= 1 /\ Len(t) = Len(s) - 1
      /\ \A k \in 1 .. Len(t) : t[k] = s[k + 1]
      /\ Head(s) = s[1]
  BY TailOf
<1> HIDE DEF t
<1>2. \A k \in 1 .. Len(t) : k + 1 \in 1 .. Len(s) /\ t[k] = s[k + 1]
  BY <1>1
<1>3. Unanswered(s) => Unanswered(t)
  BY <1>2 DEF Unanswered
<1>4. \A m \in 1 .. Len(s) : m # 1 => m - 1 \in 1 .. Len(t) /\ t[m - 1] = s[m]
  <2>1. \A m \in 1 .. Len(s) : m # 1 => m - 1 \in 1 .. Len(t) /\ (m - 1) + 1 = m
    BY <1>1
  <2> QED  BY <1>2, <2>1
<1>5. ASSUME NEW id, NEW n, NEW k \in Nat, NEW h, NEW c, Here(id, n, s, k + 1, h, c)
      PROVE  Here(id, n, t, k, h, c)
  <2>1. CASE \E m \in 1 .. Len(s) : m > k + 1 /\ s[m] = <<"BYEE", id>>
    <3>1. PICK m \in 1 .. Len(s) : m > k + 1 /\ s[m] = <<"BYEE", id>>
      BY <2>1
    <3>2. m - 1 \in 1 .. Len(t) /\ m - 1 > k /\ t[m - 1] = <<"BYEE", id>>
      BY <1>4, <3>1
    <3> QED  BY <3>2 DEF Here
  <2> QED  BY <1>5, <2>1 DEF Here
<1>6. ASSUME NEW id, NEW n, NEW h, NEW c, Here(id, n, s, 0, h, c),
             ~(Head(s)[1] = "BYEE" /\ Head(s)[2] = id)
      PROVE  Here(id, n, t, 0, h, c)
  <2>1. CASE \E m \in 1 .. Len(s) : m > 0 /\ s[m] = <<"BYEE", id>>
    <3>1. PICK m \in 1 .. Len(s) : m > 0 /\ s[m] = <<"BYEE", id>>
      BY <2>1
    <3>2. m # 1
      BY <1>1, <1>6, <3>1
    <3>3. m - 1 \in 1 .. Len(t) /\ m - 1 > 0 /\ t[m - 1] = <<"BYEE", id>>
      BY <1>4, <3>1, <3>2
    <3> QED  BY <3>3 DEF Here
  <2> QED  BY <1>6, <2>1 DEF Here
<1> QED  BY <1>3, <1>5, <1>6 DEF t

\* A client reads a packet that answers no HELO.
LEMMA ReadOn ==
  ASSUME NEW r, r.phase = "running", NEW s, Listed(s), s # <<>>, NEW o, Requests(o), NEW q, NEW h, NEW c,
         Session(r, s, o, q, h, c), NEW x, RunsOn(r, x), Fit(r),
         Head(s)[1] \in Answer => r.has_id,
         Head(s)[1] = "BYEE" /\ Head(s)[2] = r.id => x.phase # "running"
  PROVE  Session(x, Tail(s), o \o x.sent, q, h, c)
<1> DEFINE t == Tail(s)
           v == o \o x.sent
<1>1. /\ NoHelo(o, c) => NoHelo(v, c)
      /\ \A n : OneHelo(o, n, c) => OneHelo(v, n, c)
  BY QuietKept DEF RunsOn
<1>2. /\ Len(s) \in Nat /\ Len(s) >= 1 /\ Len(t) = Len(s) - 1
      /\ \A k \in 1 .. Len(t) : t[k] = s[k + 1]
      /\ Head(s) = s[1]
  BY TailOf
<1>3. /\ Unanswered(s) => Unanswered(t)
      /\ \A id, n, k : k \in Nat /\ Here(id, n, s, k + 1, h, c) => Here(id, n, t, k, h, c)
      /\ \A id, n : Here(id, n, s, 0, h, c) /\ ~(Head(s)[1] = "BYEE" /\ Head(s)[2] = id)
              => Here(id, n, t, 0, h, c)
  BY Later
<1> HIDE DEF t, v
<1>4. \A k \in 1 .. Len(t) : k + 1 \in 1 .. Len(s) /\ t[k] = s[k + 1]
  BY <1>2
<1>5. \A m \in 1 .. Len(s) : m # 1 => m - 1 \in 1 .. Len(t) /\ t[m - 1] = s[m]
  <2>1. \A m \in 1 .. Len(s) : m # 1 => m - 1 \in 1 .. Len(t) /\ (m - 1) + 1 = m
    BY <1>2
  <2> QED  BY <1>4, <2>1
<1>6. ASSUME ~r.has_id, NEW w, NEW n, Expects(w, n, s, o, q, h, c)
      PROVE  Expects(w, n, t, v, q, h, c)
  <2>1. s[1][1] \notin Answer
    BY <1>2, <1>6
  <2>2. Resting(w, s, o, q, h, c) => Resting(w, t, v, q, h, c)
    BY <1>1, <1>3 DEF Resting
  <2>3. Asking(w, n, s, o, q, h, c) => Asking(w, n, t, v, q, h, c)
    BY <1>1, <1>3 DEF Asking
  <2>4. Attended(w, n, s, o, q, h, c) => Attended(w, n, t, v, q, h, c)
    BY <1>1, <1>3 DEF Attended
  <2>5. ASSUME Turned(w, s, o, q, h, c) PROVE Turned(w, t, v, q, h, c)
    <3>1. PICK k \in 1 .. Len(s) : s[k][1] = "BADD" /\ \A j \in 1 .. Len(s) : s[j][1] \in Answer => j = k
      BY <2>5 DEF Turned
    <3>2. k # 1
      BY <2>1, <3>1 DEF Answer
    <3>3. k - 1 \in 1 .. Len(t) /\ t[k - 1][1] = "BADD"
      BY <1>5, <3>1, <3>2
    <3>4. \A j \in 1 .. Len(t) : t[j][1] \in Answer => j = k - 1
      <4>1. ASSUME NEW j \in 1 .. Len(t), t[j][1] \in Answer PROVE j = k - 1
        <5>1. j + 1 = k
          BY <1>4, <3>1, <4>1
        <5> QED  BY <5>1
      <4> QED  BY <4>1
    <3> QED  BY <1>1, <2>5, <3>3, <3>4 DEF Turned
  <2>6. ASSUME Accepted(w, n, s, o, q, h, c) PROVE Accepted(w, n, t, v, q, h, c)
    <3>1. PICK k \in 1 .. Len(s) :
            /\ s[k][1] = "OKOK" /\ \A j \in 1 .. Len(s) : j < k => s[j][1] \notin Answer
            /\ Here(s[k][2], n, s, k, h, c)
      BY <2>6 DEF Accepted
    <3>2. k # 1
      BY <2>1, <3>1 DEF Answer
    <3>3. k - 1 \in 1 .. Len(t) /\ t[k - 1] = s[k] /\ k - 1 \in Nat /\ (k - 1) + 1 = k
      BY <1>5, <3>2
    <3>4. \A j \in 1 .. Len(t) : j < k - 1 => t[j][1] \notin Answer
      <4>1. ASSUME NEW j \in 1 .. Len(t), j < k - 1 PROVE t[j][1] \notin Answer
        <5>1. j + 1 \in 1 .. Len(s) /\ j + 1 < k /\ t[j] = s[j + 1]
          BY <1>4, <4>1
        <5> QED  BY <3>1, <5>1
      <4> QED  BY <4>1
    <3>5. Here(s[k][2], n, t, k - 1, h, c)
      <4>1. Here(s[k][2], n, s, (k - 1) + 1, h, c)
        BY <3>1, <3>3
      <4> QED  BY <1>3, <3>3, <4>1
    <3> QED  BY <1>1, <2>6, <3>1, <3>3, <3>4, <3>5 DEF Accepted
  <2>7. Unheard(w, s, o, q, h, c) => Unheard(w, t, v, q, h, c)
    BY <1>1, <1>3 DEF Unheard
  <2> QED  BY <1>6, <2>2, <2>3, <2>4, <2>5, <2>6, <2>7 DEF Expects
<1>7. ASSUME x.phase = "running" /\ "hasty" \notin x.blame
      PROVE  IF x.has_id THEN Here(x.id, x.nick, t, 0, h, c)
             ELSE Expects(x.waiting, x.nick, t, v, q, h, c)
  <2>1. /\ "hasty" \notin r.blame /\ x.has_id = r.has_id /\ x.id = r.id /\ x.nick = r.nick
        /\ ~r.has_id => x.waiting = r.waiting
    BY <1>7 DEF RunsOn
  <2>2. CASE r.has_id
    <3>1. Here(r.id, r.nick, s, 0, h, c)
      BY <2>1, <2>2 DEF Session
    <3>2. Here(r.id, r.nick, t, 0, h, c)
      BY <1>3, <1>7, <3>1
    <3> QED  BY <2>1, <2>2, <3>2
  <2>3. CASE ~r.has_id
    <3>1. Expects(r.waiting, r.nick, s, o, q, h, c)
      BY <2>1, <2>3 DEF Session
    <3> QED  BY <1>6, <2>1, <2>3, <3>1
  <2> QED  BY <2>2, <2>3
<1>8. x.phase # "off"
  BY DEF RunsOn
<1>9. Session(x, t, v, q, h, c)
  BY <1>7, <1>8 DEF Session
<1> QED  BY <1>9 DEF t, v

\* It reads the answer to its HELO.
LEMMA ReadAnswer ==
  ASSUME NEW r, r.phase = "running", ~r.has_id, NEW s, Listed(s), s # <<>>, NEW o, Requests(o),
         NEW q, NEW h, NEW c, Session(r, s, o, q, h, c), NEW x, Quiet(x.sent), x.phase = "running",
         "hasty" \in r.blame => "hasty" \in x.blame, x.nick = r.nick,
         \/ Head(s)[1] = "OKOK" /\ x.has_id /\ x.id = Head(s)[2]
         \/ Head(s)[1] = "BADD" /\ ~x.has_id /\ (r.waiting = 1 => x.waiting = 0)
  PROVE  Session(x, Tail(s), o \o x.sent, q, h, c)
<1> DEFINE t == Tail(s)
           v == o \o x.sent
<1>1. NoHelo(o, c) => NoHelo(v, c)
  BY QuietKept
<1>2. /\ Len(s) \in Nat /\ Len(s) >= 1 /\ Len(t) = Len(s) - 1
      /\ \A k \in 1 .. Len(t) : t[k] = s[k + 1]
      /\ Head(s) = s[1]
  BY TailOf
<1>3. \A id, n, k : k \in Nat /\ Here(id, n, s, k + 1, h, c) => Here(id, n, t, k, h, c)
  BY Later
<1> HIDE DEF t, v
<1>4. 1 \in 1 .. Len(s) /\ s[1][1] \in Answer /\ ~Unanswered(s)
  BY <1>2 DEF Answer, Unanswered
<1>5. ASSUME "hasty" \notin x.blame
      PROVE  \/ Turned(r.waiting, s, o, q, h, c)
             \/ Accepted(r.waiting, r.nick, s, o, q, h, c)
  <2>1. Expects(r.waiting, r.nick, s, o, q, h, c)
    BY <1>5 DEF Session
  <2> QED  BY <1>4, <2>1 DEF Expects, Resting, Asking, Attended, Unheard
<1>6. ASSUME "hasty" \notin x.blame, Turned(r.waiting, s, o, q, h, c)
      PROVE  Session(x, t, v, q, h, c)
  <2>1. PICK k \in 1 .. Len(s) : s[k][1] = "BADD" /\ \A j \in 1 .. Len(s) : s[j][1] \in Answer => j = k
    BY <1>6 DEF Turned
  <2>2. k = 1 /\ ~x.has_id /\ x.waiting = 0
    BY <1>2, <1>4, <1>6, <2>1 DEF Turned
  <2>3. Unanswered(t)
    <3>1. \A j \in 1 .. Len(t) : j + 1 \in 1 .. Len(s) /\ t[j] = s[j + 1] /\ j + 1 # 1
      BY <1>2
    <3> QED  BY <2>1, <2>2, <3>1 DEF Unanswered
  <2>4. Resting(x.waiting, t, v, q, h, c)
    BY <1>1, <1>6, <2>2, <2>3 DEF Turned, Resting
  <2> QED  BY <2>2, <2>4 DEF Session, Expects
<1>7. ASSUME "hasty" \notin x.blame, Accepted(r.waiting, r.nick, s, o, q, h, c)
      PROVE  Session(x, t, v, q, h, c)
  <2>1. PICK k \in 1 .. Len(s) :
          /\ s[k][1] = "OKOK" /\ \A j \in 1 .. Len(s) : j < k => s[j][1] \notin Answer
          /\ Here(s[k][2], r.nick, s, k, h, c)
    BY <1>7 DEF Accepted
  <2>2. k = 1 /\ x.has_id /\ x.id = s[1][2]
    <3>1. ~(1 < k)
      BY <1>4, <2>1
    <3>2. k = 1
      BY <1>2, <3>1
    <3> QED  BY <1>2, <2>1, <3>2
  <2>3. Here(x.id, x.nick, t, 0, h, c)
    <3>1. Here(x.id, r.nick, s, 0 + 1, h, c)
      BY <2>1, <2>2
    <3> QED  BY <1>3, <3>1
  <2> QED  BY <2>2, <2>3 DEF Session
<1>8. CASE "hasty" \in x.blame
  <2>1. Session(x, t, v, q, h, c)
    BY <1>8 DEF Session
  <2> QED  BY <2>1 DEF t, v
<1> QED  BY <1>5, <1>6, <1>7, <1>8 DEF t, v

\* It types.
LEMMA TypedOn ==
  ASSUME NEW r, r.phase = "running", NEW s, NEW o, Requests(o), NEW q, NEW h, NEW c,
         Session(r, s, o, q, h, c), NEW x, RunsOn(r, x)
  PROVE  Session(x, s, o \o x.sent, q, h, c)
<1> DEFINE v == o \o x.sent
<1>1. /\ NoHelo(o, c) => NoHelo(v, c)
      /\ \A n : OneHelo(o, n, c) => OneHelo(v, n, c)
  BY QuietKept DEF RunsOn
<1> HIDE DEF v
<1>2. Session(r, s, v, q, h, c)
  BY <1>1, OtherSent
<1>3. Session(x, s, v, q, h, c)
  <2>1. x.phase # "off"
    BY DEF RunsOn
  <2>2. x.phase = "running" /\ "hasty" \notin x.blame =>
          /\ "hasty" \notin r.blame /\ x.has_id = r.has_id /\ x.id = r.id /\ x.nick = r.nick
          /\ ~r.has_id => x.waiting = r.waiting
    BY DEF RunsOn
  <2> QED  BY <1>2, <2>1, <2>2 DEF Session
<1> QED  BY <1>3 DEF v

\* It greets, or starts without doing so.
LEMMA GreetsSession ==
  ASSUME NEW c, NEW r, Fit(r), r.phase = "off" \/ r.phase = "running", ~r.has_id,
         NEW s, NEW o, Requests(o), NEW q, NEW h,
         Session(r, s, o, q, h, c), NEW x, Greets(c, r, x)
  PROVE  Session(x, s, o \o x.sent, q, h, c)
<1> DEFINE v == o \o x.sent
<1>1. CASE "hasty" \in x.blame
  BY <1>1 DEF Greets, Session
<1>2. CASE "hasty" \notin x.blame
  <2>1. r.waiting = 0 /\ "hasty" \notin r.blame /\ x.waiting = 1
    BY <1>2 DEF Greets, Fit
  <2>2. Resting(0, s, o, q, h, c)
    BY <2>1 DEF Session, Expects, Resting, Asking, Attended, Turned, Accepted, Unheard
  <2>3. OneHelo(v, x.nick, c)
    <3>1. /\ NoHelo(o, c) /\ Requests(x.sent) /\ Len(x.sent) = 1
          /\ x.sent[1][1] = "HELO" /\ x.sent[1][2] = x.nick /\ x.sent[1][3] = c
      BY <2>2 DEF Resting, Greets
    <3>2. OneHelo(v, x.sent[1][2], c)
      BY <3>1, HeloAdded
    <3> QED  BY <3>1, <3>2
  <2> HIDE DEF v
  <2>4. Asking(x.waiting, x.nick, s, v, q, h, c)
    BY <2>1, <2>2, <2>3 DEF Resting, Asking
  <2>5. x.phase = "running" /\ x.has_id = FALSE
    BY DEF Greets
  <2>6. Session(x, s, v, q, h, c)
    BY <2>4, <2>5 DEF Session, Expects
  <2> QED  BY <2>6 DEF v
<1> QED  BY <1>1, <1>2

LEMMA IdlesSession ==
  ASSUME NEW c, NEW r, r.phase = "off", NEW s, NEW o, Requests(o), NEW q, NEW h,
         Session(r, s, o, q, h, c), NEW x, Idles(r, x)
  PROVE  Session(x, s, o \o x.sent, q, h, c)
<1> DEFINE v == o \o x.sent
<1>1. NoHelo(o, c) => NoHelo(v, c)
  BY QuietKept DEF Idles
<1> HIDE DEF v
<1>2. Resting(r.waiting, s, v, q, h, c)
  BY <1>1 DEF Session, Resting
<1>3. Session(x, s, v, q, h, c)
  BY <1>2 DEF Idles, Session, Expects
<1> QED  BY <1>3 DEF v

\* What it has sent is out.
LEMMA SentOut ==
  ASSUME NEW x, Fit(x)
  PROVE  LET y == [x EXCEPT !.sent = <<>>]
         IN  /\ Fit(y) /\ y.sent = <<>> /\ y.phase = x.phase
             /\ \A s, o, q, h, c : Session(x, s, o, q, h, c) => Session(y, s, o, q, h, c)
<1> DEFINE y == [x EXCEPT !.sent = <<>>]
<1>1. /\ DOMAIN y = Fields /\ y.phase = x.phase /\ y.has_id = x.has_id /\ y.id = x.id
      /\ y.nick = x.nick /\ y.waiting = x.waiting /\ y.upload = x.upload /\ y.sent = <<>>
      /\ y.blame = x.blame
  BY DEF Fit, Fields
<1> HIDE DEF y
<1>2. Fit(y)
  BY <1>1 DEF Fit
<1>3. \A s, o, q, h, c : Session(x, s, o, q, h, c) => Session(y, s, o, q, h, c)
  BY <1>1 DEF Session
<1> QED  BY <1>1, <1>2, <1>3 DEF y

-----------------------------------------------------------------------------
(* The inductive invariant of the whole system.                             *)

\* Every number in a FIFO fits in a packet.
FitIds(s) == \A k \in 1 .. Len(s) : s[k][1] = "OKOK" => s[k][2] \in Ids

Sane(c) ==
  /\ Fit(cl[c]) /\ cl[c].sent = <<>> /\ fifo[c] = FifoOf(cl[c])
  /\ cl[c].phase = "off" => cl[c].has_id = FALSE
  /\ Listed(inbox[c]) /\ FitIds(inbox[c])
  /\ phase = "running" => Session(cl[c], inbox[c], outbox, req, heap, c)

ChatInv ==
  /\ PairInv /\ Casts /\ Filed(transfers, theap) /\ Requests(outbox)
  /\ cl = [c \in Path |-> cl[c]] /\ inbox = [c \in Path |-> inbox[c]]
  /\ \A c \in Path : Sane(c)

LEMMA ReqPair == PairInv => req = <<>> \/ (req \in (Nick \cup BadNick) \X Path /\ req # <<>>)
BY DEF PairInv, Inv, TypeOK

\* What a step of the server writes reaches the FIFOs.
LEMMA Arrives ==
  ASSUME ChatInv, PairInv', Short(out'), NEW p, Delivers(p)
  PROVE  /\ inbox' = [c \in Path |-> inbox'[c]]
         /\ out' \in Seq(Written)
         /\ \A c \in Path : /\ Listed(inbox'[c]) /\ FitIds(inbox'[c])
                            /\ Fed(inbox[c], inbox'[c], out', c)
<1>1. inbox' = [c \in Path |-> Posted(inbox[c], out', c, p)]
  BY DEF Delivers
<1>2. out' \in Seq(Written)
  BY DEF PairInv, Inv, TypeOK, Written
<1>3. \A k \in 1 .. Len(out') : out'[k].data \in Packet /\ out'[k].data # NODATA
  <2>1. ASSUME NEW k \in 1 .. Len(out') PROVE out'[k].data \in Packet
    <3>1. out'[k] \in Written
      BY <1>2
    <3> QED  BY <3>1 DEF Written
  <2>2. \A k \in 1 .. Len(out') : out'[k].data # NODATA
    BY DEF Short
  <2> QED  BY <2>1, <2>2
<1>4. ASSUME NEW c \in Path
      PROVE  /\ Listed(inbox'[c]) /\ FitIds(inbox'[c])
             /\ Fed(inbox[c], inbox'[c], out', c)
  <2> DEFINE s == inbox[c]
             t == inbox'[c]
             o == out'
  <2>1. Listed(s) /\ FitIds(s)
    BY DEF ChatInv, Sane
  <2>2. t = Posted(s, o, c, p)
    BY <1>1
  <2>3. Short(o) /\ \A k \in 1 .. Len(o) : o[k].data \in Packet /\ o[k].data # NODATA
    BY <1>3
  <2> HIDE DEF s, t, o
  <2>4. Gets(s, t, o, c, p)
    BY <2>1, <2>2, <2>3, PostedGets
  <2>5. Fed(s, t, o, c)
    BY <2>3, <2>4, GetsFed
  <2>6. Listed(t)
    BY <2>4 DEF Gets
  <2>7. ASSUME NEW k \in 1 .. Len(t), t[k][1] = "OKOK"
        PROVE  t[k][2] \in Ids
    <3>1. Len(s) \in Nat /\ Len(t) \in Nat /\ \A j \in 1 .. Len(s) : t[j] = s[j]
      BY <2>5 DEF Fed
    <3>2. CASE k \in 1 .. Len(s)
      BY <2>1, <2>7, <3>1, <3>2 DEF FitIds
    <3>3. CASE k \in Len(s) + 1 .. Len(t)
      <4>1. PICK l \in 1 .. Len(o) : /\ t[k][1] = o[l].data[1]
                                     /\ o[l].data[1] # "FILE" => t[k] = o[l].data
        BY <2>5, <3>3 DEF Fed
      <4>2. t[k] \in Packet /\ t[k] # NODATA
        BY <2>3, <2>7, <4>1
      <4>3. t[k] \in {"OKOK", "BYEE"} \X (0 .. MAX_NUM)
        BY <2>7, <4>2 DEF Packet, req_server_BADD
      <4> QED  BY <4>3 DEF Ids
    <3> QED  BY <3>1, <3>2, <3>3
  <2>8. FitIds(t)
    BY <2>7 DEF FitIds
  <2> QED  BY <2>5, <2>6, <2>8 DEF s, t, o
<1> QED  BY <1>1, <1>2, <1>4

\* What is left to show of a step of the server.
LEMMA Serves1 ==
  ASSUME ChatInv, PairInv', Casts', fifo' = fifo, Short(out'), Filed(transfers', theap'),
         NEW p, Delivers(p), cl' = cl, Requests(outbox'),
         \A c \in Path : phase' = "running" => Session(cl[c], inbox'[c], outbox', req', heap', c)
  PROVE  ChatInv'
<1>1. /\ inbox' = [c \in Path |-> inbox'[c]]
      /\ \A c \in Path : Listed(inbox'[c]) /\ FitIds(inbox'[c])
  BY Arrives
<1>2. ASSUME NEW c \in Path PROVE Sane(c)'
  <2>1. /\ Fit(cl[c]) /\ cl[c].sent = <<>> /\ fifo[c] = FifoOf(cl[c])
        /\ cl[c].phase = "off" => cl[c].has_id = FALSE
    BY DEF ChatInv, Sane
  <2>2. /\ Fit(cl'[c]) /\ cl'[c].sent = <<>> /\ fifo'[c] = FifoOf(cl'[c])
        /\ cl'[c].phase = "off" => cl'[c].has_id = FALSE
    BY <2>1
  <2>3. phase' = "running" => Session(cl'[c], inbox'[c], outbox', req', heap', c)
    OBVIOUS
  <2> QED  BY <1>1, <2>2, <2>3 DEF Sane
<1>3. cl' = [c \in Path |-> cl'[c]]
  BY DEF ChatInv
<1> QED  BY <1>1, <1>2, <1>3 DEF ChatInv

LEMMA OpenIfRunning ==
  ASSUME ChatInv, NEW c \in Path
  PROVE  /\ cl[c].phase = "running" => fifo[c] = "open"
         /\ cl[c].phase \notin {"off", "running"} => \A s, o, q, h : Session(cl[c], s, o, q, h, c)
         /\ fifo[c] = "absent" => cl[c].phase # "running"
<1>1. fifo[c] = FifoOf(cl[c])
  BY DEF ChatInv, Sane
<1>2. cl[c].phase = "running" => FifoOf(cl[c]) = "open"
  BY DEF FifoOf
<1>3. cl[c].phase \notin {"off", "running"} => \A s, o, q, h : Session(cl[c], s, o, q, h, c)
  BY DEF Session
<1> QED  BY <1>1, <1>2, <1>3

LEMMA TakesOK ==
  ASSUME OneRegion, TwoPaths, ChatInv, Takes
  PROVE  ChatInv'
<1> DEFINE p == Head(outbox)
<1>1. /\ PairInv /\ Casts /\ Filed(transfers, theap) /\ Requests(outbox)
      /\ \A c \in Path : Sane(c)
  BY DEF ChatInv
<1>2. /\ Request /\ outbox # <<>> /\ process_request(p) /\ outbox' = Tail(outbox)
      /\ Delivers(p) /\ cl' = cl
  BY DEF Takes
<1>3. Requests(Tail(outbox)) /\ IsRequest(p) /\ Listed(outbox)
  BY <1>1, <1>2, RequestsTail
<1> HIDE DEF p
<1>4. phase = "running" /\ req = <<>>
  BY <1>1, <1>2, NoneServed DEF Request
<1>5. CellsDistinct(heap)
  BY <1>1 DEF PairInv, Sound
<1>6. /\ Filed(transfers', theap')
      /\ \/ /\ ~(p[1] = "HELO" /\ fifo[p[3]] # "absent")
            /\ \E q : Gently(q)
         \/ p[1] = "HELO" /\ p[2] \in Nick /\ p[3] \in Path /\ HELO(p[2], p[3])
  BY <1>1, <1>2, <1>3, RequestHandled
<1>7. ASSUME ~(p[1] = "HELO" /\ fifo[p[3]] # "absent"), NEW q, Gently(q)
      PROVE  ChatInv'
  <2>1. PairInv' /\ Casts' /\ fifo' = fifo /\ Short(out')
    BY <1>7 DEF Gently
  <2>2. ASSUME NEW c \in Path, phase' = "running"
        PROVE  Session(cl[c], inbox'[c], outbox', req', heap', c)
    <3>1. req' = req /\ Mild(heap', out', q)
      BY <1>7, <2>2 DEF Gently
    <3>2. Fed(inbox[c], inbox'[c], out', c) /\ out' \in Seq(Written)
      BY <1>2, <2>1, Arrives
    <3>3. Session(cl[c], inbox[c], outbox, req, heap, c)
      BY <1>1, <1>4 DEF Sane
    <3>4. cl[c].phase = "running" => fifo[c] = "open"
      BY OpenIfRunning
    <3>5. CASE ~(p[1] = "HELO" /\ p[3] = c)
      <4>1. /\ NoHelo(outbox, c) => NoHelo(outbox', c)
            /\ \A n : OneHelo(outbox, n, c) => OneHelo(outbox', n, c)
        BY <1>2, <1>3, <3>5, HeloLeft DEF p
      <4>2. Session(cl[c], inbox'[c], outbox', req, heap', c)
        BY <1>1, <3>1, <3>2, <3>3, <3>4, <4>1, GentleSession
      <4> QED  BY <3>1, <4>2
    <3>6. CASE p[1] = "HELO" /\ p[3] = c
      <4>1. cl[c].phase # "running"
        BY <1>7, <3>6, OpenIfRunning
      <4>2. ~NoHelo(outbox, c)
        BY <1>2, <1>3, <3>6, HeloTaken DEF p
      <4>3. cl[c].phase # "off"
        BY <3>3, <4>2 DEF Session, Resting
      <4> QED  BY <4>1, <4>3, OpenIfRunning
    <3> QED  BY <3>5, <3>6
  <2>3. Requests(outbox')
    BY <1>2, <1>3
  <2> QED  BY <1>2, <1>6, <2>1, <2>2, <2>3, Serves1
<1>8. ASSUME p[1] = "HELO", p[2] \in Nick, p[3] \in Path, HELO(p[2], p[3])
      PROVE  ChatInv'
  <2>1. /\ PairInv' /\ Casts' /\ fifo' = fifo /\ Short(out')
        /\ phase' = "running" /\ heap' = heap /\ req' = <<p[2], p[3]>> /\ out' = <<>>
    BY <1>1, <1>8, HELOServed
  <2>2. ASSUME NEW c \in Path
        PROVE  Session(cl[c], inbox'[c], outbox', req', heap', c)
    <3>1. Session(cl[c], inbox[c], outbox, <<>>, heap, c)
      BY <1>1, <1>4 DEF Sane
    <3>2. Fed(inbox[c], inbox'[c], out', c)
      BY <1>2, <2>1, Arrives
    <3>3. \A k \in 1 .. Len(out') : out'[k].to # c
      BY <2>1, ShortCases
    <3>4. req' # <<>> /\ req'[1] = p[2] /\ req'[2] = p[3]
      BY <2>1
    <3>5. Session(cl[c], inbox[c], Tail(outbox), req', heap, c)
      BY <1>2, <1>3, <1>8, <3>1, <3>4, GreetedSession DEF p
    <3>6. Session(cl[c], inbox'[c], Tail(outbox), req', heap, c)
      BY <1>5, <3>2, <3>3, <3>5, SameSession
    <3> QED  BY <1>2, <2>1, <3>6
  <2>3. Requests(outbox')
    BY <1>2, <1>3
  <2> QED  BY <1>2, <1>6, <2>1, <2>2, <2>3, Serves1
<1> QED  BY <1>6, <1>7, <1>8

\* What was written to a client is among what is new in its FIFO.
LEMMA FedTold ==
  ASSUME NEW s, NEW t, NEW o, NEW c, Fed(s, t, o, c),
         NEW k \in 1 .. Len(o), o[k].to = c, o[k].data[1] # "FILE"
  PROVE  \E j \in Len(s) + 1 .. Len(t) : t[j] = o[k].data
BY DEF Fed

LEMMA RefuseOK ==
  ASSUME OneRegion, TwoPaths, ChatInv, Refuse, Filed(transfers', theap'), NEW p, Delivers(p),
         cl' = cl, outbox' = outbox
  PROVE  ChatInv'
<1>1. /\ PairInv /\ Requests(outbox) /\ \A c \in Path : Sane(c)
  BY DEF ChatInv
<1>2. /\ PairInv' /\ Casts' /\ fifo' = fifo /\ Short(out')
      /\ phase' = "running" =>
           /\ heap' = heap /\ req' = <<>>
           /\ fifo[req[2]] # "open" => out' = <<>>
           /\ fifo[req[2]] = "open" =>
                /\ Len(out') = 2
                /\ out'[1] = [to |-> req[2], data |-> <<"BADD">>]
                /\ out'[2] = [to |-> req[2], data |-> <<"BCST", "SERVER">>]
  BY <1>1, RefuseServed
<1>3. phase = "running" /\ pc = "opened" /\ req # <<>>
  BY <1>1, NoneServed DEF Refuse, PairInv, Inv, TypeOK
<1>4. CellsDistinct(heap)
  BY <1>1 DEF PairInv, Sound
<1>5. ASSUME NEW c \in Path, phase' = "running"
      PROVE  Session(cl[c], inbox'[c], outbox', req', heap', c)
  <2> DEFINE s == inbox[c]
             t == inbox'[c]
  <2>1. Session(cl[c], s, outbox, req, heap, c)
    BY <1>1, <1>3 DEF Sane
  <2>2. Fed(s, t, out', c)
    BY <1>2, Arrives
  <2> HIDE DEF s, t
  <2>3. CASE ~Serving(req, c)
    <3>1. req[2] # c
      BY <1>3, <2>3 DEF Serving
    <3>2. \A k \in 1 .. Len(out') : out'[k].to # c
      <4>1. CASE fifo[req[2]] # "open"
        BY <1>2, <1>5, <4>1, ShortCases
      <4>2. CASE fifo[req[2]] = "open"
        <5>1. Len(out') = 2 /\ out'[1].to = req[2] /\ out'[2].to = req[2]
          BY <1>2, <1>5, <4>2
        <5>2. \A k \in 1 .. Len(out') : k = 1 \/ k = 2
          BY <5>1
        <5> QED  BY <3>1, <5>1, <5>2
      <4> QED  BY <4>1, <4>2
    <3>3. Session(cl[c], t, outbox, req, heap, c)
      BY <1>4, <2>1, <2>2, <3>2, SameSession
    <3>4. ~Serving(<<>>, c)
      BY DEF Serving
    <3>5. Session(cl[c], t, outbox, <<>>, heap, c)
      BY <2>3, <3>3, <3>4, UnservedSession
    <3> QED  BY <1>2, <1>5, <3>5 DEF t
  <2>4. CASE Serving(req, c) /\ cl[c].phase = "running"
    <3>1. req[2] = c /\ fifo[c] = "open"
      BY <2>4, OpenIfRunning DEF Serving
    <3>2. Len(out') = 2 /\ out'[1] = [to |-> c, data |-> <<"BADD">>]
          /\ out'[2] = [to |-> c, data |-> <<"BCST", "SERVER">>]
      BY <1>2, <1>5, <3>1
    <3>3. /\ 1 \in 1 .. Len(out') /\ out'[1].to = c /\ out'[1].data = <<"BADD">>
          /\ out'[1].data[1] # "FILE" /\ out'[2].data[1] \notin Answer
      BY <3>2 DEF Answer
    <3>4. PICK k \in Len(s) + 1 .. Len(t) : t[k] = <<"BADD">>
      <4>1. \E k \in Len(s) + 1 .. Len(t) : t[k] = out'[1].data
        BY <2>2, <3>3, FedTold
      <4> QED  BY <3>3, <4>1
    <3>5. ASSUME NEW j \in Len(s) + 1 .. Len(t), t[j][1] \in Answer, j # k
          PROVE  FALSE
      <4>1. PICK a, b \in 1 .. Len(out') :
              /\ a # b /\ out'[a].to = c /\ out'[b].to = c
              /\ t[j][1] = out'[a].data[1] /\ t[k][1] = out'[b].data[1]
        BY <2>2, <3>5 DEF Fed
      <4>2. t[k][1] \in Answer
        BY <3>4 DEF Answer
      <4>3. (a = 1 /\ b = 2) \/ (a = 2 /\ b = 1)
        BY <3>2, <4>1
      <4> QED  BY <3>3, <3>5, <4>1, <4>2, <4>3
    <3>6. t[k][1] = "BADD"
      BY <3>4
    <3>7. Len(s) \in Nat /\ Len(t) \in Nat /\ Len(s) <= Len(t) /\ \A j \in 1 .. Len(s) : t[j] = s[j]
      BY <2>2 DEF Fed
    <3>8. Session(cl[c], t, outbox, <<>>, heap, c)
      BY <2>1, <2>4, <3>5, <3>6, <3>7, RefusedSession
    <3> QED  BY <1>2, <1>5, <3>8 DEF t
  <2>5. CASE Serving(req, c) /\ cl[c].phase # "running"
    <3>1. cl[c].phase # "off"
      BY <2>1, <2>5, ServedExpects
    <3> QED  BY <2>5, <3>1, OpenIfRunning
  <2> QED  BY <2>3, <2>4, <2>5
<1> QED  BY <1>1, <1>2, <1>5, Serves1

\* Two new packets are not the only one that was written.
LEMMA FedOnce ==
  ASSUME NEW s, NEW t, NEW o, NEW c, Fed(s, t, o, c), Len(o) = 1, o[1].data[1] # "FILE", o[1].to = c
  PROVE  \E k \in Len(s) + 1 .. Len(t) :
           t[k] = o[1].data /\ \A j \in Len(s) + 1 .. Len(t) : j = k
<1>1. 1 \in 1 .. Len(o) /\ \A a \in 1 .. Len(o) : a = 1
  OBVIOUS
<1>2. PICK k \in Len(s) + 1 .. Len(t) : t[k] = o[1].data
  BY <1>1, FedTold
<1>3. ASSUME NEW j \in Len(s) + 1 .. Len(t), j # k PROVE FALSE
  <2>1. \E a, b \in 1 .. Len(o) :
          /\ a # b /\ o[a].to = c /\ o[b].to = c
          /\ t[j][1] = o[a].data[1] /\ t[k][1] = o[b].data[1]
    BY <1>3 DEF Fed
  <2> QED  BY <1>1, <2>1
<1> QED  BY <1>2, <1>3

\* User new enters the table in cell a; what is new in a FIFO are the packets told to
\* the one with number n.
Enters(h, g, a, new) ==
  a \in Addr /\ h[a] = Freed /\ g[a] = new /\ \A b \in Addr : b # a => g[b] = h[b]

Hears(s, t, n) ==
  \/ n \notin Ids /\ \A j \in Len(s) + 1 .. Len(t) : t[j][1] \notin Answer
  \/ \E k \in Len(s) + 1 .. Len(t) :
       t[k] = <<"OKOK", n>> /\ \A j \in Len(s) + 1 .. Len(t) : t[j][1] \in Answer => j = k

LEMMA OtherEnters ==
  ASSUME NEW h, NEW g, NEW a, NEW new, Enters(h, g, a, new), NEW c, new.path # c,
         NEW r, NEW s, NEW o, NEW q, Session(r, s, o, q, h, c)
  PROVE  Session(r, s, o, q, g, c)
<1>1. a \in Addr /\ h[a] = Freed /\ g[a] = new /\ \A b \in Addr : b # a => g[b] = h[b]
  BY DEF Enters
<1> QED  BY <1>1, OtherRegistered

LEMMA RegisteredHere ==
  ASSUME NEW h, NEW g, NEW a, NEW new, Enters(h, g, a, new), new # Freed, NEW c,
         NEW r, r.phase = "running", NEW s, NEW o, NEW q, Serving(q, c),
         Session(r, s, o, q, h, c), NEW n \in Nat, new = [id |-> n, nick |-> q[1], path |-> q[2]],
         NEW t, Len(s) \in Nat /\ Len(t) \in Nat /\ Len(s) <= Len(t) /\ \A j \in 1 .. Len(s) : t[j] = s[j],
         Hears(s, t, n)
  PROVE  Session(r, t, o, <<>>, g, c)
<1>1. a \in Addr /\ h[a] = Freed /\ g[a] = new /\ \A b \in Addr : b # a => g[b] = h[b]
  BY DEF Enters
<1>2. \/ n \notin Ids /\ \A j \in Len(s) + 1 .. Len(t) : t[j][1] \notin Answer
      \/ \E k \in Len(s) + 1 .. Len(t) :
           t[k] = <<"OKOK", n>> /\ \A j \in Len(s) + 1 .. Len(t) : t[j][1] \in Answer => j = k
  BY DEF Hears
<1> QED  BY <1>1, <1>2, RegisteredSession

LEMMA RegisterOK ==
  ASSUME OneRegion, TwoPaths, ChatInv, NEW a \in Addr, Register(a), Filed(transfers', theap'),
         NEW p, Delivers(p), cl' = cl, outbox' = outbox
  PROVE  ChatInv'
<1>1. /\ PairInv /\ Requests(outbox) /\ \A c \in Path : Sane(c)
  BY DEF ChatInv
<1>2. /\ PairInv' /\ Casts' /\ fifo' = fifo /\ Short(out') /\ phase' = "running" /\ req' = <<>>
      /\ \/ heap' = heap /\ out' = <<>> /\ fifo[req[2]] # "open"
         \/ \E n \in Nat :
              LET new == [id |-> n, nick |-> req[1], path |-> req[2]]
              IN  /\ heap[a] = Freed /\ new \in User /\ heap' = [heap EXCEPT ![a] = new]
                  /\ n > MAX_NUM => out' = <<>>
                  /\ ~(n > MAX_NUM) =>
                       Len(out') = 1 /\ out'[1] = [to |-> req[2], data |-> <<"OKOK", n>>]
  BY <1>1, RegisterServed
<1>3. phase = "running" /\ pc = "opened" /\ req # <<>>
  BY <1>1, NoneServed DEF Register, PairInv, Inv, TypeOK
<1>4. CellsDistinct(heap) /\ CellsDistinct(heap') /\ heap \in Cells /\ ~Serving(<<>>, req[2])
  BY <1>1, <1>2 DEF PairInv, Sound, Serving
<1>5. ASSUME NEW c \in Path
      PROVE  Session(cl[c], inbox'[c], outbox', req', heap', c)
  <2> DEFINE s == inbox[c]
             t == inbox'[c]
  <2>1. Session(cl[c], s, outbox, req, heap, c)
    BY <1>1, <1>3 DEF Sane
  <2>2. Fed(s, t, out', c)
    BY <1>2, Arrives
  <2>3. Len(s) \in Nat /\ Len(t) \in Nat /\ Len(s) <= Len(t) /\ \A j \in 1 .. Len(s) : t[j] = s[j]
    BY <2>2 DEF Fed
  <2>4. ~Serving(<<>>, c)
    BY DEF Serving
  <2> HIDE DEF s, t
  <2>5. CASE cl[c].phase \notin {"off", "running"}
    BY <2>5, OpenIfRunning
  <2>6. CASE cl[c].phase = "off" /\ Serving(req, c)
    BY <2>1, <2>6, ServedExpects
  <2>7. ASSUME ~Serving(req, c) PROVE Session(cl[c], t, outbox, <<>>, heap', c)
    <3>1. req[2] # c
      BY <1>3, <2>7 DEF Serving
    <3>2. CASE heap' = heap /\ out' = <<>>
      <4>1. \A k \in 1 .. Len(out') : out'[k].to # c
        BY <3>2, ShortCases
      <4>2. Session(cl[c], t, outbox, req, heap, c)
        BY <1>4, <2>1, <2>2, <4>1, SameSession
      <4> QED  BY <2>4, <2>7, <3>2, <4>2, UnservedSession
    <3>3. ASSUME NEW n \in Nat, NEW new, new = [id |-> n, nick |-> req[1], path |-> req[2]],
                 heap[a] = Freed, new \in User, heap' = [heap EXCEPT ![a] = new],
                 n > MAX_NUM => out' = <<>>,
                 ~(n > MAX_NUM) =>
                   Len(out') = 1 /\ out'[1] = [to |-> req[2], data |-> <<"OKOK", n>>]
          PROVE  Session(cl[c], t, outbox, <<>>, heap', c)
      <4>1. \A k \in 1 .. Len(out') : out'[k].to # c
        <5>1. CASE n > MAX_NUM
          BY <3>3, <5>1, ShortCases
        <5>2. CASE ~(n > MAX_NUM)
          <6>1. Len(out') = 1 /\ out'[1] = [to |-> req[2], data |-> <<"OKOK", n>>]
            BY <3>3, <5>2
          <6>2. out'[1].to = req[2] /\ \A k \in 1 .. Len(out') : k = 1
            BY <6>1
          <6> QED  BY <3>1, <6>2
        <5> QED  BY <5>1, <5>2
      <4>2. Session(cl[c], t, outbox, req, heap, c)
        BY <1>4, <2>1, <2>2, <4>1, SameSession
      <4>3. new.path # c /\ Enters(heap, heap', a, new)
        BY <1>4, <3>1, <3>3 DEF Cells, Enters
      <4>4. Session(cl[c], t, outbox, req, heap', c)
        BY <4>2, <4>3, OtherEnters
      <4> QED  BY <2>4, <2>7, <4>4, UnservedSession
    <3> QED  BY <1>2, <3>2, <3>3
  <2>8. ASSUME Serving(req, c), cl[c].phase = "running"
        PROVE  Session(cl[c], t, outbox, <<>>, heap', c)
    <3>1. req[2] = c /\ fifo[c] = "open"
      BY <2>8, OpenIfRunning DEF Serving
    <3>2. PICK n \in Nat :
            LET new == [id |-> n, nick |-> req[1], path |-> req[2]]
            IN  /\ heap[a] = Freed /\ new \in User /\ heap' = [heap EXCEPT ![a] = new]
                /\ n > MAX_NUM => out' = <<>>
                /\ ~(n > MAX_NUM) =>
                     Len(out') = 1 /\ out'[1] = [to |-> req[2], data |-> <<"OKOK", n>>]
      BY <1>2, <3>1
    <3> DEFINE new == [id |-> n, nick |-> req[1], path |-> req[2]]
    <3>3. /\ heap[a] = Freed /\ new \in User /\ new # Freed
          /\ Enters(heap, heap', a, new)
      BY <1>4, <3>2, ServerAssumption DEF Cells, Enters
    <3>4. Hears(s, t, n)
      <4>1. CASE n > MAX_NUM
        <5>1. n \notin Ids /\ Len(out') = 0
          BY <3>2, <4>1, ServerAssumption DEF Ids
        <5>2. \A j \in Len(s) + 1 .. Len(t) : FALSE
          BY <2>2, <5>1 DEF Fed
        <5> QED  BY <5>1, <5>2 DEF Hears
      <4>2. CASE ~(n > MAX_NUM)
        <5>1. Len(out') = 1 /\ out'[1] = [to |-> c, data |-> <<"OKOK", n>>]
          BY <3>1, <3>2, <4>2
        <5>2. out'[1].to = c /\ out'[1].data = <<"OKOK", n>> /\ out'[1].data[1] # "FILE"
          BY <5>1
        <5>3. PICK k \in Len(s) + 1 .. Len(t) :
                t[k] = out'[1].data /\ \A j \in Len(s) + 1 .. Len(t) : j = k
          BY <2>2, <5>1, <5>2, FedOnce
        <5> QED  BY <5>2, <5>3 DEF Hears
      <4> QED  BY <4>1, <4>2
    <3>5. new = [id |-> n, nick |-> req[1], path |-> req[2]]
      OBVIOUS
    <3> HIDE DEF new
    <3>6. Session(cl[c], t, outbox, <<>>, heap', c)
      BY <2>1, <2>3, <2>8, <3>3, <3>4, <3>5, RegisteredHere
    <3> QED  BY <3>6
  <2>9. Session(cl[c], t, outbox, <<>>, heap', c) => Session(cl[c], inbox'[c], outbox', req', heap', c)
    BY <1>2 DEF t
  <2> QED  BY <2>5, <2>6, <2>7, <2>8, <2>9
<1> QED  BY <1>1, <1>2, <1>5, Serves1

LEMMA GoesOnOK ==
  ASSUME OneRegion, TwoPaths, ChatInv, GoesOn
  PROVE  ChatInv'
<1>1. /\ PairInv /\ Casts /\ Filed(transfers, theap) /\ Requests(outbox)
      /\ \A c \in Path : Sane(c)
  BY DEF ChatInv
<1>2. Delivers(<<>>) /\ cl' = cl /\ outbox' = outbox
  BY DEF GoesOn
<1>3. Filed(transfers', theap') /\ ((\E q : Gently(q)) \/ Refuse \/ \E a \in Addr : Register(a))
  BY <1>1, GoneOn
<1>4. phase = "running"
  <2>1. pc # "idle"
    BY DEF GoesOn, OpenReturns, Refuse, Register, Broadcasting, Broadcast, BroadcastEnds, ListOne, ListEnds
  <2> QED  BY <1>1, <2>1, NoneServed
<1>5. ASSUME NEW q, Gently(q) PROVE ChatInv'
  <2>1. PairInv' /\ Casts' /\ fifo' = fifo /\ Short(out')
    BY <1>5 DEF Gently
  <2>2. ASSUME NEW c \in Path, phase' = "running"
        PROVE  Session(cl[c], inbox'[c], outbox', req', heap', c)
    <3>1. req' = req /\ Mild(heap', out', q)
      BY <1>5, <2>2 DEF Gently
    <3>2. Fed(inbox[c], inbox'[c], out', c) /\ out' \in Seq(Written)
      BY <1>2, <2>1, Arrives
    <3>3. Session(cl[c], inbox[c], outbox, req, heap, c)
      BY <1>1, <1>4 DEF Sane
    <3>4. cl[c].phase = "running" => fifo[c] = "open"
      BY OpenIfRunning
    <3>5. Session(cl[c], inbox'[c], outbox, req, heap', c)
      BY <1>1, <3>1, <3>2, <3>3, <3>4, GentleSession
    <3> QED  BY <1>2, <3>1, <3>5
  <2> QED  BY <1>1, <1>2, <1>3, <2>1, <2>2, Serves1
<1>6. CASE Refuse
  BY <1>2, <1>3, <1>6, RefuseOK
<1>7. ASSUME NEW a \in Addr, Register(a) PROVE ChatInv'
  BY <1>2, <1>3, <1>7, RegisterOK
<1> QED  BY <1>3, <1>5, <1>6, <1>7

LEMMA ServerStepOK == ASSUME OneRegion, TwoPaths, ChatInv, ServerStep PROVE ChatInv'
BY TakesOK, GoesOnOK DEF ServerStep

-----------------------------------------------------------------------------
(* The steps of a client.                                                   *)

\* What is beside a client's step leaves the server as it is.
LEMMA BesideServer ==
  ASSUME ChatInv, NEW c \in Path, Beside(c),
         cl'[c].phase \in {"off", "running", "exited", "undefined"}
  PROVE  /\ PairInv' /\ Casts' /\ Filed(transfers', theap')
         /\ phase' = phase /\ heap' = heap /\ req' = req
         /\ fifo'[c] = FifoOf(cl'[c]) /\ \A e \in Path : e # c => fifo'[e] = fifo[e]
<1>1. PairInv /\ Casts /\ Filed(transfers, theap)
  BY DEF ChatInv
<1>2. /\ phase' = phase /\ users' = users /\ heap' = heap /\ pc' = pc /\ req' = req /\ d' = d
      /\ i' = i /\ u' = u /\ got' = got /\ transfers' = transfers /\ theap' = theap
      /\ fifo' = [fifo EXCEPT ![c] = FifoOf(cl'[c])] /\ out' = <<>>
  BY DEF Beside, relay
<1>3. TypeOK
  BY <1>1 DEF PairInv, Inv
<1>4. FifoOf(cl'[c]) \in {"absent", "idle", "open"}
  BY DEF FifoOf
<1>5. fifo' \in [Path -> {"absent", "idle", "open"}]
  BY <1>2, <1>3, <1>4 DEF TypeOK
<1>6. out' \in Seq([to : Path, data : Packet])
  BY <1>2
<1>7. TypeOK'
  BY <1>2, <1>3, <1>5, <1>6 DEF TypeOK
<1>8. Inv'
  BY <1>1, <1>2, <1>7 DEF PairInv, Inv
<1>9. PairInv'
  BY <1>1, <1>2, <1>8 DEF PairInv, BroadcastsOther, Halted, Listening, Live
<1>10. Casts' /\ Filed(transfers', theap')
  BY <1>1, <1>2 DEF Casts
<1>11. fifo'[c] = FifoOf(cl'[c]) /\ \A e \in Path : e # c => fifo'[e] = fifo[e]
  BY <1>2, <1>3 DEF TypeOK
<1> QED  BY <1>2, <1>9, <1>10, <1>11

\* A client whose handler leaves x, with s in its FIFO.
LEMMA ClientGoes ==
  ASSUME ChatInv, NEW c \in Path, Beside(c), NEW x, Fit(x), x.phase # "off", OwnRequests(x.sent, c), C!Steps(c, x),
         NEW s, Listed(s), FitIds(s), inbox' = [inbox EXCEPT ![c] = s],
         phase = "running" => Session(x, s, outbox \o x.sent, req, heap, c)
  PROVE  ChatInv'
<1> DEFINE y == [x EXCEPT !.sent = <<>>]
<1>1. /\ Requests(outbox) /\ \A e \in Path : Sane(e)
      /\ cl = [e \in Path |-> cl[e]] /\ inbox = [e \in Path |-> inbox[e]]
  BY DEF ChatInv
<1>2. cl' = [cl EXCEPT ![c] = y] /\ outbox' = outbox \o x.sent
  BY DEF C!Steps
<1>3. /\ Fit(y) /\ y.sent = <<>> /\ y.phase = x.phase
      /\ \A t, o, q, h, e : Session(x, t, o, q, h, e) => Session(y, t, o, q, h, e)
  BY SentOut
<1> HIDE DEF y
<1>4. cl'[c] = y /\ \A e \in Path : e # c => cl'[e] = cl[e]
  BY <1>1, <1>2
<1>5. inbox'[c] = s /\ \A e \in Path : e # c => inbox'[e] = inbox[e]
  BY <1>1
<1>6. cl' = [e \in Path |-> cl'[e]] /\ inbox' = [e \in Path |-> inbox'[e]]
  BY <1>1, <1>2
<1>7. /\ PairInv' /\ Casts' /\ Filed(transfers', theap')
      /\ phase' = phase /\ heap' = heap /\ req' = req
      /\ fifo'[c] = FifoOf(cl'[c]) /\ \A e \in Path : e # c => fifo'[e] = fifo[e]
  <2>1. cl'[c].phase \in {"off", "running", "exited", "undefined"}
    BY <1>3, <1>4 DEF Fit
  <2> QED  BY <2>1, BesideServer
<1>8. Requests(x.sent) /\ \A k \in 1 .. Len(x.sent) : x.sent[k][1] = "HELO" => x.sent[k][3] = c
  BY DEF OwnRequests
<1>9. Requests(outbox')
  <2>1. Requests(outbox \o x.sent)
    BY <1>1, <1>8, RequestsCat
  <2> QED  BY <1>2, <2>1
<1>10. Sane(c)'
  <2>1. Fit(cl'[c]) /\ cl'[c].sent = <<>> /\ fifo'[c] = FifoOf(cl'[c])
        /\ Listed(inbox'[c]) /\ FitIds(inbox'[c]) /\ cl'[c].phase # "off"
    BY <1>3, <1>4, <1>5, <1>7
  <2>2. ASSUME phase' = "running" PROVE Session(cl'[c], inbox'[c], outbox', req', heap', c)
    <3>1. Session(x, s, outbox \o x.sent, req, heap, c)
      BY <1>7, <2>2
    <3>2. Session(y, s, outbox \o x.sent, req, heap, c)
      BY <1>3, <3>1
    <3> QED  BY <1>2, <1>4, <1>5, <1>7, <3>2
  <2> QED  BY <2>1, <2>2 DEF Sane
<1>11. ASSUME NEW e \in Path, e # c PROVE Sane(e)'
  <2>1. /\ Fit(cl[e]) /\ cl[e].sent = <<>> /\ fifo[e] = FifoOf(cl[e])
        /\ Listed(inbox[e]) /\ FitIds(inbox[e]) /\ (cl[e].phase = "off" => cl[e].has_id = FALSE)
        /\ phase = "running" => Session(cl[e], inbox[e], outbox, req, heap, e)
    BY <1>1 DEF Sane
  <2>2. cl'[e] = cl[e] /\ inbox'[e] = inbox[e] /\ fifo'[e] = fifo[e]
    BY <1>4, <1>5, <1>7, <1>11
  <2>3. \A k \in 1 .. Len(x.sent) : x.sent[k][1] = "HELO" => x.sent[k][3] # e
    BY <1>8, <1>11
  <2>4. /\ NoHelo(outbox, e) => NoHelo(outbox', e)
        /\ \A n : OneHelo(outbox, n, e) => OneHelo(outbox', n, e)
    BY <1>1, <1>2, <1>8, <2>3, HeloKept
  <2>5. ASSUME phase = "running" PROVE Session(cl[e], inbox[e], outbox', req, heap, e)
    <3>1. Session(cl[e], inbox[e], outbox, req, heap, e)
      BY <2>1, <2>5
    <3> QED  BY <2>4, <3>1, OtherSent
  <2> QED  BY <1>7, <2>1, <2>2, <2>5 DEF Sane
<1>12. \A e \in Path : Sane(e)'
  BY <1>10, <1>11
<1> QED  BY <1>6, <1>7, <1>9, <1>12 DEF ChatInv

LEMMA QuietOwn == ASSUME NEW o, Quiet(o), NEW c PROVE OwnRequests(o, c)
BY DEF Quiet, OwnRequests

LEMMA GreetsOwn == ASSUME NEW c, NEW r, NEW x, Greets(c, r, x) PROVE OwnRequests(x.sent, c)
<1>1. Requests(x.sent) /\ Len(x.sent) = 1 /\ x.sent[1][3] = c
  BY DEF Greets
<1>2. \A k \in 1 .. Len(x.sent) : k = 1
  BY <1>1
<1> QED  BY <1>1, <1>2 DEF OwnRequests

\* What does not touch its FIFO.
LEMMA ClientWrites ==
  ASSUME ChatInv, NEW c \in Path, Beside(c), NEW x, Fit(x), x.phase # "off", OwnRequests(x.sent, c), C!Steps(c, x),
         UNCHANGED inbox, phase = "running" => Session(x, inbox[c], outbox \o x.sent, req, heap, c)
  PROVE  ChatInv'
<1>1. Listed(inbox[c]) /\ FitIds(inbox[c]) /\ inbox = [e \in Path |-> inbox[e]]
  BY DEF ChatInv, Sane
<1>2. inbox' = [inbox EXCEPT ![c] = inbox[c]]
  BY <1>1
<1> QED  BY <1>1, <1>2, ClientGoes

LEMMA StartOK ==
  ASSUME ChatInv, NEW c \in Path, C!Start(c), Beside(c)
  PROVE  ChatInv'
<1>1. /\ Fit(cl[c]) /\ cl[c].sent = <<>> /\ Requests(outbox) /\ cl[c].phase = "off"
      /\ cl[c].has_id = FALSE
      /\ phase = "running" => Session(cl[c], inbox[c], outbox, req, heap, c)
  BY DEF ChatInv, Sane, C!Start
<1>2. PICK nick \in Nick \cup {Null}, no_wait \in NoWait :
        LET r == [cl[c] EXCEPT !.phase = "running", !.nick = nick, !.no_wait = no_wait]
        IN  C!Steps(c, IF nick = Null THEN r ELSE C!Asks(C!req_client_HELO(r, c)))
  BY DEF C!Start
<1> DEFINE r == [cl[c] EXCEPT !.phase = "running", !.nick = nick, !.no_wait = no_wait]
           x == IF nick = Null THEN r ELSE C!Asks(C!req_client_HELO(r, c))
<1>3. C!Steps(c, x) /\ UNCHANGED inbox
  BY <1>2 DEF C!Start
<1>5. Idles(cl[c], x) \/ Greets(c, cl[c], x)
  BY <1>1, Started
<1> HIDE DEF x
<1>6. Fit(x) /\ x.phase # "off" /\ OwnRequests(x.sent, c)
  <2>1. CASE Idles(cl[c], x)
    BY <2>1, QuietOwn DEF Idles
  <2>2. CASE Greets(c, cl[c], x)
    BY <2>2, GreetsOwn DEF Greets
  <2> QED  BY <1>5, <2>1, <2>2
<1>7. ASSUME phase = "running" PROVE Session(x, inbox[c], outbox \o x.sent, req, heap, c)
  BY <1>1, <1>5, <1>7, IdlesSession, GreetsSession
<1> QED  BY <1>3, <1>6, <1>7, ClientWrites

LEMMA TypesOK ==
  ASSUME ChatInv, NEW c \in Path, C!Types(c), Beside(c)
  PROVE  ChatInv'
<1>1. /\ Fit(cl[c]) /\ cl[c].sent = <<>> /\ Requests(outbox) /\ cl[c].phase = "running"
      /\ phase = "running" => Session(cl[c], inbox[c], outbox, req, heap, c)
  BY DEF ChatInv, Sane, C!Types, C!Running
<1>2. PICK l \in Lines : C!Steps(c, C!input_handler(cl[c], c, l))
  BY DEF C!Types
<1>3. UNCHANGED inbox /\ l \in C!Line
  BY <1>2, ChatAssumption DEF C!Types
<1> DEFINE x == C!input_handler(cl[c], c, l)
<1>4. RunsOn(cl[c], x) \/ (~cl[c].has_id /\ Greets(c, cl[c], x))
  BY <1>1, <1>3, LineTyped
<1>5. C!Steps(c, x)
  BY <1>2
<1> HIDE DEF x
<1>6. Fit(x) /\ x.phase # "off" /\ OwnRequests(x.sent, c)
  <2>1. CASE RunsOn(cl[c], x)
    BY <2>1, QuietOwn DEF RunsOn
  <2>2. CASE Greets(c, cl[c], x)
    BY <2>2, GreetsOwn DEF Greets
  <2> QED  BY <1>4, <2>1, <2>2
<1>7. ASSUME phase = "running" PROVE Session(x, inbox[c], outbox \o x.sent, req, heap, c)
  <2>1. Session(cl[c], inbox[c], outbox, req, heap, c)
    BY <1>1, <1>7
  <2>2. CASE RunsOn(cl[c], x)
    BY <1>1, <2>1, <2>2, TypedOn
  <2>3. CASE ~cl[c].has_id /\ Greets(c, cl[c], x)
    BY <1>1, <2>1, <2>3, GreetsSession
  <2> QED  BY <1>4, <2>2, <2>3
<1> QED  BY <1>3, <1>5, <1>6, <1>7, ClientWrites

LEMMA CtrlDOK ==
  ASSUME ChatInv, NEW c \in Path, C!CtrlD(c), Beside(c)
  PROVE  ChatInv'
<1>1. /\ Fit(cl[c]) /\ cl[c].sent = <<>> /\ Requests(outbox) /\ cl[c].phase = "running"
      /\ phase = "running" => Session(cl[c], inbox[c], outbox, req, heap, c)
  BY DEF ChatInv, Sane, C!CtrlD, C!Running
<1> DEFINE x == C!Exits(C!WritesAs(cl[c], "BYEE", <<>>))
<1>2. C!Steps(c, x) /\ UNCHANGED inbox
  BY DEF C!CtrlD
<1>3. RunsOn(cl[c], x)
  BY <1>1, Interrupted
<1> HIDE DEF x
<1>4. Fit(x) /\ x.phase # "off" /\ OwnRequests(x.sent, c)
  BY <1>3, QuietOwn DEF RunsOn
<1>5. ASSUME phase = "running" PROVE Session(x, inbox[c], outbox \o x.sent, req, heap, c)
  <2>1. Session(cl[c], inbox[c], outbox, req, heap, c)
    BY <1>1, <1>5
  <2> QED  BY <1>1, <1>3, <2>1, TypedOn
<1> QED  BY <1>2, <1>4, <1>5, ClientWrites

LEMMA ReadsOK ==
  ASSUME ChatInv, NEW c \in Path, C!Reads(c), Beside(c)
  PROVE  ChatInv'
<1> DEFINE s == inbox[c]
           r == cl[c]
           p == Head(s)
<1>1. /\ Fit(r) /\ r.sent = <<>> /\ Requests(outbox) /\ r.phase = "running"
      /\ Listed(s) /\ FitIds(s) /\ s # <<>>
      /\ phase = "running" => Session(r, s, outbox, req, heap, c)
  BY DEF ChatInv, Sane, C!Reads, C!Running
<1>2. PICK x \in C!process_packet(r, p) : C!Steps(c, x)
  BY DEF C!Reads
<1>3. inbox' = [inbox EXCEPT ![c] = Tail(s)]
  <2>1. inbox = [e \in Path |-> inbox[e]] /\ inbox' = [inbox EXCEPT ![c] = Tail(inbox[c])]
    BY DEF ChatInv, C!Reads
  <2> QED  BY <2>1
<1> HIDE DEF s, r, p
<1>4. /\ Listed(Tail(s)) /\ Len(s) \in Nat /\ Len(s) >= 1 /\ Len(Tail(s)) = Len(s) - 1
      /\ \A k \in 1 .. Len(Tail(s)) : Tail(s)[k] = s[k + 1]
      /\ p = s[1]
  BY <1>1, TailOf DEF p
<1>5. FitIds(Tail(s)) /\ (p[1] = "OKOK" => p[2] \in Ids)
  <2>1. \A k \in 1 .. Len(s) : s[k][1] = "OKOK" => s[k][2] \in Ids
    BY <1>1 DEF FitIds
  <2>2. ASSUME NEW k \in 1 .. Len(Tail(s)) PROVE k + 1 \in 1 .. Len(s) /\ Tail(s)[k] = s[k + 1]
    BY <1>4
  <2>3. 1 \in 1 .. Len(s)
    BY <1>4
  <2> QED  BY <1>4, <2>1, <2>2, <2>3 DEF FitIds
<1>6. Quiet(r.sent)
  BY <1>1, QuietNone
<1>7. \/ /\ RunsOn(r, x)
         /\ p[1] \in Answer => r.has_id
         /\ p[1] = "BYEE" /\ p[2] = r.id => x.phase # "running"
      \/ ~r.has_id /\ p[1] = "OKOK" /\ GivenId(r, x, p[2])
      \/ ~r.has_id /\ p[1] = "BADD" /\ TurnedAway(r, x)
  BY <1>1, <1>2, <1>5, <1>6, PacketRead
<1>8. Fit(x) /\ x.phase # "off" /\ Quiet(x.sent)
  BY <1>7 DEF RunsOn, GivenId, TurnedAway
<1>9. OwnRequests(x.sent, c)
  BY <1>8, QuietOwn
<1>10. ASSUME phase = "running" PROVE Session(x, Tail(s), outbox \o x.sent, req, heap, c)
  <2>1. Session(r, s, outbox, req, heap, c)
    BY <1>1, <1>10
  <2>2. CASE /\ RunsOn(r, x)
             /\ p[1] \in Answer => r.has_id
             /\ p[1] = "BYEE" /\ p[2] = r.id => x.phase # "running"
    BY <1>1, <2>1, <2>2, ReadOn DEF p
  <2>3. CASE ~r.has_id /\ p[1] = "OKOK" /\ GivenId(r, x, p[2])
    <3>1. /\ Head(s)[1] = "OKOK" /\ x.has_id /\ x.id = Head(s)[2] /\ x.phase = "running"
          /\ "hasty" \in r.blame => "hasty" \in x.blame
          /\ x.nick = r.nick
      BY <2>3 DEF GivenId, p
    <3> QED  BY <1>1, <1>8, <2>1, <2>3, <3>1, ReadAnswer
  <2>4. CASE ~r.has_id /\ p[1] = "BADD" /\ TurnedAway(r, x)
    <3>1. /\ Head(s)[1] = "BADD" /\ ~x.has_id /\ (r.waiting = 1 => x.waiting = 0) /\ x.phase = "running"
          /\ "hasty" \in r.blame => "hasty" \in x.blame
          /\ x.nick = r.nick
      BY <2>4 DEF TurnedAway, p
    <3> QED  BY <1>1, <1>8, <2>1, <2>4, <3>1, ReadAnswer
  <2> QED  BY <1>7, <2>2, <2>3, <2>4
<1> QED  BY <1>2, <1>3, <1>4, <1>5, <1>8, <1>9, <1>10, ClientGoes

-----------------------------------------------------------------------------
(* The invariant, and what it says of the sessions.                         *)

LEMMA ChatNextInv ==
  ASSUME OneRegion, TwoPaths, ChatInv, [ChatNext]_chat
  PROVE  ChatInv'
<1>1. CASE ServerStep
  BY <1>1, ServerStepOK
<1>2. ASSUME NEW c \in Path, ClientStep(c) PROVE ChatInv'
  BY <1>2, StartOK, ReadsOK, TypesOK, CtrlDOK DEF ClientStep
<1>3. CASE UNCHANGED chat
  <2>1. /\ phase' = phase /\ users' = users /\ heap' = heap /\ pc' = pc /\ req' = req /\ d' = d
        /\ i' = i /\ u' = u /\ got' = got /\ transfers' = transfers /\ theap' = theap
        /\ fifo' = fifo /\ out' = out /\ cl' = cl /\ inbox' = inbox /\ outbox' = outbox
    BY <1>3 DEF chat, vars, relay
  <2>2. PairInv'
    BY <2>1 DEF ChatInv, PairInv, Inv, TypeOK, BroadcastsOther, Halted, Listening, Live
  <2>3. \A c \in Path : Sane(c)'
    BY <2>1 DEF ChatInv, Sane
  <2> QED  BY <2>1, <2>2, <2>3 DEF ChatInv, Casts
<1> QED  BY <1>1, <1>2, <1>3 DEF ChatNext

\* A client that has not been started.
LEMMA NotStarted ==
  /\ Fit(C!client_init) /\ C!client_init.sent = <<>> /\ C!client_init.phase = "off"
  /\ C!client_init.has_id = FALSE /\ C!client_init.waiting = 0
BY DEF C!client_init, Fit, Fields

LEMMA ChatInitInv ==
  ASSUME ChatInit
  PROVE  ChatInv
<1>1. RelayInit /\ C!Init
  BY DEF ChatInit
<1>2. /\ Init /\ transfers = <<>> /\ theap = [a \in Addr |-> Freed]
      /\ cl = [c \in Path |-> C!client_init] /\ inbox = [c \in Path |-> <<>>] /\ outbox = <<>>
  BY <1>1 DEF RelayInit, C!Init
<1>3. PairInv
  BY <1>2, PairInit DEF PairSafe
<1>4. /\ fifo = [c \in Path |-> "absent"] /\ req = <<>> /\ d = NODATA
      /\ heap = [a \in Addr |-> Freed]
  BY <1>2 DEF Init
<1>5. Casts
  BY <1>4 DEF Casts
<1>6. Filed(transfers, theap)
  <2>1. theap \in TCells
    BY <1>2 DEF TCells
  <2>2. HeldBy(<<>>, theap) = theap
    BY <1>2 DEF HeldBy
  <2> QED  BY <1>2, <2>1, <2>2, FiledNone
<1>7. Requests(<<>>) /\ Len(<<>>) = 0
  BY QuietNone DEF Quiet
<1>8. Listed(<<>>)
  <2>1. <<>> \in Seq({})
    OBVIOUS
  <2> QED  BY <2>1 DEF Listed
<1>9. FitIds(<<>>)
  BY <1>7 DEF FitIds
<1>10. \A a : ~Live(heap, a)
  BY <1>4 DEF Live
<1>11. ASSUME NEW c \in Path PROVE Sane(c)
  <2>1. cl[c] = C!client_init /\ inbox[c] = <<>> /\ fifo[c] = "absent"
    BY <1>2, <1>4
  <2>2. Resting(0, <<>>, <<>>, <<>>, heap, c)
    BY <1>7, <1>10 DEF Resting, NoHelo, Serving, Unknown, Unanswered
  <2>3. Session(cl[c], <<>>, <<>>, <<>>, heap, c)
    BY <2>1, <2>2, NotStarted DEF Session
  <2>4. FifoOf(cl[c]) = "absent"
    BY <2>1, NotStarted DEF FifoOf
  <2> QED  BY <1>2, <1>4, <1>8, <1>9, <2>1, <2>3, <2>4, NotStarted DEF Sane
<1>12. cl = [c \in Path |-> cl[c]] /\ inbox = [c \in Path |-> inbox[c]]
  BY <1>2
<1> QED  BY <1>2, <1>3, <1>5, <1>6, <1>7, <1>11, <1>12 DEF ChatInv

LEMMA ChatInvAgrees ==
  ASSUME ChatInv
  PROVE  SessionAgrees
<1> SUFFICES ASSUME phase = "running", NEW c \in Path, Connected(c), ~Hasty(c)
             PROVE  \/ Registered(c, cl[c].id, cl[c].nick)
                    \/ Contains(inbox[c], <<"BYEE", cl[c].id>>)
  BY DEF SessionAgrees
<1> DEFINE s == inbox[c]
           id == cl[c].id
           n == cl[c].nick
<1>1. Here(id, n, s, 0, heap, c)
  BY DEF ChatInv, Sane, Session, Connected, Hasty
<1>2. Sound(users, heap)
  BY DEF ChatInv, PairInv
<1> HIDE DEF s, id, n
<1>3. CASE \E a \in Addr : Live(heap, a) /\ heap[a].id = id /\ heap[a].nick = n /\ heap[a].path = c
  <2>1. PICK a \in Addr : Live(heap, a) /\ heap[a].id = id /\ heap[a].nick = n /\ heap[a].path = c
    BY <1>3
  <2>2. PICK k \in 1 .. Len(users) : users[k] = a
    BY <1>2, <2>1 DEF Sound
  <2>3. a \in Online
    <3>1. DOMAIN users = 1 .. Len(users)
      BY <1>2 DEF Sound
    <3> QED  BY <2>1, <2>2, <3>1 DEF Online, Range
  <2>4. heap[a] \in User
    BY <1>2, <2>1 DEF Sound, Cells, Live
  <2>5. heap[a] = [id |-> id, nick |-> n, path |-> c]
    BY <2>1, <2>4 DEF User
  <2> QED  BY <2>3, <2>5 DEF Registered, id, n
<1>4. CASE \E m \in 1 .. Len(s) : m > 0 /\ s[m] = <<"BYEE", id>>
  <2>1. Contains(s, <<"BYEE", id>>)
    BY <1>4 DEF Contains
  <2> QED  BY <2>1 DEF s, id
<1> QED  BY <1>1, <1>3, <1>4 DEF Here

\* With two clients, one that waited for the answer to its first /nick and believes it is
\* connected is registered under its id and its nick, whatever the two and the server do in
\* between, or the BYEE that ends it is in its FIFO.
THEOREM SessionsAgree ==
  ASSUME OneRegion, TwoPaths
  PROVE  ChatSpec => []SessionAgrees
<1>1. ChatInit => ChatInv
  BY ChatInitInv
<1>2. ChatInv /\ [ChatNext]_chat => ChatInv'
  BY ChatNextInv
<1>3. ChatInv => SessionAgrees
  BY ChatInvAgrees
<1> QED  BY <1>1, <1>2, <1>3, PTL DEF ChatSpec
=============================================================================
