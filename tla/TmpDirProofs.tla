----------------------------- MODULE TmpDirProofs -----------------------------
(***************************************************************************)
(* Any number of servers and clients share the directory without touching  *)
(* what is not theirs (TmpDir.tla).  A process knows its entries only by   *)
(* name; that the name still means what it made has to be part of the      *)
(* invariant, for the file until unlink, for the FIFO from mkfifo on, and  *)
(* for the link as long as symlink_created is set.                         *)
(***************************************************************************)
EXTENDS TmpDir, TLAPS

File(p) == [kind |-> "file", by |-> p]
Fifo(p) == [kind |-> "fifo", by |-> p]
Link(p) == [kind |-> "link", by |-> p]

Early == {"lookup", "wait", "mkdir", "unlink", "mkfifo"}
Before == Early \cup {"mkstemp", "open", "symlink"}
Has == {"open", "symlink", "running", "unlink_path"}
Linked == {"running", "unlink_path", "unlink_link"}

\* What a process may believe of the directory, at each of its calls.
Own(p) ==
  /\ pc[p] = "unlink" => entry[path[p]] = File(p)
  /\ pc[p] \in Has => dir /\ entry[path[p]] = Fifo(p)
  /\ pc[p] \in Linked /\ symlink_created[p] => entry[LINK] = Link(p)

\* Where it can be in its program.
Control(p) ==
  /\ pc[p] \in Has \cup {"unlink", "mkfifo"} => path[p] \in Name
  /\ pc[p] \in Before => ~symlink_created[p]
  /\ pc[p] \in Early => i[p] = 0
  /\ pc[p] = "mkstemp" /\ path[p] = None => i[p] = 0
  /\ pc[p] = "symlink" \/ symlink_created[p] => p \in Server
  /\ pc[p] \in {"lookup", "wait", "mkdir"} => path[p] = None

\* A directory that is gone holds nothing, and the link leads to a name.
Directory ==
  /\ ~dir => Empty
  /\ entry[LINK] # None => path[entry[LINK].by] # None

IInv ==
  /\ TypeOK
  /\ Directory
  /\ \A p \in Process : Own(p) /\ Control(p)

\* All that a step of q does to what the others rely on.
OnlyOwn(q) ==
  /\ \A p \in Process \ {q} :
       /\ pc'[p] = pc[p]
       /\ path'[p] = path[p]
       /\ i'[p] = i[p]
       /\ symlink_created'[p] = symlink_created[p]
  /\ \A x \in Name \cup {LINK} :
       entry'[x] = entry[x] \/ entry[x] = None \/ entry[x].by = q
  /\ dir /\ ~dir' => Empty

-----------------------------------------------------------------------------
LEMMA EntryFacts ==
  ASSUME NEW p \in Process
  PROVE  /\ File(p) \in Entry /\ Fifo(p) \in Entry /\ Link(p) \in Entry
         /\ File(p) # None /\ Fifo(p) # None /\ Link(p) # None
         /\ File(p).by = p /\ Fifo(p).by = p /\ Link(p).by = p
<1>1. File(p) \in Entry /\ Fifo(p) \in Entry /\ Link(p) \in Entry
  BY DEF Entry, File, Fifo, Link
<1>2. File(p).by = p /\ Fifo(p).by = p /\ Link(p).by = p
  BY DEF File, Fifo, Link
<1> QED
  BY <1>1, <1>2, TmpDirAssumption

LEMMA InitInv == Init => IInv
<1> SUFFICES ASSUME Init PROVE IInv
  OBVIOUS
<1>1. TypeOK
  <2>1. dir \in BOOLEAN /\ entry \in [Name \cup {LINK} -> Entry \cup {None}]
    BY DEF Init
  <2>2. pc \in [Process -> Label]
    <3>1. \A p \in Process : (IF p \in Server THEN "mkdir" ELSE "lookup") \in Label
      BY DEF Label
    <3> QED
      BY <3>1 DEF Init
  <2>3. path \in [Process -> Name \cup {None}] /\ i \in [Process -> 0 .. 10]
    <3>1. path = [p \in Process |-> None] /\ i = [p \in Process |-> 0]
      BY DEF Init
    <3>2. None \in Name \cup {None} /\ 0 \in 0 .. 10
      OBVIOUS
    <3>3. path \in [Process -> Name \cup {None}]
      BY <3>1, <3>2
    <3>4. i \in [Process -> 0 .. 10]
      BY <3>1, <3>2
    <3> QED
      BY <3>3, <3>4
  <2>4. errno \in [Process -> {"", "ENOENT", "EINVAL", "Not FIFO"}]
    BY DEF Init
  <2>5. /\ symlink_created \in [Process -> BOOLEAN]
        /\ server_pipe \in [Process -> Process \cup {None}]
    BY DEF Init
  <2> QED
    BY <2>1, <2>2, <2>3, <2>4, <2>5 DEF TypeOK
<1>2. Directory
  BY DEF Init, Directory, Empty
<1>3. ASSUME NEW p \in Process PROVE Own(p) /\ Control(p)
  <2>1. pc[p] \in {"mkdir", "lookup"} /\ ~symlink_created[p] /\ i[p] = 0 /\ path[p] = None
    BY DEF Init
  <2> QED
    BY <2>1 DEF Own, Control, Has, Linked, Early, Before
<1> QED
  BY <1>1, <1>2, <1>3 DEF IInv

\* What a process believes survives the steps of the others.
LEMMA OthersKept ==
  ASSUME IInv, NEW q \in Process, OnlyOwn(q), NEW p \in Process \ {q}
  PROVE  Own(p)' /\ Control(p)'
<1>1. /\ pc'[p] = pc[p]
      /\ path'[p] = path[p]
      /\ i'[p] = i[p]
      /\ symlink_created'[p] = symlink_created[p]
  BY DEF OnlyOwn
<1>2. Own(p) /\ Control(p)
  BY DEF IInv
<1>3. Control(p)'
  BY <1>1, <1>2 DEF Control
<1>4. ASSUME NEW x \in Name \cup {LINK}, entry[x] # None, entry[x].by = p
      PROVE  entry'[x] = entry[x]
  BY <1>4 DEF OnlyOwn
<1>5. pc'[p] = "unlink" => entry'[path'[p]] = File(p)
  BY <1>1, <1>2, <1>4, EntryFacts DEF Own, Control
<1>6. pc'[p] \in Linked /\ symlink_created'[p] => entry'[LINK] = Link(p)
  BY <1>1, <1>2, <1>4, EntryFacts DEF Own
<1>7. ASSUME pc'[p] \in Has
      PROVE  dir' /\ entry'[path'[p]] = Fifo(p)
  <2>1. path[p] \in Name /\ dir /\ entry[path[p]] = Fifo(p)
    BY <1>1, <1>2, <1>7 DEF Own, Control
  <2>2. entry'[path[p]] = Fifo(p)
    BY <2>1, <1>4, EntryFacts
  <2>3. ~Empty
    BY <2>1, EntryFacts DEF Empty, IInv, TypeOK
  <2> QED
    BY <1>1, <2>1, <2>2, <2>3 DEF OnlyOwn
<1> QED
  BY <1>3, <1>5, <1>6, <1>7 DEF Own

-----------------------------------------------------------------------------
\* The steps, one lemma each where there is something to say: types, ownership, what
\* the process itself may believe afterwards.
Kept(q) ==
  /\ TypeOK'
  /\ OnlyOwn(q)
  /\ Directory'
  /\ Own(q)' /\ Control(q)'

LEMMA Combine ==
  ASSUME IInv, NEW q \in Process, Kept(q)
  PROVE  IInv'
<1>1. \A p \in Process : Own(p)' /\ Control(p)'
  BY OthersKept DEF Kept
<1> QED
  BY <1>1 DEF Kept, IInv

\* Steps that make or remove no entry.
LEMMA GotoKept ==
  ASSUME IInv, NEW q \in Process, NEW label, Goto(q, label),
         \/ label \in {"dir_is_empty", "rmdir", "done", "failed", "crashed"}
         \/ label \in {"wait", "mkdir", "mkstemp"} /\ pc[q] \in {"lookup", "wait", "mkdir"},
         UNCHANGED <<entry, path, i, symlink_created>>,
         errno' \in [Process -> {"", "ENOENT", "EINVAL", "Not FIFO"}],
         server_pipe' \in [Process -> Process \cup {None}],
         dir' \in BOOLEAN,
         ~dir' => Empty
  PROVE  IInv'
<1>1. /\ pc' = [pc EXCEPT ![q] = label]
      /\ pc'[q] = label
      /\ \A p \in Process \ {q} : pc'[p] = pc[p]
  BY DEF Goto, IInv, TypeOK
<1>2. TypeOK'
  <2>1. pc' \in [Process -> Label]
    BY <1>1 DEF Label, IInv, TypeOK
  <2> QED
    BY <2>1 DEF IInv, TypeOK
<1>3. OnlyOwn(q)
  <2>1. \A p \in Process \ {q} :
          /\ pc'[p] = pc[p]
          /\ path'[p] = path[p]
          /\ i'[p] = i[p]
          /\ symlink_created'[p] = symlink_created[p]
    BY <1>1
  <2>2. \A x \in Name \cup {LINK} : entry'[x] = entry[x]
    OBVIOUS
  <2> QED
    BY <2>1, <2>2, Zenon DEF OnlyOwn
<1>4. Directory'
  BY DEF IInv, Directory, Empty
<1>5. Own(q)' /\ Control(q)'
  <2>1. CASE label \in {"dir_is_empty", "rmdir", "done", "failed", "crashed"}
    BY <1>1, <2>1 DEF IInv, Own, Control, Has, Linked, Early, Before
  <2>2. CASE label \in {"wait", "mkdir", "mkstemp"} /\ pc[q] \in {"lookup", "wait", "mkdir"}
    BY <1>1, <2>2 DEF IInv, Own, Control, Has, Linked, Early, Before
  <2> QED
    BY <2>1, <2>2
<1> QED
  BY <1>2, <1>3, <1>4, <1>5, Combine DEF Kept

LEMMA FailKept ==
  ASSUME IInv, NEW q \in Process, NEW e \in {"ENOENT", "EINVAL", "Not FIFO"}, Fail(q, e)
  PROVE  IInv'
<1>1. errno' \in [Process -> {"", "ENOENT", "EINVAL", "Not FIFO"}]
  BY DEF Fail, IInv, TypeOK
<1>2. Goto(q, "failed") /\ UNCHANGED <<dir, entry, path, i, symlink_created, server_pipe>>
  BY DEF Fail
<1> QED
  BY <1>1, <1>2, GotoKept DEF IInv, TypeOK, Directory

\* Steps of q that change one entry, to something it may put there.
LEMMA PutTyped ==
  ASSUME IInv, NEW q \in Process, NEW x \in Name \cup {LINK},
         NEW e \in {File(q), Fifo(q), Link(q), None, entry[x]}, Put(x, e)
  PROVE  /\ entry' \in [Name \cup {LINK} -> Entry \cup {None}]
         /\ entry'[x] = e
         /\ \A y \in (Name \cup {LINK}) \ {x} : entry'[y] = entry[y]
BY EntryFacts DEF Put, IInv, TypeOK

LEMMA PutKept ==
  ASSUME IInv, NEW q \in Process, NEW label \in Label, Goto(q, label),
         NEW x \in Name \cup {LINK},
         NEW e \in {File(q), Fifo(q), Link(q), None, entry[x]}, Put(x, e),
         entry[x] = None \/ entry[x].by = q \/ e = entry[x],
         e = None \/ e = entry[x] \/ dir,
         x = LINK => e = None \/ e = entry[x] \/ path[q] # None,
         NEW f \in Name \cup {None}, f = path[q] \/ f # None, path' = [path EXCEPT ![q] = f],
         NEW m \in 0 .. 10, i' = [i EXCEPT ![q] = m],
         NEW b \in BOOLEAN, symlink_created' = [symlink_created EXCEPT ![q] = b],
         UNCHANGED <<dir, errno, server_pipe>>,
         Own(q)', Control(q)'
  PROVE  IInv'
<1>1. /\ entry' \in [Name \cup {LINK} -> Entry \cup {None}]
      /\ entry'[x] = e
      /\ \A y \in (Name \cup {LINK}) \ {x} : entry'[y] = entry[y]
  BY PutTyped
<1>2. \A p \in Process \ {q} :
        /\ pc'[p] = pc[p]
        /\ path'[p] = path[p]
        /\ i'[p] = i[p]
        /\ symlink_created'[p] = symlink_created[p]
  BY DEF Goto, IInv, TypeOK
<1>3. /\ pc' \in [Process -> Label]
      /\ path' \in [Process -> Name \cup {None}]
      /\ i' \in [Process -> 0 .. 10]
      /\ symlink_created' \in [Process -> BOOLEAN]
      /\ path'[q] = f
  BY DEF Goto, IInv, TypeOK
<1>4. TypeOK'
  BY <1>1, <1>3 DEF IInv, TypeOK
<1>5. OnlyOwn(q)
  <2>1. \A y \in Name \cup {LINK} :
          entry'[y] = entry[y] \/ entry[y] = None \/ entry[y].by = q
    BY <1>1
  <2> QED
    BY <1>2, <2>1, Zenon DEF OnlyOwn
<1>6. ~dir' => Empty'
  <2> SUFFICES ASSUME ~dir PROVE \A y \in Name \cup {LINK} : entry'[y] = None
    BY <1>1 DEF Empty
  <2>1. \A y \in Name \cup {LINK} : entry[y] = None
    BY DEF IInv, TypeOK, Directory, Empty
  <2> QED
    BY <1>1, <2>1
<1>7. ASSUME entry'[LINK] # None
      PROVE  path'[entry'[LINK].by] # None
  <2>1. CASE entry'[LINK] = entry[LINK]
    <3>1. entry[LINK] \in Entry /\ path[entry[LINK].by] # None
      BY <1>7, <2>1 DEF IInv, TypeOK, Directory
    <3>2. entry[LINK].by \in Process
      BY <3>1 DEF Entry
    <3> QED
      BY <2>1, <3>1, <3>2, <1>2, <1>3
  <2>2. CASE entry'[LINK] # entry[LINK]
    <3>1. x = LINK /\ e # None /\ e # entry[x]
      BY <1>1, <1>7, <2>2
    <3>2. e.by = q /\ path[q] # None
      BY <3>1, EntryFacts
    <3> QED
      BY <1>1, <1>3, <3>1, <3>2
  <2> QED
    BY <2>1, <2>2
<1>8. Directory'
  BY <1>6, <1>7 DEF Directory
<1> QED
  BY <1>4, <1>5, <1>8, Combine DEF Kept

-----------------------------------------------------------------------------
\* One lemma per call that makes or removes an entry.
LEMMA PutHere ==
  ASSUME IInv, NEW q \in Process, NEW label \in Label, Goto(q, label)
  PROVE  pc'[q] = label
BY DEF Goto, IInv, TypeOK

LEMMA MkstempKept == ASSUME IInv, NEW q \in Process, Mkstemp(q) PROVE IInv'
<1>1. CASE path[q] # None
  BY <1>1, FailKept DEF Mkstemp
<1>2. CASE path[q] = None /\ ~dir
  BY <1>2, FailKept DEF Mkstemp
<1>3. CASE path[q] = None /\ dir
  <2>1. PICK x \in Names(q) :
          /\ entry[x] = None
          /\ Put(x, File(q))
          /\ path' = [path EXCEPT ![q] = x]
          /\ Goto(q, "unlink")
          /\ UNCHANGED <<dir, i, errno, symlink_created, server_pipe>>
    BY <1>3 DEF Mkstemp, File
  <2>2. x \in Name
    BY DEF Names, Name
  <2>3. path'[q] = x /\ pc'[q] = "unlink" /\ entry'[x] = File(q)
    BY <2>1, <2>2, PutTyped, PutHere DEF Label, IInv, TypeOK
  <2>4. ~symlink_created[q] /\ i[q] = 0
    BY <1>3 DEF Mkstemp, IInv, Control, Before
  <2>5. Own(q)'
    BY <2>3 DEF Own, Has, Linked
  <2>6. Control(q)'
    BY <2>1, <2>2, <2>3, <2>4 DEF Control, Has, Early, Before
  <2>7. i' = [i EXCEPT ![q] = 0] /\ symlink_created' = [symlink_created EXCEPT ![q] = FALSE]
    BY <2>1, <2>4 DEF IInv, TypeOK
  <2>8. "unlink" \in Label /\ 0 \in 0 .. 10 /\ FALSE \in BOOLEAN /\ x # LINK /\ x # None
    BY <2>2, TmpDirAssumption DEF Label
  <2> QED
    BY <1>3, <2>1, <2>2, <2>5, <2>6, <2>7, <2>8, PutKept
<1> QED
  BY <1>1, <1>2, <1>3 DEF IInv, TypeOK

LEMMA UnlinkFileKept == ASSUME IInv, NEW q \in Process, UnlinkFile(q) PROVE IInv'
<1>1. /\ pc[q] = "unlink"
      /\ path[q] \in Name
      /\ entry[path[q]] = File(q)
      /\ ~symlink_created[q]
      /\ i[q] = 0
  BY DEF UnlinkFile, IInv, Own, Control, Early, Before
<1>2. /\ Put(path[q], None)
      /\ Goto(q, "mkfifo")
      /\ UNCHANGED <<dir, path, i, errno, symlink_created, server_pipe>>
  BY <1>1, EntryFacts DEF UnlinkFile
<1>3. pc'[q] = "mkfifo" /\ "mkfifo" \in Label
  BY <1>2, PutHere DEF Label
<1>4. Own(q)' /\ Control(q)'
  BY <1>1, <1>2, <1>3 DEF Own, Control, Has, Linked, Early, Before
<1>5. /\ path' = [path EXCEPT ![q] = path[q]]
      /\ i' = [i EXCEPT ![q] = 0]
      /\ symlink_created' = [symlink_created EXCEPT ![q] = FALSE]
  BY <1>1, <1>2 DEF IInv, TypeOK
<1>6. entry[path[q]].by = q /\ path[q] # None /\ 0 \in 0 .. 10 /\ FALSE \in BOOLEAN
  BY <1>1, EntryFacts, TmpDirAssumption
<1> QED
  BY <1>1, <1>2, <1>3, <1>4, <1>5, <1>6, PutKept

LEMMA MkfifoKept == ASSUME IInv, NEW q \in Process, Mkfifo(q) PROVE IInv'
<1>1. /\ pc[q] = "mkfifo"
      /\ path[q] \in Name
      /\ path[q] # None
      /\ ~symlink_created[q]
      /\ i[q] = 0
  BY TmpDirAssumption DEF Mkfifo, IInv, Control, Early, Before
<1>2. CASE ~dir
  BY <1>2, FailKept DEF Mkfifo
<1>3. CASE dir
  <2>1. /\ i' = [i EXCEPT ![q] = 1]
        /\ UNCHANGED <<dir, path, errno, symlink_created, server_pipe>>
    BY <1>1, <1>3 DEF Mkfifo
  <2>2. /\ path' = [path EXCEPT ![q] = path[q]]
        /\ symlink_created' = [symlink_created EXCEPT ![q] = FALSE]
        /\ 1 \in 0 .. 10
        /\ FALSE \in BOOLEAN
    <3>1. path' = [path EXCEPT ![q] = path[q]]
      BY <2>1 DEF IInv, TypeOK
    <3>2. symlink_created' = [symlink_created EXCEPT ![q] = FALSE]
      BY <1>1, <2>1 DEF IInv, TypeOK
    <3> QED
      BY <3>1, <3>2
  <2>3. CASE entry[path[q]] = None
    <3>1. Put(path[q], Fifo(q)) /\ Goto(q, "open")
      BY <1>3, <2>3 DEF Mkfifo, Fifo
    <3>2. pc'[q] = "open" /\ entry'[path[q]] = Fifo(q) /\ "open" \in Label
      BY <1>1, <3>1, PutTyped, PutHere DEF Label
    <3>3. Own(q)' /\ Control(q)'
      BY <1>1, <1>3, <2>1, <3>2 DEF Own, Control, Has, Linked, Early, Before
    <3> QED
      BY <1>1, <1>3, <2>1, <2>2, <2>3, <3>1, <3>2, <3>3, PutKept
  <2>4. CASE entry[path[q]] # None
    <3>1. UNCHANGED entry /\ Goto(q, "mkstemp")
      <4>1. 0 + 1 < 10
        OBVIOUS
      <4>2. /\ UNCHANGED entry
            /\ Goto(q, IF i[q] + 1 < 10 THEN "mkstemp" ELSE "failed")
        BY <1>3, <2>4 DEF Mkfifo
      <4>3. i[q] + 1 < 10
        BY <1>1, <4>1
      <4> QED
        BY <4>2, <4>3
    <3>2. pc'[q] = "mkstemp" /\ "mkstemp" \in Label
      BY <3>1, PutHere DEF Label
    <3>3. Put(path[q], entry[path[q]])
      BY <1>1, <3>1 DEF Put, IInv, TypeOK
    <3>4. Own(q)' /\ Control(q)'
      BY <1>1, <2>1, <3>2 DEF Own, Control, Has, Linked, Early, Before
    <3> QED
      BY <1>1, <2>1, <2>2, <3>1, <3>2, <3>3, <3>4, PutKept
  <2> QED
    BY <2>3, <2>4
<1> QED
  BY <1>2, <1>3 DEF IInv, TypeOK

LEMMA OpenKept == ASSUME IInv, NEW q \in Process, Open(q) \/ End(q) PROVE IInv'
<1> DEFINE label == IF pc[q] = "running" THEN "unlink_path"
                    ELSE IF q \in Server THEN "symlink" ELSE "running"
<1>1. /\ pc[q] \in {"open", "running"}
      /\ Goto(q, label)
      /\ UNCHANGED <<dir, entry, path, i, errno, symlink_created, server_pipe>>
  BY DEF Open, End
<1>2. label \in Label /\ pc'[q] = label
  BY <1>1, PutHere DEF Label
<1>3. /\ path[q] \in Name
      /\ dir /\ entry[path[q]] = Fifo(q)
      /\ pc[q] = "open" => ~symlink_created[q]
      /\ pc[q] = "running" /\ symlink_created[q] => entry[LINK] = Link(q)
      /\ symlink_created[q] => q \in Server
  BY <1>1 DEF IInv, Own, Control, Has, Linked, Before
<1>4. Own(q)'
  BY <1>1, <1>2, <1>3 DEF Own, Has, Linked
<1>5. Control(q)'
  BY <1>1, <1>2, <1>3 DEF Control, Has, Early, Before
<1>6. /\ Put(path[q], entry[path[q]])
      /\ path' = [path EXCEPT ![q] = path[q]]
      /\ i' = [i EXCEPT ![q] = i[q]] /\ i[q] \in 0 .. 10
      /\ symlink_created' = [symlink_created EXCEPT ![q] = symlink_created[q]]
      /\ symlink_created[q] \in BOOLEAN
  BY <1>1, <1>3 DEF Put, IInv, TypeOK
<1>7. path[q] # None
  BY <1>3, TmpDirAssumption
<1> HIDE DEF label
<1> QED
  BY <1>1, <1>2, <1>3, <1>4, <1>5, <1>6, <1>7, PutKept

LEMMA SymlinkKept == ASSUME IInv, NEW q \in Process, Symlink(q) PROVE IInv'
<1> DEFINE b == dir /\ entry[LINK] = None
           e == IF b THEN Link(q) ELSE entry[LINK]
<1>1. /\ path[q] \in Name /\ path[q] # None
      /\ dir /\ entry[path[q]] = Fifo(q)
      /\ q \in Server
  BY TmpDirAssumption DEF Symlink, IInv, Own, Control, Has
<1>2. /\ symlink_created' = [symlink_created EXCEPT ![q] = b]
      /\ symlink_created'[q] = b
      /\ b \in BOOLEAN
  BY DEF Symlink, IInv, TypeOK
<1>3. /\ Put(LINK, e)
      /\ Goto(q, "running")
      /\ UNCHANGED <<dir, path, i, errno, server_pipe>>
  BY <1>2 DEF Symlink, Link
<1>4. e \in {File(q), Fifo(q), Link(q), None, entry[LINK]}
  OBVIOUS
<1>5. /\ pc'[q] = "running" /\ "running" \in Label
      /\ entry'[LINK] = e
      /\ entry'[path[q]] = entry[path[q]]
  BY <1>1, <1>3, <1>4, PutTyped, PutHere, TmpDirAssumption DEF Label
<1>6. Own(q)'
  BY <1>1, <1>2, <1>3, <1>5 DEF Own, Has, Linked
<1>7. Control(q)'
  BY <1>1, <1>3, <1>5 DEF Control, Has, Early, Before
<1>8. /\ path' = [path EXCEPT ![q] = path[q]]
      /\ i' = [i EXCEPT ![q] = i[q]] /\ i[q] \in 0 .. 10
      /\ entry[LINK] = None \/ entry[LINK].by = q \/ e = entry[LINK]
      /\ LINK \in Name \cup {LINK}
  BY <1>3 DEF IInv, TypeOK
<1> HIDE DEF b, e
<1> QED
  BY <1>1, <1>2, <1>3, <1>4, <1>5, <1>6, <1>7, <1>8, PutKept

LEMMA UnlinkPathKept == ASSUME IInv, NEW q \in Process, UnlinkPath(q) PROVE IInv'
<1> DEFINE label == IF q \in Server THEN "unlink_link" ELSE "dir_is_empty"
<1>1. /\ path[q] \in Name /\ path[q] # None /\ path[q] # LINK
      /\ entry[path[q]] = Fifo(q)
      /\ symlink_created[q] => entry[LINK] = Link(q) /\ q \in Server
  BY TmpDirAssumption DEF UnlinkPath, IInv, Own, Control, Has, Linked
<1>2. /\ Put(path[q], None)
      /\ Goto(q, label)
      /\ UNCHANGED <<dir, path, i, errno, symlink_created, server_pipe>>
  BY DEF UnlinkPath
<1>3. label \in Label /\ pc'[q] = label
  BY <1>2, PutHere DEF Label
<1>4. entry'[LINK] = entry[LINK]
  BY <1>1, <1>2, PutTyped
<1>5. Own(q)' /\ Control(q)'
  BY <1>1, <1>2, <1>3, <1>4 DEF Own, Control, Has, Linked, Early, Before
<1>6. /\ path' = [path EXCEPT ![q] = path[q]]
      /\ i' = [i EXCEPT ![q] = i[q]] /\ i[q] \in 0 .. 10
      /\ symlink_created' = [symlink_created EXCEPT ![q] = symlink_created[q]]
      /\ symlink_created[q] \in BOOLEAN
      /\ entry[path[q]].by = q
  BY <1>1, <1>2, EntryFacts DEF IInv, TypeOK
<1> HIDE DEF label
<1> QED
  BY <1>1, <1>2, <1>3, <1>5, <1>6, PutKept

LEMMA UnlinkLinkKept == ASSUME IInv, NEW q \in Process, UnlinkLink(q) PROVE IInv'
<1> DEFINE e == IF symlink_created[q] THEN None ELSE entry[LINK]
<1>1. /\ Put(LINK, e)
      /\ Goto(q, "dir_is_empty")
      /\ UNCHANGED <<dir, path, i, errno, symlink_created, server_pipe>>
  BY DEF UnlinkLink
<1>2. symlink_created[q] => entry[LINK].by = q
  BY EntryFacts DEF UnlinkLink, IInv, Own, Linked
<1>3. pc'[q] = "dir_is_empty" /\ "dir_is_empty" \in Label
  BY <1>1, PutHere DEF Label
<1>4. Own(q)' /\ Control(q)'
  BY <1>1, <1>3 DEF IInv, Own, Control, Has, Linked, Early, Before
<1>5. /\ path' = [path EXCEPT ![q] = path[q]] /\ path[q] \in Name \cup {None}
      /\ i' = [i EXCEPT ![q] = i[q]] /\ i[q] \in 0 .. 10
      /\ symlink_created' = [symlink_created EXCEPT ![q] = symlink_created[q]]
      /\ symlink_created[q] \in BOOLEAN
  BY <1>1 DEF IInv, TypeOK
<1>6. /\ e \in {None, entry[LINK]}
      /\ entry[LINK] = None \/ entry[LINK].by = q \/ e = entry[LINK]
      /\ e = None \/ e = entry[LINK]
      /\ LINK \in Name \cup {LINK}
  BY <1>2
<1> HIDE DEF e
<1> QED
  BY <1>1, <1>3, <1>4, <1>5, <1>6, PutKept

\* One step per action.
LEMMA StepKept == ASSUME IInv, NEW q \in Process, Step(q) PROVE IInv'
<1>1. CASE Lookup(q)
  <2>1. CASE Fail(q, "ENOENT") \/ Fail(q, "Not FIFO")
    BY <2>1, FailKept
  <2>2. CASE ~(Fail(q, "ENOENT") \/ Fail(q, "Not FIFO"))
    <3> DEFINE fd == entry[path[entry[LINK].by]]
    <3>1. /\ entry[LINK] # None
          /\ fd # None
          /\ server_pipe' = [server_pipe EXCEPT ![q] = fd.by]
          /\ Goto(q, "wait")
          /\ pc[q] = "lookup"
          /\ UNCHANGED <<dir, entry, path, i, errno, symlink_created>>
      BY <1>1, <2>2 DEF Lookup
    <3>2. entry[LINK].by \in Process /\ path[entry[LINK].by] # None
      BY <3>1 DEF IInv, TypeOK, Directory, Entry
    <3>3. fd \in Entry
      BY <3>1, <3>2 DEF IInv, TypeOK
    <3>4. fd.by \in Process
      BY <3>3 DEF Entry
    <3> HIDE DEF fd
    <3>5. server_pipe' \in [Process -> Process \cup {None}]
      BY <3>1, <3>4 DEF IInv, TypeOK
    <3> QED
      BY <3>1, <3>5, GotoKept DEF IInv, TypeOK, Directory
  <2> QED
    BY <2>1, <2>2
<1>2. CASE Opened(q)
  BY <1>2, GotoKept DEF Opened, IInv, TypeOK, Directory
<1>3. CASE Mkdir(q)
  BY <1>3, GotoKept DEF Mkdir, IInv, TypeOK
<1>4. CASE Mkstemp(q)
  BY <1>4, MkstempKept
<1>5. CASE UnlinkFile(q)
  BY <1>5, UnlinkFileKept
<1>6. CASE Mkfifo(q)
  BY <1>6, MkfifoKept
<1>7. CASE Open(q) \/ End(q)
  BY <1>7, OpenKept
<1>8. CASE Symlink(q)
  BY <1>8, SymlinkKept
<1>9. CASE UnlinkPath(q)
  BY <1>9, UnlinkPathKept
<1>10. CASE UnlinkLink(q)
  BY <1>10, UnlinkLinkKept
<1>11. CASE DirIsEmpty(q)
  <2>1. PICK label \in {"rmdir", "done"} : Goto(q, label)
    BY <1>11 DEF DirIsEmpty
  <2> QED
    BY <1>11, <2>1, GotoKept DEF DirIsEmpty, IInv, TypeOK, Directory
<1>12. CASE Rmdir(q)
  <2>1. dir' \in BOOLEAN /\ (~dir' => Empty)
    BY <1>12 DEF Rmdir, IInv, TypeOK, Directory
  <2> QED
    BY <1>12, <2>1, GotoKept DEF Rmdir, IInv, TypeOK
<1>13. CASE Crash(q)
  BY <1>13, GotoKept DEF Crash, IInv, TypeOK, Directory
<1> QED
  BY <1>1, <1>2, <1>3, <1>4, <1>5, <1>6, <1>7, <1>8, <1>9, <1>10, <1>11, <1>12, <1>13
  DEF Step

LEMMA NextInv == IInv /\ [Next]_vars => IInv'
<1>1. CASE UNCHANGED vars
  BY <1>1 DEF vars, IInv, TypeOK, Directory, Empty, Own, Control
<1> QED
  BY <1>1, StepKept DEF Next

\* A step changes an entry only if the process that takes it made the entry, and goes on.
LEMMA StepTouchesOwn ==
  ASSUME IInv, NEW q \in Process, Step(q),
         NEW x \in DOMAIN entry, entry[x] # None, entry'[x] # entry[x]
  PROVE  pc'[entry[x].by] # pc[entry[x].by]
<1> USE DEF Goto, Put
<1>1. x \in Name \cup {LINK} /\ pc \in [Process -> Label]
      /\ entry \in [Name \cup {LINK} -> Entry \cup {None}]
  BY DEF IInv, TypeOK
<1>2. Own(q) /\ Control(q)
  BY DEF IInv
<1>3. CASE Mkstemp(q)
  <2> PICK y \in Names(q) : entry[y] = None /\ Put(y, File(q))
    BY <1>3 DEF Mkstemp, Fail, File
  <2> QED
    BY <1>1
<1>4. CASE UnlinkFile(q)
  <2>1. entry' = [entry EXCEPT ![path[q]] = None] /\ pc' = [pc EXCEPT ![q] = "mkfifo"]
    BY <1>4 DEF UnlinkFile, Fail
  <2>2. entry[path[q]].by = q /\ pc[q] = "unlink"
    BY <1>2, <1>4, EntryFacts DEF UnlinkFile, Own
  <2> QED
    BY <1>1, <2>1, <2>2
<1>5. CASE Mkfifo(q)
  BY <1>1, <1>5 DEF Mkfifo, Fail
<1>6. CASE Symlink(q)
  <2>1. entry' = [entry EXCEPT ![LINK] =
                    IF symlink_created'[q] THEN [kind |-> "link", by |-> q] ELSE entry[LINK]]
        /\ (symlink_created'[q] => entry[LINK] = None)
    BY <1>6 DEF Symlink, IInv, TypeOK
  <2> QED
    BY <1>1, <2>1
<1>7. CASE UnlinkPath(q)
  <2>1. /\ entry' = [entry EXCEPT ![path[q]] = None]
        /\ pc' = [pc EXCEPT ![q] = IF q \in Server THEN "unlink_link" ELSE "dir_is_empty"]
    BY <1>7 DEF UnlinkPath
  <2>2. entry[path[q]].by = q /\ pc[q] = "unlink_path"
    BY <1>2, <1>7, EntryFacts DEF UnlinkPath, Own, Has
  <2> QED
    BY <1>1, <2>1, <2>2
<1>8. CASE UnlinkLink(q)
  <2>1. /\ entry' = [entry EXCEPT ![LINK] = IF symlink_created[q] THEN None ELSE entry[LINK]]
        /\ pc' = [pc EXCEPT ![q] = "dir_is_empty"]
        /\ pc[q] = "unlink_link"
    BY <1>8 DEF UnlinkLink
  <2>2. symlink_created[q] => entry[LINK].by = q
    BY <1>2, <2>1, EntryFacts DEF Own, Linked
  <2> QED
    BY <1>1, <2>1, <2>2
<1>9. CASE entry' = entry
  BY <1>9
<1>10. entry' = entry \/ Mkstemp(q) \/ UnlinkFile(q) \/ Mkfifo(q) \/ Symlink(q)
         \/ UnlinkPath(q) \/ UnlinkLink(q)
  BY DEF Step, Lookup, Fail, Opened, Mkdir, Open, End, DirIsEmpty, Rmdir, Crash
<1> QED
  BY <1>3, <1>4, <1>5, <1>6, <1>7, <1>8, <1>9, <1>10

-----------------------------------------------------------------------------
\* The variables keep their types; the counter of mkstmpfifo stays within its ten rounds
\* (tchatche.c:40-58).
THEOREM TmpDirTypeCorrect == Spec => []TypeOK
<1>1. IInv => TypeOK
  BY DEF IInv
<1> QED
  BY <1>1, InitInv, NextInv, PTL DEF Spec

\* A running process is found under its path, however many start, end and crash around
\* it (tchatche.c:40-58, server.c:42-45, client.c:129-145).
THEOREM RunningIsReachable == Spec => []Reachable
<1>1. IInv => Reachable
  BY DEF IInv, Own, Reachable, Has, Fifo
<1> QED
  BY <1>1, InitInv, NextInv, PTL DEF Spec

\* Nobody removes or replaces what another process has made, although every call goes by
\* name (unlink in tchatche.c:49, server.c:73-75 and client.c:84, symlink in
\* server.c:45).
THEOREM NobodyTouches == Spec => NobodyTouchesOthers
<1> DEFINE Touch == \A x \in DOMAIN entry :
                      entry[x] # None /\ entry'[x] # entry[x]
                        => pc'[entry[x].by] # pc[entry[x].by]
<1>1. IInv /\ [Next]_vars => [Touch]_vars
  BY StepTouchesOwn DEF Next
<1> QED
  BY <1>1, InitInv, NextInv, PTL DEF Spec, NobodyTouchesOthers

-----------------------------------------------------------------------------
(* That nothing is left when all have ended needs more: every entry has    *)
(* somebody who will remove it, and the directory somebody who will look   *)
(* whether it is empty, unless they crash.                                 *)

Holder(p, x) ==
  \/ pc[p] \in {"unlink"} \cup Has /\ x = path[p]
  \/ pc[p] \in Linked /\ symlink_created[p] /\ x = LINK
  \/ pc[p] = "crashed"

Looks(p) ==
  \/ pc[p] \in {"unlink", "mkfifo", "dir_is_empty", "rmdir", "crashed"} \cup Has \cup Linked
  \/ pc[p] = "mkstemp" /\ path[p] = None

Responsible ==
  /\ \A x \in Name \cup {LINK} : entry[x] # None => Holder(entry[x].by, x)
  /\ dir => \E p \in Process : Looks(p)

CInv == IInv /\ Responsible

\* A step is the business of one process.
LEMMA StepFrame ==
  ASSUME TypeOK, NEW q \in Process, Step(q)
  PROVE  \A p \in Process \ {q} :
           /\ pc'[p] = pc[p]
           /\ path'[p] = path[p]
           /\ symlink_created'[p] = symlink_created[p]
<1>1. \A p \in Process \ {q} : pc'[p] = pc[p]
  BY DEF Step, Lookup, Fail, Opened, Mkdir, Mkstemp, UnlinkFile, Mkfifo, Open, Symlink,
         End, UnlinkPath, UnlinkLink, DirIsEmpty, Rmdir, Crash, Goto, TypeOK
<1>2. \A p \in Process \ {q} : path'[p] = path[p]
  BY DEF Step, Lookup, Fail, Opened, Mkdir, Mkstemp, UnlinkFile, Mkfifo, Open, Symlink,
         End, UnlinkPath, UnlinkLink, DirIsEmpty, Rmdir, Crash, TypeOK
<1>3. \A p \in Process \ {q} : symlink_created'[p] = symlink_created[p]
  BY DEF Step, Lookup, Fail, Opened, Mkdir, Mkstemp, UnlinkFile, Mkfifo, Open, Symlink,
         End, UnlinkPath, UnlinkLink, DirIsEmpty, Rmdir, Crash, TypeOK
<1> QED
  BY <1>1, <1>2, <1>3

\* Every entry keeps somebody who will remove it.
LEMMA HeldKept ==
  ASSUME CInv, NEW q \in Process, Step(q),
         NEW x \in Name \cup {LINK}, entry'[x] # None
  PROVE  \E m \in Process : entry'[x].by = m /\ Holder(m, x)'
<1>1. /\ entry \in [Name \cup {LINK} -> Entry \cup {None}]
      /\ pc \in [Process -> Label]
      /\ path \in [Process -> Name \cup {None}]
      /\ symlink_created \in [Process -> BOOLEAN]
  BY DEF CInv, IInv, TypeOK
<1>2. Own(q) /\ Control(q)
  BY DEF CInv, IInv
<1>3. entry[x] # None => entry[x].by \in Process /\ Holder(entry[x].by, x)
  BY <1>1 DEF CInv, Responsible, Entry
<1>4. ASSUME entry'[x] = entry[x], entry[x].by # q
      PROVE  \E m \in Process : entry'[x].by = m /\ Holder(m, x)'
  <2> DEFINE m == entry[x].by
  <2>1. m \in Process \ {q} /\ Holder(m, x)
    BY <1>3, <1>4
  <2>2. entry'[x].by = m
    BY <1>4
  <2> HIDE DEF m
  <2>3. pc'[m] = pc[m] /\ path'[m] = path[m] /\ symlink_created'[m] = symlink_created[m]
    BY <2>1, StepFrame DEF CInv, IInv
  <2>4. \A p \in Process : pc'[p] = pc[p] /\ path'[p] = path[p]
                           /\ symlink_created'[p] = symlink_created[p]
                           /\ Holder(p, x) => Holder(p, x)'
    BY DEF Holder
  <2>5. PICK p \in Process \ {q} : p = m
    BY <2>1
  <2>6. Holder(p, x)'
    BY <2>1, <2>3, <2>4, <2>5
  <2> QED
    BY <2>2, <2>5, <2>6
<1>5. ASSUME entry'[x] = entry[x], entry[x].by = q, Holder(q, x)'
      PROVE  \E m \in Process : entry'[x].by = m /\ Holder(m, x)'
  BY <1>5
<1>6. CASE entry'[x] = entry[x] /\ entry[x].by = q
  <2>1. Holder(q, x)
    BY <1>3, <1>6
  <2>2. CASE pc[q] \in {"lookup", "wait", "mkdir", "mkstemp", "mkfifo", "dir_is_empty", "rmdir"}
    BY <2>1, <2>2 DEF Holder, Has, Linked
  <2>3. CASE UnlinkFile(q)
    <3>1. entry'[path[q]] = None /\ x = path[q]
      BY <1>1, <1>2, <2>1, <2>3, EntryFacts
      DEF UnlinkFile, Put, Holder, Own, Control, Has, Linked
    <3> QED
      BY <3>1
  <2>4. CASE Open(q) \/ End(q)
    <3>1. /\ pc'[q] \in {"symlink", "running", "unlink_path"}
          /\ pc[q] = "running" => pc'[q] = "unlink_path"
          /\ pc[q] \in {"open", "running"}
          /\ UNCHANGED <<path, symlink_created>>
      BY <1>1, <2>4 DEF Open, End, Goto
    <3>2. Holder(q, x)'
      BY <2>1, <3>1 DEF Holder, Has, Linked
    <3> QED
      BY <3>2, <1>5, <1>6
  <2>5. CASE Symlink(q)
    <3>1. pc'[q] = "running" /\ path' = path /\ x = path[q]
      BY <1>1, <2>1, <2>5 DEF Symlink, Goto, Holder, Has, Linked
    <3>2. Holder(q, x)'
      BY <3>1 DEF Holder, Has
    <3> QED
      BY <3>2, <1>5, <1>6
  <2>6. CASE UnlinkPath(q)
    <3>1. x # path[q]
      BY <1>1, <1>2, <1>6, <2>6 DEF UnlinkPath, Put, Control, Has
    <3>2. x = LINK /\ symlink_created[q] /\ UNCHANGED <<path, symlink_created>>
      BY <2>1, <2>6, <3>1 DEF UnlinkPath, Holder, Has, Linked
    <3>3. q \in Server
      BY <3>2, <1>2 DEF Control
    <3>4. Holder(q, x)'
      BY <1>1, <2>6, <3>2, <3>3 DEF UnlinkPath, Goto, Holder, Linked
    <3> QED
      BY <3>4, <1>5, <1>6
  <2>7. CASE UnlinkLink(q)
    <3>1. x = LINK /\ symlink_created[q]
      BY <2>1, <2>7 DEF UnlinkLink, Holder, Has, Linked
    <3>2. entry'[LINK] = None
      BY <1>1, <2>7, <3>1 DEF UnlinkLink, Put
    <3> QED
      BY <3>1, <3>2
  <2>8. CASE Crash(q)
    <3>1. Holder(q, x)'
      BY <1>1, <2>8 DEF Crash, Goto, Holder
    <3> QED
      BY <3>1, <1>5, <1>6
  <2> QED
    BY <2>2, <2>3, <2>4, <2>5, <2>6, <2>7, <2>8
    DEF Step, Lookup, Opened, Mkdir, Mkstemp, Mkfifo, DirIsEmpty, Rmdir
<1>7. CASE entry'[x] # entry[x]
  <2>1. CASE Mkstemp(q)
    <3>1. PICK y \in Names(q) :
            /\ Put(y, File(q))
            /\ path' = [path EXCEPT ![q] = y]
            /\ Goto(q, "unlink")
      BY <1>7, <2>1 DEF Mkstemp, Fail, File
    <3>2. x = y /\ entry'[x].by = q /\ pc'[q] = "unlink" /\ path'[q] = x
      BY <1>1, <1>7, <3>1, EntryFacts DEF Put, Goto
    <3>3. Holder(q, x)'
      BY <3>2 DEF Holder
    <3> QED
      BY <3>2, <3>3
  <2>2. CASE Mkfifo(q)
    <3>1. Put(path[q], Fifo(q)) /\ Goto(q, "open") /\ UNCHANGED path
      BY <1>7, <2>2 DEF Mkfifo, Fail, Fifo
    <3>2. x = path[q] /\ entry'[x].by = q /\ pc'[q] = "open"
      BY <1>1, <1>7, <3>1, EntryFacts DEF Put, Goto
    <3>3. Holder(q, x)'
      BY <3>1, <3>2 DEF Holder, Has
    <3> QED
      BY <3>2, <3>3
  <2>3. CASE Symlink(q)
    <3>1. /\ x = LINK
          /\ entry'[x] = (IF symlink_created'[q] THEN Link(q) ELSE entry[x])
          /\ pc'[q] = "running"
      BY <1>1, <1>7, <2>3 DEF Symlink, Put, Goto, Link
    <3>2. symlink_created'[q] /\ entry'[x].by = q
      BY <1>7, <3>1, EntryFacts
    <3>3. Holder(q, x)'
      BY <3>1, <3>2 DEF Holder, Linked
    <3> QED
      BY <3>2, <3>3
  <2>4. CASE UnlinkFile(q)
    BY <1>1, <1>7, <2>4 DEF UnlinkFile, Fail, Put
  <2>5. CASE UnlinkPath(q)
    BY <1>1, <1>7, <2>5 DEF UnlinkPath, Put
  <2>6. CASE UnlinkLink(q)
    BY <1>1, <1>7, <2>6 DEF UnlinkLink, Put
  <2> QED
    BY <1>7, <2>1, <2>2, <2>3, <2>4, <2>5, <2>6
    DEF Step, Lookup, Fail, Opened, Mkdir, Open, End, DirIsEmpty, Rmdir, Crash
<1> QED
  BY <1>4, <1>6, <1>7

\* Whoever fails or finds the directory in use leaves somebody behind who looks.
LEMMA LooksKept ==
  ASSUME CInv, NEW q \in Process, Step(q), dir' = TRUE
  PROVE  \E p \in Process : Looks(p)'
<1>1. /\ entry \in [Name \cup {LINK} -> Entry \cup {None}]
      /\ pc \in [Process -> Label]
      /\ path \in [Process -> Name \cup {None}]
  BY DEF CInv, IInv, TypeOK
<1>2. Own(q) /\ Control(q)
  BY DEF CInv, IInv
<1>3. ASSUME NEW p \in Process \ {q}, Looks(p) PROVE Looks(p)'
  BY <1>3, StepFrame DEF Looks, CInv, IInv
<1>4. ASSUME NEW x \in Name \cup {LINK}, entry[x] # None,
             pc[q] \in {"mkfifo", "dir_is_empty", "rmdir"}
      PROVE  \E p \in Process : Looks(p)'
  <2>1. entry[x].by \in Process /\ Holder(entry[x].by, x)
    BY <1>1, <1>4 DEF CInv, Responsible, Entry
  <2>2. entry[x].by # q /\ Looks(entry[x].by)
    BY <1>4, <2>1 DEF Holder, Looks, Has, Linked
  <2> QED
    BY <1>3, <2>1, <2>2
<1>5. CASE Looks(q)'
  BY <1>5
<1>6. CASE dir /\ ~Looks(q)
  BY <1>3, <1>6 DEF CInv, Responsible
<1>7. CASE ~Looks(q)' /\ (~dir \/ Looks(q))
  <2>1. CASE Lookup(q) \/ Opened(q)
    BY <1>7, <2>1 DEF Lookup, Fail, Opened, Looks, Has, Linked
  <2>2. CASE Mkdir(q)
    <3>1. pc'[q] = "mkstemp" /\ path'[q] = None
      BY <1>1, <1>2, <2>2 DEF Mkdir, Goto, Control
    <3> QED
      BY <1>7, <3>1 DEF Looks
  <2>3. CASE Mkstemp(q)
    BY <1>1, <1>7, <2>3 DEF Mkstemp, Fail, Goto, Looks, Has, Linked
  <2>4. CASE UnlinkFile(q)
    BY <1>1, <1>2, <1>7, <2>4, EntryFacts DEF UnlinkFile, Fail, Goto, Own, Looks
  <2>5. CASE Mkfifo(q)
    <3>1. CASE entry[path[q]] = None \/ ~dir
      BY <1>1, <1>7, <2>5, <3>1 DEF Mkfifo, Fail, Goto, Looks, Has
    <3>2. CASE entry[path[q]] # None
      BY <1>2, <1>4, <2>5, <3>2 DEF Mkfifo, Control
    <3> QED
      BY <3>1, <3>2
  <2>6. CASE Open(q) \/ Symlink(q) \/ End(q)
    BY <1>1, <1>7, <2>6 DEF Open, Symlink, End, Goto, Looks, Has, Linked
  <2>7. CASE UnlinkPath(q) \/ UnlinkLink(q)
    BY <1>1, <1>7, <2>7 DEF UnlinkPath, UnlinkLink, Goto, Looks, Linked
  <2>8. CASE DirIsEmpty(q)
    <3>1. CASE dir /\ Empty
      BY <1>1, <1>7, <2>8, <3>1 DEF DirIsEmpty, Goto, Looks
    <3>2. CASE ~(dir /\ Empty)
      <4>1. PICK x \in Name \cup {LINK} : entry[x] # None
        BY <1>1, <2>8, <3>2 DEF DirIsEmpty, Empty
      <4> QED
        BY <1>4, <2>8, <4>1 DEF DirIsEmpty
    <3> QED
      BY <3>1, <3>2
  <2>9. CASE Rmdir(q)
    <3>1. PICK x \in Name \cup {LINK} : entry[x] # None
      BY <1>1, <2>9 DEF Rmdir, Empty
    <3> QED
      BY <1>4, <2>9, <3>1 DEF Rmdir
  <2>10. CASE Crash(q)
    BY <1>1, <1>7, <2>10 DEF Crash, Goto, Looks
  <2> QED
    BY <2>1, <2>2, <2>3, <2>4, <2>5, <2>6, <2>7, <2>8, <2>9, <2>10 DEF Step
<1> QED
  BY <1>5, <1>6, <1>7

LEMMA CleanupInv ==
  /\ Init => CInv
  /\ CInv /\ [Next]_vars => CInv'
<1>1. ASSUME Init PROVE CInv
  BY <1>1, InitInv DEF CInv, Init, Responsible
<1>2. ASSUME CInv, NEW q \in Process, Step(q) PROVE CInv'
  <2>1. IInv'
    BY <1>2, StepKept DEF CInv
  <2>2. ASSUME NEW x \in Name \cup {LINK}
        PROVE  (entry[x] # None => Holder(entry[x].by, x))'
    <3> SUFFICES ASSUME entry'[x] # None PROVE Holder(entry[x].by, x)'
      OBVIOUS
    <3>1. PICK m \in Process : entry'[x].by = m /\ Holder(m, x)'
      BY <1>2, HeldKept
    <3> QED
      BY <3>1 DEF Holder
  <2>3. (dir => \E p \in Process : Looks(p))'
    <3>1. dir' = TRUE \/ ~dir'
      BY <2>1 DEF IInv, TypeOK
    <3> QED
      BY <1>2, <3>1, LooksKept
  <2> QED
    BY <2>1, <2>2, <2>3 DEF CInv, Responsible
<1>3. ASSUME CInv, UNCHANGED vars PROVE CInv'
  <2>1. IInv'
    BY <1>3, NextInv DEF CInv
  <2>2. Responsible'
    BY <1>3 DEF vars, CInv, Responsible, Holder, Looks
  <2> QED
    BY <2>1, <2>2 DEF CInv
<1> QED
  BY <1>1, <1>2, <1>3 DEF Next

\* Whatever the order in which processes look and remove, the last of them leaves no
\* directory behind, unless one crashed (server.c:71-79, client.c:83-87).
THEOREM LastLeavesNothing == Spec => []NothingLeft
<1>1. CInv => NothingLeft
  BY DEF CInv, Responsible, NothingLeft, Looks, Has, Linked
<1> QED
  BY <1>1, CleanupInv, PTL DEF Spec
=============================================================================
