-------------------------------- MODULE TmpDir --------------------------------
(***************************************************************************)
(* Servers and clients that start, end and crash around /tmp/tCHATche, the *)
(* directory they share without a lock: the FIFOs they make there, the     *)
(* link "server" by which clients find a server, and the removal of the    *)
(* directory by whoever believes to be the last (src/common/tchatche.c,    *)
(* server_init, server_end, open_server_pipe, open_client_pipe,            *)
(* client_end).  Every system call is a step of its own.                   *)
(*                                                                         *)
(* All processes run without arguments, so that their FIFOs are temporary  *)
(* and clients follow the link.  A process fails only where a system call  *)
(* can fail because of the others.                                         *)
(***************************************************************************)
EXTENDS Naturals

CONSTANTS
  Server, Client,          \* processes, each run once
  ServerName, ClientName,  \* what mkstemp makes of the two templates
  LINK,                    \* the name of the link
  None                     \* no entry, no process, no name

Process == Server \cup Client
Name == ServerName \cup ClientName
Entry == [kind : {"file", "fifo", "link"}, by : Process]

ASSUME TmpDirAssumption ==
  /\ Server \cap Client = {}
  /\ LINK \notin Name
  /\ None \notin Entry
  /\ None \notin Name

VARIABLES
  dir,              \* whether the directory exists
  entry,            \* what each name in it stands for, and who made it
  pc,               \* the next system call of each process
  path,             \* serv->path or cl->client_path
  i,                \* the counter of mkstmpfifo
  errno,            \* why a process exited
  symlink_created,  \* serv->symlink_created
  server_pipe       \* whose FIFO a client opens or has opened

vars == <<dir, entry, pc, path, i, errno, symlink_created, server_pipe>>

Empty == \A x \in DOMAIN entry : entry[x] = None
Names(p) == IF p \in Server THEN ServerName ELSE ClientName

\* Process p goes on to its next call.
Goto(p, label) == pc' = [pc EXCEPT ![p] = label]

\* error_exit, or exit(EXIT_FAILURE)
Fail(p, e) ==
  /\ Goto(p, "failed")
  /\ errno' = [errno EXCEPT ![p] = e]
  /\ UNCHANGED <<dir, entry, path, i, symlink_created, server_pipe>>

\* Process p makes name x, or with e = None removes it.
Put(x, e) == entry' = [entry EXCEPT ![x] = e]

Init ==
  /\ dir = FALSE
  /\ entry = [x \in Name \cup {LINK} |-> None]
  /\ pc = [p \in Process |-> IF p \in Server THEN "mkdir" ELSE "lookup"]
  /\ path = [p \in Process |-> None]
  /\ i = [p \in Process |-> 0]
  /\ errno = [p \in Process |-> ""]
  /\ symlink_created = [p \in Process |-> FALSE]
  /\ server_pipe = [p \in Process |-> None]

-----------------------------------------------------------------------------
\* open(LINK, O_WRONLY): the link is followed to whatever has the name now, and fails if
\* nothing has; a plain file opens, but is not a FIFO.
Lookup(p) ==
  LET fd == IF entry[LINK] = None THEN None ELSE entry[path[entry[LINK].by]]
  IN  /\ pc[p] = "lookup"
      /\ IF fd = None THEN Fail(p, "ENOENT")
         ELSE IF fd.kind # "fifo" THEN Fail(p, "Not FIFO")
         ELSE /\ server_pipe' = [server_pipe EXCEPT ![p] = fd.by]
              /\ Goto(p, "wait")
              /\ UNCHANGED <<dir, entry, path, i, errno, symlink_created>>

\* The same open returns when the FIFO has a reader.
Opened(p) ==
  /\ pc[p] = "wait"
  /\ pc[server_pipe[p]] \in {"symlink", "running"}
  /\ Goto(p, "mkdir")
  /\ UNCHANGED <<dir, entry, path, i, errno, symlink_created, server_pipe>>

\* mktmpdir
Mkdir(p) ==
  /\ pc[p] = "mkdir"
  /\ dir' = TRUE
  /\ Goto(p, "mkstemp")
  /\ UNCHANGED <<entry, path, i, errno, symlink_created, server_pipe>>

\* mkstemp and close.  mkstemp writes the name over the XXXXXX of its argument and needs
\* them: a second call with the same array fails.
Mkstemp(p) ==
  /\ pc[p] = "mkstemp"
  /\ IF path[p] # None THEN Fail(p, "EINVAL")
     ELSE IF ~dir THEN Fail(p, "ENOENT")
     ELSE \E x \in Names(p) :
            /\ entry[x] = None
            /\ Put(x, [kind |-> "file", by |-> p])
            /\ path' = [path EXCEPT ![p] = x]
            /\ Goto(p, "unlink")
            /\ UNCHANGED <<dir, i, errno, symlink_created, server_pipe>>

\* unlink(path), to make room for the FIFO
UnlinkFile(p) ==
  /\ pc[p] = "unlink"
  /\ IF entry[path[p]] = None THEN Fail(p, "ENOENT")
     ELSE /\ Put(path[p], None)
          /\ Goto(p, "mkfifo")
          /\ UNCHANGED <<dir, path, i, errno, symlink_created, server_pipe>>

\* Mutant of Mkfifo: a name that exists is taken over.
MkfifoOver(p) ==
  /\ pc[p] = "mkfifo"
  /\ IF ~dir THEN Fail(p, "ENOENT")
     ELSE /\ Put(path[p], [kind |-> "fifo", by |-> p])
          /\ Goto(p, "open")
          /\ i' = [i EXCEPT ![p] = @ + 1]
          /\ UNCHANGED <<dir, path, errno, symlink_created, server_pipe>>

\* Mutant of Mkfifo: a collision is an error like any other.
MkfifoOnce(p) ==
  /\ pc[p] = "mkfifo"
  /\ IF ~dir THEN Fail(p, "ENOENT")
     ELSE IF entry[path[p]] # None THEN Fail(p, "EEXIST")
     ELSE /\ Put(path[p], [kind |-> "fifo", by |-> p])
          /\ Goto(p, "open")
          /\ i' = [i EXCEPT ![p] = @ + 1]
          /\ UNCHANGED <<dir, path, errno, symlink_created, server_pipe>>

\* mkfifo, and the end of the loop in mkstmpfifo: after ten rounds it gives up and
\* returns NULL, which no caller can open.
Mkfifo(p) ==
  /\ pc[p] = "mkfifo"
  /\ IF ~dir THEN Fail(p, "ENOENT")
     ELSE /\ IF entry[path[p]] = None
             THEN Put(path[p], [kind |-> "fifo", by |-> p]) /\ Goto(p, "open")
             ELSE Goto(p, IF i[p] + 1 < 10 THEN "mkstemp" ELSE "failed") /\ UNCHANGED entry
          /\ i' = [i EXCEPT ![p] = @ + 1]
          /\ UNCHANGED <<dir, path, errno, symlink_created, server_pipe>>

\* The FIFO is opened by its maker, which does not wait for a writer.
Open(p) ==
  /\ pc[p] = "open"
  /\ Goto(p, IF p \in Server THEN "symlink" ELSE "running")
  /\ UNCHANGED <<dir, entry, path, i, errno, symlink_created, server_pipe>>

\* symlink(basename(serv->path), LINK): the first server has it.
Symlink(p) ==
  /\ pc[p] = "symlink"
  /\ symlink_created' = [symlink_created EXCEPT ![p] = dir /\ entry[LINK] = None]
  /\ Put(LINK, IF symlink_created'[p] THEN [kind |-> "link", by |-> p] ELSE entry[LINK])
  /\ Goto(p, "running")
  /\ UNCHANGED <<dir, path, i, errno, server_pipe>>

\* SHUT for a server, Ctrl-D for a client; server_end and client_end close the FIFO.
End(p) ==
  /\ pc[p] = "running"
  /\ Goto(p, "unlink_path")
  /\ UNCHANGED <<dir, entry, path, i, errno, symlink_created, server_pipe>>

\* Mutant of UnlinkPath: clients leave the directory to the servers.
UnlinkPathOnly(p) ==
  /\ pc[p] = "unlink_path"
  /\ Put(path[p], None)
  /\ Goto(p, IF p \in Server THEN "unlink_link" ELSE "done")
  /\ UNCHANGED <<dir, path, i, errno, symlink_created, server_pipe>>

UnlinkPath(p) ==
  /\ pc[p] = "unlink_path"
  /\ Put(path[p], None)
  /\ Goto(p, IF p \in Server THEN "unlink_link" ELSE "dir_is_empty")
  /\ UNCHANGED <<dir, path, i, errno, symlink_created, server_pipe>>

\* Mutant of UnlinkLink: every server removes the link.
UnlinkLinkAlways(p) ==
  /\ pc[p] = "unlink_link"
  /\ Put(LINK, None)
  /\ Goto(p, "dir_is_empty")
  /\ UNCHANGED <<dir, path, i, errno, symlink_created, server_pipe>>

UnlinkLink(p) ==
  /\ pc[p] = "unlink_link"
  /\ Put(LINK, IF symlink_created[p] THEN None ELSE entry[LINK])
  /\ Goto(p, "dir_is_empty")
  /\ UNCHANGED <<dir, path, i, errno, symlink_created, server_pipe>>

\* dir_is_empty(TMP), false also when the directory is gone
DirIsEmpty(p) ==
  /\ pc[p] = "dir_is_empty"
  /\ Goto(p, IF dir /\ Empty THEN "rmdir" ELSE "done")
  /\ UNCHANGED <<dir, entry, path, i, errno, symlink_created, server_pipe>>

\* rmdir(TMP), which fails on a directory that is no longer empty
Rmdir(p) ==
  /\ pc[p] = "rmdir"
  /\ dir' = (dir /\ ~Empty)
  /\ Goto(p, "done")
  /\ UNCHANGED <<entry, path, i, errno, symlink_created, server_pipe>>

\* A signal that is not handled: whatever the process has made stays.
Crash(p) ==
  /\ pc[p] \notin {"done", "failed", "crashed"}
  /\ Goto(p, "crashed")
  /\ UNCHANGED <<dir, entry, path, i, errno, symlink_created, server_pipe>>

Step(p) ==
  \/ Lookup(p) \/ Opened(p)
  \/ Mkdir(p) \/ Mkstemp(p) \/ UnlinkFile(p) \/ Mkfifo(p) \/ Open(p) \/ Symlink(p)
  \/ End(p) \/ UnlinkPath(p) \/ UnlinkLink(p) \/ DirIsEmpty(p) \/ Rmdir(p)
  \/ Crash(p)

Next == \E p \in Process : Step(p)

Spec == Init /\ [][Next]_vars

-----------------------------------------------------------------------------
Label ==
  {"lookup", "wait", "mkdir", "mkstemp", "unlink", "mkfifo", "open", "symlink", "running",
   "unlink_path", "unlink_link", "dir_is_empty", "rmdir", "done", "failed", "crashed"}

\* The variables have their types: mkstmpfifo counts to ten at most, and no process ends
\* because mkfifo met a name that exists (EEXIST).
TypeOK ==
  /\ dir \in BOOLEAN
  /\ entry \in [Name \cup {LINK} -> Entry \cup {None}]
  /\ pc \in [Process -> Label]
  /\ path \in [Process -> Name \cup {None}]
  /\ i \in [Process -> 0 .. 10]
  /\ errno \in [Process -> {"", "ENOENT", "EINVAL", "Not FIFO"}]
  /\ symlink_created \in [Process -> BOOLEAN]
  /\ server_pipe \in [Process -> Process \cup {None}]

\* Although unlink goes by name and names are free for a moment between unlink and
\* mkfifo, an entry of the directory changes only in a step of the process that made it.
NobodyTouchesOthers ==
  [][\A x \in DOMAIN entry :
       entry[x] # None /\ entry'[x] # entry[x]
         => pc'[entry[x].by] # pc[entry[x].by]]_vars

\* From mkfifo on and until it removes it, a process finds its own FIFO under its path,
\* in a directory nobody has removed.
Reachable ==
  \A p \in Process :
    pc[p] \in {"open", "symlink", "running", "unlink_path"} =>
      /\ dir
      /\ entry[path[p]] = [kind |-> "fifo", by |-> p]

\* When all who used the directory have ended and nobody has crashed, it is gone, in
\* whatever order they looked whether it was empty.
NothingLeft ==
  (\A p \in Process : pc[p] \in {"lookup", "wait", "mkdir", "done", "failed"}) => ~dir
=============================================================================
