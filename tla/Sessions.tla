------------------------------ MODULE Sessions ------------------------------
(***************************************************************************)
(* What the server promises: a set of sessions, one per client it has      *)
(* welcomed, that changes by one session at a time.  A client joins while  *)
(* it reads its FIFO, under a nick, a FIFO and a number nobody else has,    *)
(* and is told so in the same step; nobody else is told so.  A session ends *)
(* in one of two ways: its client has stopped reading, or it is told BYEE   *)
(* in the same step.  The server may stop, and then does nothing more.      *)
(***************************************************************************)
EXTENDS Integers

CONSTANTS Path, Nick, MAX_NUM, MAX_USERS

Session == [id : 0 .. MAX_USERS, nick : Nick, path : Path]

VARIABLES
  phase,      \* "running", then "exited"
  sessions,   \* the sessions it keeps
  reading,    \* the FIFOs that somebody reads
  welcomed,   \* the FIFOs the last step wrote a welcome to, and the number in it
  dismissed   \* the FIFOs it wrote a BYEE to, and the number in it

vars == <<phase, sessions, reading, welcomed, dismissed>>

Init ==
  /\ phase = "running"
  /\ sessions = {}
  /\ reading = {}
  /\ welcomed = {}
  /\ dismissed = {}

Fresh(s) ==
  \A r \in sessions : r.id # s.id /\ r.nick # s.nick /\ r.path # s.path

\* The one exception to the welcome: a number that no packet can carry.
Join(s) ==
  /\ phase = "running"
  /\ Fresh(s)
  /\ sessions' = sessions \cup {s}
  /\ IF s.id <= MAX_NUM
     THEN s.path \in reading /\ welcomed' = {<<s.path, s.id>>}
     ELSE welcomed' = {}
  /\ dismissed' = {}
  /\ UNCHANGED <<phase, reading>>

Leave(s) ==
  /\ phase = "running"
  /\ sessions' = sessions \ {s}
  /\ welcomed' = {}
  /\ dismissed' = IF s.path \in reading THEN {<<s.path, s.id>>} ELSE {}
  /\ UNCHANGED <<phase, reading>>

\* Anything else, the clients' opening and closing of their FIFOs included.
Quiet ==
  /\ welcomed' = {}
  /\ dismissed' = {}
  /\ UNCHANGED <<phase, sessions>>

Stop ==
  /\ phase = "running"
  /\ phase' = "exited"
  /\ sessions' = {}
  /\ welcomed' = {}
  /\ dismissed' = {}
  /\ UNCHANGED reading

Next ==
  \/ \E s \in Session : Join(s)
  \/ \E s \in sessions : Leave(s)
  \/ Quiet
  \/ Stop

Spec == Init /\ [][Next]_vars
=============================================================================
