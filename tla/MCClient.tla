------------------------------ MODULE MCClient ------------------------------
(* The lines a user may type and the packets a server may send to a client    *)
(* alone: answers to anything, lists of two users, and files of no part or of *)
(* two.  Several files arrive together where nothing else happens.            *)
EXTENDS Client, TLC, FiniteSetsExt

CONSTANT FileIds

\* A client to which nothing has happened but that files arrived.
OnlyReceives(c) ==
  /\ cl[c].hist = 0 /\ cl[c].current_hist = 0 /\ cl[c].nick = Null /\ ~cl[c].no_wait
  /\ ~cl[c].has_id /\ cl[c].roster = <<>> /\ cl[c].last_prvt = NoNick
  /\ cl[c].blame \subseteq {"lost part", "behind", "third"}

\* What is on its way to a client or arrives there is at most the one file with number 0.
OneFileArrives(c) ==
  /\ \A k \in DOMAIN cl[c].downloads : k = 1 /\ cl[c].downloads[k] # Null /\ cl[c].downloads[k].id = 0
  /\ \A k \in DOMAIN inbox[c] : inbox[c][k][1] = "FILE" => inbox[c][k][3] = 0

\* Bound: what is typed or answered has nothing to do with the list of downloads; each
\* is tried with everything of its kind and with at most one of the other.
TypesOrReceives == \A c \in Clients : OnlyReceives(c) \/ OneFileArrives(c)

MCPartsOf == [f \in File |-> 2]

MCLines == Line

FilePackets ==
  {<<"FILE", 0, id, parts, n, f>> : id \in FileIds, parts \in {0, 2}, n \in Nick, f \in File}
    \cup {<<"FILE", 1, id, <<f, 1>>>> : id \in FileIds, f \in File}

MCPackets ==
  {<<"OKOK", 0>>, <<"BADD">>, <<"BCST">>, <<"SHUT">>, <<"BYEE", 0>>, <<"BYEE", 1>>}
    \cup ({"PRVT"} \X Nick) \cup ({"LIST"} \X {1} \X Nick)
    \cup FilePackets

\* Bound: what a download leaves matters to no later step, so one file that arrives,
\* or one part that does not, is enough.
OneFileKept ==
  \A c \in Clients :
    /\ Cardinality(cl[c].files) <= 1
    /\ "lost part" \in cl[c].blame => cl[c].files = {}
=============================================================================
