---------------------------- MODULE MCReplicatedKV ----------------------------
(* ReplicatedKV on small instances. *)
EXTENDS ReplicatedKV

\* The client puts, then deletes.
PutThenDelete ==
  \A c \in Clients : \A n \in DOMAIN asked[c] :
    asked[c][n].op = IF n = 1 THEN "put" ELSE "del"
=============================================================================
