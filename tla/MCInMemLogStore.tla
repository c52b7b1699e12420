--------------------------- MODULE MCInMemLogStore ---------------------------
(* InMemLogStore on small instances. *)
EXTENDS InMemLogStore
=============================================================================
