------------------------------ MODULE MCLogRing ------------------------------
(* LogRing on small instances. *)
EXTENDS LogRing
=============================================================================
