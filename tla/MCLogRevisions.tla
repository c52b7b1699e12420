---------------------------- MODULE MCLogRevisions ----------------------------
(* LogRevisions on small instances. *)
EXTENDS LogRevisions
=============================================================================
