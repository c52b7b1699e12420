----------------------------- MODULE MCCrashDump -----------------------------
(* CrashDump on small instances. *)
EXTENDS CrashDump
=============================================================================
