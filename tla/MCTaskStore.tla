---------------------------- MODULE MCTaskStore ----------------------------
(* A small instance of TaskStore for TLC: the error codes that matter to it. *)
EXTENDS TaskStore

MCCodes == {"none", "runtime", "auth"}
=============================================================================
