---------------------------- MODULE MCSynchList -----------------------------
(***************************************************************************)
(* Two threads that append three items and two that remove them: several   *)
(* threads sleep on the lock, several wait for the condition, and a thread *)
(* woken by V meets a new caller.                                          *)
(***************************************************************************)
EXTENDS SynchList
=============================================================================
