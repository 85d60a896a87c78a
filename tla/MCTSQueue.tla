----------------------------- MODULE MCTSQueue ------------------------------
(***************************************************************************)
(* Two enqueuing threads, two dequeuing threads and the size reader share  *)
(* a ring of two slots, for three items: the ring wraps, both condition    *)
(* variables hold waiters, and both sides can wait in the same behaviour.  *)
(***************************************************************************)
EXTENDS TSQueue
=============================================================================
