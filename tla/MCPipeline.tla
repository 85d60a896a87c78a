----------------------------- MODULE MCPipeline -----------------------------
(***************************************************************************)
(* Small queues and thresholds, so that a few lines fill every queue, the  *)
(* pool grows past one consumer and shrinks again.                         *)
(***************************************************************************)
EXTENDS Pipeline

=============================================================================
