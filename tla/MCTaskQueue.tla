----------------------------- MODULE MCTaskQueue -----------------------------
(* Instances of TaskQueue for TLC: who processes the queue, and who calls. *)
EXTENDS TaskQueue
=============================================================================
