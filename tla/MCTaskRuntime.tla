---------------------------- MODULE MCTaskRuntime ----------------------------
(* Instances of TaskRuntime for TLC: which threads work on the run.        *)
EXTENDS TaskRuntime
=============================================================================
