---------------------------- MODULE MCPatchApply ----------------------------
(* Model-checking instance of PatchApply.                                  *)
EXTENDS PatchApply, TLC

CONSTANTS
  t1, t2,       \* model values for Threads
  u1, u2,       \* model values for Deciders
  f1, f2        \* model values for Files

\* Threads call the approval service too, through the guard.
AllCallers == {t1, t2, u1, u2}

\* The properties are safety properties that name no thread and no decider.
Symmetry == Permutations({t1, t2}) \cup Permutations({u1, u2})

\* plan.affected_files.
PlanOrder == <<f1, f2>>
=============================================================================
