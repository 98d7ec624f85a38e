--------------------------- MODULE TaskRunLifecycle ---------------------------
(* The lifecycle of a TaskRun, as the policy file and                      *)
(* TaskRunLifecycleService define it, with the maps between a run's        *)
(* status, its terminal event and its result that TaskRunStore uses.       *)

Statuses ==
  {"created", "queued", "waiting_delegation", "running", "waiting_input",
   "completed", "partial", "failed", "cancelled", "blocked", "expired"}

TerminalStates ==
  {"completed", "partial", "failed", "cancelled", "blocked", "expired"}

IsTerminal(status) == status \in TerminalStates

CanCancel(status) ==
  status \in {"created", "queued", "waiting_delegation", "running", "waiting_input"}

\* The states in which cancel() ends the run itself; in the others it only
\* leaves a request for the loop.
CancelledAtOnce(status) == status \in {"created", "queued", "waiting_input"}

\* The states the terminalization guards act on.
Supervised(status) == status \in {"running", "queued", "created"}

ResultStatuses ==
  {"completed", "completed_with_limitations", "partial", "failed", "cancelled", "blocked"}

\* The run status that _cohere_terminal_result projects from a result.
RunStatusOf(result) ==
  IF result = "completed_with_limitations" THEN "partial" ELSE result

\* The terminal event for a result, named by the status it announces
\* (run_completed is "completed", ...).
EventOf(result) == RunStatusOf(result)

\* The result that ensure_terminal_result derives from a terminal run: a
\* conservative one, or the one the semantic completion policy decides when
\* evidence-bound artifacts were produced ("blocked" when that raises).
ConservativeResult(status) == IF status = "expired" THEN "blocked" ELSE status

SemanticResults(status) ==
  CASE status = "cancelled" -> {"blocked"}
    [] status = "failed" -> {"failed", "blocked"}
    [] status = "completed" -> {"completed", "completed_with_limitations", "blocked"}
    [] OTHER -> {"completed_with_limitations", "blocked"}
=============================================================================
