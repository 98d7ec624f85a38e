----------------------------- MODULE TaskRuntime -----------------------------
(* One TaskRun and the threads of the process that work on it.  The run is *)
(* four files, each replaced atomically and without a common lock:         *)
(* run.json, run_index.json, result.json and events.json.  A thread reads  *)
(* a file in one step and writes one in another, and carries its own copy  *)
(* of the run in between, as the code does:                                *)
(*   Starters     TaskRuntimeService.start, SupervisedExecutionLoop.run    *)
(*   Cancellers   TaskRunCancellationService.cancel                        *)
(*   Supervisors  terminalize_if_runtime_budget_exceeded, from a client    *)
(*                reading the task session                                 *)
(*   StallGuards  terminalize_if_artifact_creation_stalled, from the queue *)
(*   WorkerGuards the guard thread beside an artifact worker,              *)
(*                _accepted_worker_guard_loop                              *)
(*   Boundaries   start_public_boundary, answering before the worker ends  *)
(*   Readers      TaskRuntimeService.get_result                            *)
(* The event log is represented by what these threads ask of it: its       *)
(* terminal event, whether the run was started, and whether an artifact    *)
(* creation is open.  An append is one step, taken when the store lock can *)
(* be entered, as RunEventLog shows it may be.                             *)
EXTENDS Naturals, Sequences, TaskRunLifecycle

CONSTANTS
  Starters, Cancellers, Supervisors, StallGuards, WorkerGuards, Boundaries, Readers,
  Workers,      \* the starters that are artifact worker threads
  NoThread,     \* nobody holds the store lock
  NSteps,       \* steps of the run's plan
  Required,     \* those of them that are required
  ArtifactSteps, \* those of them that create an artifact
  StepOutcomes, \* outcomes of a step that was not cancelled
  InitialStatuses, \* statuses in which the calls may find the run
  MaxCancels,   \* bound: calls of cancel()
  MaxCrashes    \* bound: restarts of the process

Threads == Starters \cup Cancellers \cup Supervisors \cup StallGuards
             \cup WorkerGuards \cup Boundaries \cup Readers

ASSUME ThreadAssumption == NoThread \notin Threads /\ Workers \subseteq Starters
ASSUME StepAssumption ==
  NSteps \in Nat /\ Required \subseteq 1..NSteps /\ ArtifactSteps \subseteq 1..NSteps
ASSUME OutcomeAssumption == StepOutcomes \subseteq {"completed", "partial", "failed", "blocked"}
ASSUME BoundAssumption == MaxCancels \in Nat /\ MaxCrashes \in Nat
ASSUME StatusAssumption == InitialStatuses \subseteq Statuses \ TerminalStates

VARIABLES
  runJson,      \* run.json: status and cancellation_requested
  index,        \* run_index.json: status
  result,       \* result.json: status, or "none"
  term,         \* the terminal event: the status it announces, or "none"
  started,      \* a run_started event is recorded
  artifact,     \* artifact creation: "none", "open" or "closed"
  lock,         \* holder of _terminal_event_lock, or NoThread
  overBudget,   \* the runtime budget has passed since the start
  pc, stack,    \* per thread: next step, and the steps to return to
  mem,          \* per thread: its copy of the run
  data,         \* per thread: run.json as _cohere_terminal_result read it
  res,          \* per thread: the result it returns or saves, or "none"
  step,         \* per starter: the plan step it is at
  out,          \* per starter: the terminal status it is heading for
  executed,     \* history: the plan steps each starter began to execute
  succeeded,    \* the plan steps each starter saw completed
  cancelAcked,  \* history: a cancel() that recorded its request has returned
  cancels,      \* history: calls of cancel() so far
  crashes       \* history: restarts so far

files == <<runJson, index, result, term, started, artifact>>
locals == <<mem, data, res, step, out>>
history == <<executed, succeeded, cancelAcked, cancels, crashes>>
vars == <<files, lock, overBudget, pc, stack, locals, history>>

Run == [status : Statuses, cancel : BOOLEAN]

NoRun == [status |-> "created", cancel |-> FALSE]   \* a thread without a copy

(* Where a thread can be: in an operation of the store, which ends in a    *)
(* return, or at a step of its own call.                                   *)
Lookups == {"get_result", "get_index", "ensure", "ensure_run", "stall", "stall_run"}

Saves == {"save_result", "cohere", "cohere_run", "cohere_index", "ensure_event", "guard_event"}

Callees == Lookups \cup Saves \cup {"update_run", "update_index"}

InPlanStep == {"step_decide", "execute", "artifact_start", "artifact_create",
               "artifact_done", "artifact_rejected"}

Loop == InPlanStep \cup {"step"}

OfStart == Loop \cup {"start_test", "finish", "finalize", "tail_reload", "start_done"}

Tops ==
  OfStart
    \cup {"idle", "done", "raised", "returned", "cancel_request", "cancel_event", "cancel_done",
          "budget_index", "budget_run", "budget_ensured", "budget_decide",
          "budget_stalled", "budget_block", "unlock", "watch_seen", "watch_exit",
          "gap_run", "gap_raised", "gap_reload", "gap_done", "read_ensure", "read_done"}

Labels == Callees \cup Tops

(* Every variable has its type; in particular no result or event carries a *)
(* status outside the lifecycle.                                           *)
TypeOK ==
  /\ runJson \in Run
  /\ index \in Statuses
  /\ result \in ResultStatuses \cup {"none"}
  /\ term \in TerminalStates \cup {"none"}
  /\ started \in BOOLEAN /\ overBudget \in BOOLEAN /\ cancelAcked \in BOOLEAN
  /\ artifact \in {"none", "open", "closed"}
  /\ lock \in Threads \cup {NoThread}
  /\ pc \in [Threads -> Labels]
  /\ stack \in [Threads -> Seq(Labels)]
  /\ mem \in [Threads -> Run] /\ data \in [Threads -> Run]
  /\ res \in [Threads -> ResultStatuses \cup {"none"}]
  /\ step \in [Threads -> 1..(NSteps + 1)]
  /\ out \in [Threads -> TerminalStates]
  /\ succeeded \subseteq executed
  /\ executed \subseteq Starters \X (1..NSteps)
  /\ cancels \in 0..MaxCancels /\ crashes \in 0..MaxCrashes

Init ==
  /\ \E s \in InitialStatuses : /\ runJson = [status |-> s, cancel |-> FALSE]
                                /\ index = s
  /\ result = "none" /\ term = "none" /\ started = FALSE /\ artifact = "none"
  /\ lock = NoThread /\ overBudget = FALSE
  /\ pc = [t \in Threads |-> "idle"]
  /\ stack = [t \in Threads |-> <<>>]
  /\ mem = [t \in Threads |-> NoRun] /\ data = mem
  /\ res = [t \in Threads |-> "none"]
  /\ step = [t \in Threads |-> 1]
  /\ out = [t \in Threads |-> "completed"]
  /\ executed = {} /\ succeeded = {} /\ cancelAcked = FALSE
  /\ cancels = 0 /\ crashes = 0

----------------------------------------------------------------------------
(* Control.                                                                *)
At(t, label) == pc[t] = label

Goto(t, label) == /\ pc' = [pc EXCEPT ![t] = label]
                  /\ UNCHANGED stack

\* Run the calls one after the other, then go on at the label given last.
Then(t, labels) == /\ pc' = [pc EXCEPT ![t] = Head(labels)]
                   /\ stack' = [stack EXCEPT ![t] = Tail(labels) \o @]

\* The end of a call: the thread forgets its locals.
Finish(t, label) ==
  /\ pc' = [pc EXCEPT ![t] = label]
  /\ stack' = [stack EXCEPT ![t] = <<>>]
  /\ mem' = [mem EXCEPT ![t] = NoRun] /\ data' = [data EXCEPT ![t] = NoRun]
  /\ res' = [res EXCEPT ![t] = "none"]
  /\ step' = [step EXCEPT ![t] = 1] /\ out' = [out EXCEPT ![t] = "completed"]

Return(t) == /\ pc' = [pc EXCEPT ![t] = Head(stack[t])]
             /\ stack' = [stack EXCEPT ![t] = Tail(@)]

MayEnter(t) == lock \in {NoThread, t}

\* append_event of a terminal event: only the first one is recorded.
AppendTerminal(t, status) ==
  /\ MayEnter(t)
  /\ term' = IF term = "none" THEN status ELSE term

\* What the store's own operations leave alone.
KeepRest == UNCHANGED <<lock, overBudget, history>>

----------------------------------------------------------------------------
(* TaskRunStore.                                                           *)

(* update_run: the thread's copy replaces run.json, then the index.        *)
UpdateRun(t) ==
  /\ At(t, "update_run")
  /\ runJson' = mem[t]
  /\ Goto(t, "update_index")
  /\ UNCHANGED <<index, result, term, started, artifact, locals>> /\ KeepRest

UpdateIndex(t) ==
  /\ At(t, "update_index")
  /\ index' = mem[t].status
  /\ Return(t)
  /\ UNCHANGED <<runJson, result, term, started, artifact, locals>> /\ KeepRest

(* save_result: result.json first, then _cohere_terminal_result.           *)
SaveResult(t) ==
  /\ At(t, "save_result")
  /\ result' = res[t]
  /\ Goto(t, "cohere")
  /\ UNCHANGED <<runJson, index, term, started, artifact, locals>> /\ KeepRest

\* Mutant: a run that is no longer running is left as it is.
CohereReadRunningOnly(t) ==
  /\ At(t, "cohere")
  /\ IF runJson.status # "running"
     THEN UNCHANGED data /\ Return(t)
     ELSE data' = [data EXCEPT ![t] = runJson] /\ Goto(t, "cohere_run")
  /\ UNCHANGED files /\ UNCHANGED <<mem, res, step, out>> /\ KeepRest

CohereRead(t) ==
  /\ At(t, "cohere")
  /\ IF runJson.status = RunStatusOf(res[t])
     THEN UNCHANGED data /\ Return(t)
     ELSE data' = [data EXCEPT ![t] = runJson] /\ Goto(t, "cohere_run")
  /\ UNCHANGED files /\ UNCHANGED <<mem, res, step, out>> /\ KeepRest

CohereRun(t) ==
  /\ At(t, "cohere_run")
  /\ runJson' = [data[t] EXCEPT !.status = RunStatusOf(res[t])]
  /\ Goto(t, "cohere_index")
  /\ UNCHANGED <<index, result, term, started, artifact, locals>> /\ KeepRest

CohereIndex(t) ==
  /\ At(t, "cohere_index")
  /\ index' = RunStatusOf(res[t])
  /\ data' = [data EXCEPT ![t] = NoRun]
  /\ Return(t)
  /\ UNCHANGED <<runJson, result, term, started, artifact, mem, res, step, out>> /\ KeepRest

(* get_result: a persisted result is projected onto the run; without one,  *)
(* a terminal index asks for ensure_terminal_result.                       *)
GetResult(t) ==
  /\ At(t, "get_result")
  /\ res' = [res EXCEPT ![t] = result]
  /\ Goto(t, IF result = "none" THEN "get_index" ELSE "cohere")
  /\ UNCHANGED files /\ UNCHANGED <<mem, data, step, out>> /\ KeepRest

GetIndex(t) ==
  /\ At(t, "get_index")
  /\ IF IsTerminal(index) THEN Goto(t, "ensure") ELSE Return(t)
  /\ UNCHANGED files /\ UNCHANGED locals /\ KeepRest

(* ensure_terminal_result: an existing result is returned as it is; only a *)
(* terminal run.json is given one, and a terminal event if it has none.    *)
EnsureRead(t) ==
  /\ At(t, "ensure")
  /\ res' = [res EXCEPT ![t] = result]
  /\ IF result = "none" THEN Goto(t, "ensure_run") ELSE Return(t)
  /\ UNCHANGED files /\ UNCHANGED <<mem, data, step, out>> /\ KeepRest

TerminalResults(status) ==
  {ConservativeResult(status)}
    \cup IF artifact = "closed" THEN SemanticResults(status) ELSE {}

\* Mutant: a cancelled run is thought to need no result.
EnsureRunUnlessCancelled(t) ==
  /\ At(t, "ensure_run")
  /\ IF IsTerminal(runJson.status) /\ runJson.status # "cancelled"
     THEN /\ \E r \in TerminalResults(runJson.status) : res' = [res EXCEPT ![t] = r]
          /\ Then(t, <<"save_result", "ensure_event">>)
     ELSE UNCHANGED res /\ Return(t)
  /\ UNCHANGED files /\ UNCHANGED <<mem, data, step, out>> /\ KeepRest

EnsureRun(t) ==
  /\ At(t, "ensure_run")
  /\ IF IsTerminal(runJson.status)
     THEN /\ \E r \in TerminalResults(runJson.status) : res' = [res EXCEPT ![t] = r]
          /\ Then(t, <<"save_result", "ensure_event">>)
     ELSE UNCHANGED res /\ Return(t)
  /\ UNCHANGED files /\ UNCHANGED <<mem, data, step, out>> /\ KeepRest

EnsureEvent(t) ==
  /\ At(t, "ensure_event")
  /\ AppendTerminal(t, EventOf(res[t]))
  /\ Return(t)
  /\ UNCHANGED <<runJson, index, result, started, artifact, locals>> /\ KeepRest

StoreStep(t) ==
  \/ UpdateRun(t) \/ UpdateIndex(t) \/ SaveResult(t)
  \/ CohereRead(t) \/ CohereRun(t) \/ CohereIndex(t)
  \/ GetResult(t) \/ GetIndex(t)
  \/ EnsureRead(t) \/ EnsureRun(t) \/ EnsureEvent(t)

----------------------------------------------------------------------------
(* TaskRunCancellationService.cancel.                                      *)
Cancel(t) ==
  /\ At(t, "idle")
  /\ cancels < MaxCancels
  /\ cancels' = cancels + 1
  /\ IF CanCancel(runJson.status)
     THEN /\ mem' = [mem EXCEPT ![t] = [runJson EXCEPT !.cancel = TRUE]]
          /\ Goto(t, IF CancelledAtOnce(runJson.status) THEN "cancel_event" ELSE "cancel_request")
          /\ UNCHANGED <<data, res, step, out>>
     ELSE Finish(t, "idle")
  /\ UNCHANGED <<files, lock, overBudget, executed, succeeded, cancelAcked, crashes>>

CancelRequest(t) ==
  /\ At(t, "cancel_request")
  /\ MayEnter(t)
  /\ Then(t, <<"update_run", "cancel_done">>)
  /\ UNCHANGED <<files, locals>> /\ KeepRest

\* Mutant: only the request is recorded, not the terminal event.
CancelWithoutEvent(t) ==
  /\ At(t, "cancel_event")
  /\ MayEnter(t)
  /\ mem' = [mem EXCEPT ![t].status = "cancelled"]
  /\ Then(t, <<"update_run", "cancel_done">>)
  /\ UNCHANGED <<files, data, res, step, out>> /\ KeepRest

CancelEvent(t) ==
  /\ At(t, "cancel_event")
  /\ AppendTerminal(t, "cancelled")
  /\ mem' = [mem EXCEPT ![t].status = "cancelled"]
  /\ Then(t, <<"update_run", "cancel_done">>)
  /\ UNCHANGED <<runJson, index, result, started, artifact, data, res, step, out>>
  /\ KeepRest

CancelDone(t) ==
  /\ At(t, "cancel_done")
  /\ cancelAcked' = TRUE
  /\ Finish(t, "idle")
  /\ UNCHANGED <<files, lock, overBudget, executed, succeeded, cancels, crashes>>

CancelStep(t) == CancelRequest(t) \/ CancelEvent(t) \/ CancelDone(t)

----------------------------------------------------------------------------
(* TaskRuntimeService.start and SupervisedExecutionLoop.run.               *)
Start(t) ==
  /\ At(t, "idle")
  /\ mem' = [mem EXCEPT ![t] = runJson]
  /\ Then(t, <<"get_result", "start_test">>)
  /\ UNCHANGED <<files, data, res, step, out>> /\ KeepRest

\* Mutant: a run that is found running is taken up again.
StartTestResumes(t) ==
  /\ At(t, "start_test")
  /\ IF IsTerminal(mem[t].status)
     THEN /\ Then(t, <<"update_run", "tail_reload">>)
          /\ UNCHANGED <<files, mem>>
     ELSE /\ MayEnter(t)
          /\ started' = TRUE
          /\ mem' = [mem EXCEPT ![t].status = "running"]
          /\ Then(t, <<"update_run", "step">>)
          /\ UNCHANGED <<runJson, index, result, term, artifact>>
  /\ res' = [res EXCEPT ![t] = "none"]
  /\ UNCHANGED <<data, step, out>> /\ KeepRest

(* A run that its copy shows running or ended is returned as it is, and    *)
(* start() still writes the copy back.  A run the initial guard refuses,   *)
(* always so when its cancellation was requested, ends blocked.            *)
StartTest(t) ==
  /\ At(t, "start_test")
  /\ \/ /\ IsTerminal(mem[t].status) \/ mem[t].status = "running"
        /\ Then(t, <<"update_run", "tail_reload">>)
        /\ UNCHANGED <<files, mem, out>>
     \/ /\ ~IsTerminal(mem[t].status) /\ mem[t].status # "running"
        /\ out' = [out EXCEPT ![t] = "blocked"]
        /\ Goto(t, "finish")
        /\ UNCHANGED <<files, mem>>
     \/ /\ ~IsTerminal(mem[t].status) /\ mem[t].status # "running"
        /\ ~mem[t].cancel
        /\ MayEnter(t)
        /\ started' = TRUE
        /\ mem' = [mem EXCEPT ![t].status = "running"]
        /\ Then(t, <<"update_run", "step">>)
        /\ UNCHANGED <<runJson, index, result, term, artifact, out>>
  /\ res' = [res EXCEPT ![t] = "none"]
  /\ UNCHANGED <<data, step>> /\ KeepRest

\* Mutant: one step too many.
StepReadOneMore(t) ==
  /\ At(t, "step")
  /\ IF step[t] > NSteps + 1
     THEN UNCHANGED mem /\ Goto(t, "finish")
     ELSE /\ mem' = [mem EXCEPT ![t].cancel = @ \/ runJson.cancel]
          /\ Goto(t, "step_decide")
  /\ UNCHANGED <<files, data, res, step, out>> /\ KeepRest

(* latest = self.store.get_run(run_id)                                     *)
StepRead(t) ==
  /\ At(t, "step")
  /\ IF step[t] > NSteps
     THEN UNCHANGED mem /\ Goto(t, "finish")
     ELSE /\ mem' = [mem EXCEPT ![t].cancel = @ \/ runJson.cancel]
          /\ Goto(t, "step_decide")
  /\ UNCHANGED <<files, data, res, step, out>> /\ KeepRest

\* Mutant: a step whose dependency is missing is skipped, required or not.
StepDecideSkips(t) ==
  /\ At(t, "step_decide")
  /\ MayEnter(t)
  /\ ~mem[t].cancel
  /\ \/ /\ step' = [step EXCEPT ![t] = @ + 1]
        /\ Then(t, <<"update_run", "step">>)
     \/ /\ Then(t, <<"update_run", "update_run", "execute">>)
        /\ UNCHANGED step
  /\ UNCHANGED <<files, mem, data, res, out>> /\ KeepRest

(* The guard's checks and those of the workflow (can_start_phase): the     *)
(* step is cancelled, refused by the guard, refused for a missing          *)
(* dependency, which skips an optional step, or executed.                  *)
StepDecide(t) ==
  /\ At(t, "step_decide")
  /\ MayEnter(t)
  /\ \/ /\ mem[t].cancel
        /\ out' = [out EXCEPT ![t] = "cancelled"]
        /\ Goto(t, "finish")
        /\ UNCHANGED step
     \/ /\ ~mem[t].cancel                  \* refused by check_step
        /\ out' = [out EXCEPT ![t] = "blocked"]
        /\ Goto(t, "finish")
        /\ UNCHANGED step
     \/ /\ ~mem[t].cancel /\ step[t] \notin Required
        /\ step' = [step EXCEPT ![t] = @ + 1]
        /\ Then(t, <<"update_run", "step">>)
        /\ UNCHANGED out
     \/ /\ ~mem[t].cancel /\ step[t] \in Required
        /\ out' = [out EXCEPT ![t] = "blocked"]
        /\ Then(t, <<"update_run", "finish">>)
        /\ UNCHANGED step
     \/ /\ ~mem[t].cancel
        /\ Then(t, <<"update_run", "update_run", "execute">>)
        /\ UNCHANGED <<step, out>>
  /\ UNCHANGED <<files, mem, data, res>> /\ KeepRest

\* Mutant: the failure of a required step does not end the run.
OutcomeNotFatal(t, status) ==
  /\ MayEnter(t)
  /\ succeeded' = IF status = "completed" THEN succeeded \cup {<<t, step[t]>>} ELSE succeeded
  /\ step' = [step EXCEPT ![t] = @ + 1]
  /\ Then(t, <<"update_run", "step">>)
  /\ UNCHANGED out

(* What the loop makes of a step's outcome.  A step cancelled at one of    *)
(* its own checkpoints leaves blocked items, which make the run partial    *)
(* unless the next step sees the request.                                  *)
Outcome(t, status) ==
  LET fatal == status \in {"failed", "blocked"} /\ step[t] \in Required
      limited == status \in {"partial", "cancelled"} /\ step[t] \in Required IN
  /\ MayEnter(t)
  /\ succeeded' = IF status = "completed" THEN succeeded \cup {<<t, step[t]>>} ELSE succeeded
  /\ out' = [out EXCEPT ![t] = CASE fatal -> status [] limited -> "partial" [] OTHER -> @]
  /\ step' = [step EXCEPT ![t] = @ + 1]
  /\ Then(t, <<"update_run", IF fatal THEN "finish" ELSE "step">>)

(* executor.execute_step: a step that touches none of the run's files, or  *)
(* the step that creates an artifact.                                      *)
Execute(t) ==
  /\ At(t, "execute")
  /\ executed' = executed \cup {<<t, step[t]>>}
  /\ \/ /\ step[t] \notin ArtifactSteps
        /\ \E status \in StepOutcomes : Outcome(t, status)
     \/ /\ step[t] \in ArtifactSteps
        /\ Goto(t, "artifact_start")
        /\ UNCHANGED <<succeeded, step, out>>
  /\ UNCHANGED <<files, lock, overBudget, mem, data, res, cancelAcked, cancels, crashes>>

(* _check_phase1_budget reads the run and blocks a step that has used up   *)
(* its own time; then artifact_creation_started.                           *)
ArtifactStart(t) ==
  /\ At(t, "artifact_start")
  /\ MayEnter(t)
  /\ \/ /\ runJson.cancel
        /\ Outcome(t, "cancelled")
        /\ UNCHANGED artifact
     \/ /\ ~runJson.cancel
        /\ Outcome(t, "blocked")
        /\ UNCHANGED artifact
     \/ /\ ~runJson.cancel
        /\ artifact' = "open"
        /\ Goto(t, "artifact_create")
        /\ UNCHANGED <<succeeded, step, out>>
  /\ UNCHANGED <<runJson, index, result, term, started, lock, overBudget, mem, data, res,
                 executed, cancelAcked, cancels, crashes>>

(* The artifact's terminal event: rejected as late if the run has ended.   *)
ArtifactCreate(t) ==
  /\ At(t, "artifact_create")
  /\ MayEnter(t)
  /\ artifact' = "closed"
  /\ Then(t, <<"update_run", IF term = "none" THEN "artifact_done" ELSE "artifact_rejected">>)
  /\ UNCHANGED <<runJson, index, result, term, started, locals>> /\ KeepRest

ArtifactDone(t) ==
  /\ \/ /\ At(t, "artifact_done")
        /\ \E status \in StepOutcomes : Outcome(t, status)
     \/ /\ At(t, "artifact_rejected")
        /\ Outcome(t, "blocked")
  /\ UNCHANGED <<files, lock, overBudget, mem, data, res, executed, cancelAcked, cancels, crashes>>

(* The end of the loop: TaskCompletionResolver may lower "completed", the  *)
(* terminal event comes first, then run.json.                              *)
FinishRun(t) ==
  /\ At(t, "finish")
  /\ \E status \in IF out[t] = "completed" THEN {"completed", "partial"} ELSE {out[t]} :
       /\ AppendTerminal(t, status)
       /\ mem' = [mem EXCEPT ![t].status = status]
  /\ step' = [step EXCEPT ![t] = 1] /\ out' = [out EXCEPT ![t] = "completed"]
  /\ Then(t, <<"update_run", "finalize">>)
  /\ UNCHANGED <<runJson, index, result, started, artifact, data, res>> /\ KeepRest

(* _finalize_result: the validation gate may lower the result once more,   *)
(* which the copy of the run does not learn; start() then writes the copy. *)
Finalize(t) ==
  /\ At(t, "finalize")
  /\ \E status \in {mem[t].status}
                     \cup IF mem[t].status = "completed" THEN {"partial"} ELSE {} :
       res' = [res EXCEPT ![t] = status]
  /\ Then(t, <<"update_run", "save_result", "update_run", "tail_reload">>)
  /\ UNCHANGED <<files, mem, data, step, out>> /\ KeepRest

(* start() reads the run again and may write it with its mission's state.  *)
TailReload(t) ==
  /\ At(t, "tail_reload")
  /\ \/ /\ mem' = [mem EXCEPT ![t] = NoRun]
        /\ Goto(t, "start_done")
     \/ /\ mem' = [mem EXCEPT ![t] = runJson]
        /\ Then(t, <<"update_run", "start_done">>)
  /\ res' = [res EXCEPT ![t] = "none"]
  /\ UNCHANGED <<files, data, step, out>> /\ KeepRest

(* An artifact worker checks, before its thread ends, that there is a      *)
(* result.                                                                 *)
StartDone(t) ==
  /\ At(t, "start_done")
  /\ IF t \in Workers
     THEN Then(t, <<"get_result", "gap_run">>) /\ UNCHANGED locals
     ELSE Finish(t, "done")
  /\ UNCHANGED files /\ KeepRest

(* The steps of a call that ends in the worker's own check for a gap.      *)
Calls(t) == {pc[t]} \cup {stack[t][i] : i \in DOMAIN stack[t]}

InGap(t) == Calls(t) \cap {"gap_run", "gap_raised", "gap_reload", "gap_done"} # {}

InStep(t) ==
  \/ pc[t] \in {"execute", "artifact_start", "artifact_create"}
  \/ Calls(t) \cap {"artifact_done", "artifact_rejected"} # {}

(* An exception in an artifact worker, such as a write that is refused.    *)
(* Inside a step the step runner makes it a failed step; elsewhere it      *)
(* leaves start(), and the worker's except clause looks for a gap; there   *)
(* it ends the thread.                                                     *)
WorkerRaises(t) ==
  /\ t \in Workers
  /\ pc[t] \notin {"idle", "done", "raised"} /\ ~InStep(t)
  /\ IF InGap(t)
     THEN Finish(t, "raised")
     ELSE /\ pc' = [pc EXCEPT ![t] = "get_result"]
          /\ stack' = [stack EXCEPT ![t] = <<"gap_raised">>]
          /\ mem' = [mem EXCEPT ![t] = NoRun] /\ data' = [data EXCEPT ![t] = NoRun]
          /\ res' = [res EXCEPT ![t] = "none"]
          /\ step' = [step EXCEPT ![t] = 1] /\ out' = [out EXCEPT ![t] = "completed"]
  /\ UNCHANGED files /\ KeepRest

StartStep(t) ==
  \/ StartTest(t) \/ StepRead(t) \/ StepDecide(t) \/ Execute(t)
  \/ ArtifactStart(t) \/ ArtifactCreate(t) \/ ArtifactDone(t)
  \/ FinishRun(t) \/ Finalize(t) \/ TailReload(t) \/ StartDone(t) \/ WorkerRaises(t)

----------------------------------------------------------------------------
(* The terminalization guards of TaskRunStore: the whole body under the    *)
(* store lock.                                                             *)
Lock(t, body) ==
  /\ At(t, "idle")
  /\ lock = NoThread
  /\ lock' = t
  /\ Then(t, body)
  /\ UNCHANGED <<files, overBudget, locals, history>>

Unlock(t) ==
  /\ At(t, "unlock")
  /\ lock' = NoThread
  /\ Finish(t, "idle")
  /\ UNCHANGED <<files, overBudget, history>>

GuardEvent(t) ==
  /\ At(t, "guard_event")
  /\ AppendTerminal(t, EventOf(res[t]))
  /\ Return(t)
  /\ UNCHANGED <<runJson, index, result, started, artifact, locals>> /\ KeepRest

(* terminalize_if_runtime_budget_exceeded.                                 *)
Budget(t) == Lock(t, <<"budget_index">>)

BudgetIndex(t) ==
  /\ At(t, "budget_index")
  /\ IF Supervised(index) THEN Goto(t, "budget_run")
                          ELSE Then(t, <<"ensure", "budget_ensured">>)
  /\ UNCHANGED <<files, locals>> /\ KeepRest

BudgetRun(t) ==
  /\ At(t, "budget_run")
  /\ IF term = "none" /\ Supervised(runJson.status)
     THEN /\ mem' = [mem EXCEPT ![t] = runJson]
          /\ Then(t, <<"get_result", "budget_decide">>)
     ELSE /\ Then(t, <<"ensure", "budget_ensured">>)
          /\ UNCHANGED mem
  /\ UNCHANGED <<files, data, res, step, out>> /\ KeepRest

\* return ensured or self.get_result(run_id)
BudgetEnsured(t) ==
  /\ At(t, "budget_ensured")
  /\ IF res[t] = "none" THEN Then(t, <<"get_result", "unlock">>) ELSE Goto(t, "unlock")
  /\ UNCHANGED <<files, locals>> /\ KeepRest

\* Mutant: a started run is left to its loop, whose own checks are trusted.
BudgetTrustsLoop(t) ==
  /\ At(t, "budget_decide")
  /\ Goto(t, IF res[t] # "none" \/ started \/ ~overBudget THEN "unlock" ELSE "budget_block")
  /\ UNCHANGED <<files, locals>> /\ KeepRest

BudgetDecide(t) ==
  /\ At(t, "budget_decide")
  /\ CASE res[t] # "none" \/ ~started \/ ~overBudget -> Goto(t, "unlock")
       [] artifact = "open" /\ res[t] = "none" /\ started /\ overBudget ->
            Then(t, <<"stall", "budget_stalled">>)
       [] OTHER -> Goto(t, "budget_block")
  /\ UNCHANGED <<files, locals>> /\ KeepRest

BudgetStalled(t) ==
  /\ At(t, "budget_stalled")
  /\ Goto(t, IF res[t] = "none" THEN "budget_block" ELSE "unlock")
  /\ UNCHANGED <<files, locals>> /\ KeepRest

BudgetBlock(t) ==
  /\ At(t, "budget_block")
  /\ mem' = [mem EXCEPT ![t].status = "blocked"]
  /\ \E r \in TerminalResults("blocked") : res' = [res EXCEPT ![t] = r]
  /\ Then(t, <<"update_run", "save_result", "guard_event", "unlock">>)
  /\ UNCHANGED <<files, data, step, out>> /\ KeepRest

(* terminalize_if_artifact_creation_stalled, called by the queue for the   *)
(* runs it lists as running, and by the budget guard with no silence to    *)
(* wait for.                                                               *)
Stall(t) ==
  /\ index \in {"running", "waiting_input", "queued", "created"}
  /\ runJson.status = "running"
  /\ Lock(t, <<"stall", "unlock">>)

StallRead(t) ==
  /\ At(t, "stall")
  /\ res' = [res EXCEPT ![t] = result]
  /\ IF result = "none" THEN Goto(t, "stall_run") ELSE Return(t)
  /\ UNCHANGED <<files, mem, data, step, out>> /\ KeepRest

StallRun(t) ==
  /\ At(t, "stall_run")
  /\ \/ /\ Supervised(runJson.status) /\ term # "none"
        /\ Goto(t, "ensure")
        /\ UNCHANGED <<files, mem, res>>
     \/ /\ \/ ~Supervised(runJson.status)
           \/ term = "none" /\ artifact # "open"
           \/ term = "none" /\ Head(stack[t]) = "unlock"    \* not silent for long
        /\ Return(t)
        /\ UNCHANGED <<files, mem, res>>
     \/ /\ Supervised(runJson.status) /\ term = "none" /\ artifact = "open"
        /\ artifact' = "closed"
        /\ mem' = [mem EXCEPT ![t] = [runJson EXCEPT !.status = "blocked"]]
        /\ res' = [res EXCEPT ![t] = "blocked"]
        /\ Then(t, <<"update_run", "save_result", "guard_event">>)
        /\ UNCHANGED <<runJson, index, result, term, started>>
  /\ UNCHANGED <<data, step, out>> /\ KeepRest

LockedGuardStep(t) ==
  \/ BudgetIndex(t) \/ BudgetRun(t) \/ BudgetEnsured(t) \/ BudgetDecide(t)
  \/ BudgetStalled(t) \/ BudgetBlock(t)
  \/ StallRead(t) \/ StallRun(t) \/ GuardEvent(t) \/ Unlock(t)

----------------------------------------------------------------------------
(* The artifact worker's own guard, which takes no lock.                   *)
WorkerAlive == \E w \in Workers : pc[w] \notin {"done", "raised"}

(* The boundary has started the guard.  It polls, or ends at once because  *)
(* its first event could not be appended.                                  *)
Watch(t) ==
  /\ At(t, "idle")
  /\ \A b \in Boundaries : pc[b] \notin {"idle", "returned"}
  /\ \/ Then(t, <<"get_result", "watch_seen">>) /\ UNCHANGED locals
     \/ Finish(t, "raised")
  /\ UNCHANGED files /\ KeepRest

(* Nothing catches an exception in the loop of the guard, or in what the   *)
(* boundary does after it has started the guard.                           *)
GuardRaises(t) ==
  /\ t \in WorkerGuards \cup Boundaries
  /\ pc[t] \notin {"idle", "done", "raised", "returned"}
  /\ Finish(t, "raised")
  /\ UNCHANGED files /\ KeepRest

(* _accepted_worker_guard_loop: skip for good when the run has a result, a *)
(* terminal event or a cancellation; poll while the worker is alive and    *)
(* not silent for too long; else fill the gap.                             *)
WatchSeen(t) ==
  /\ At(t, "watch_seen")
  /\ \/ /\ \/ res[t] # "none" \/ term # "none"
           \/ runJson.cancel \/ runJson.status = "cancelled"
        /\ Finish(t, "done")
     \/ /\ res[t] = "none" /\ term = "none"
        /\ ~runJson.cancel /\ runJson.status # "cancelled"
        /\ \/ WorkerAlive /\ Goto(t, "idle")
           \/ artifact = "open" /\ Then(t, <<"get_result", "gap_run">>)
           \/ artifact # "open" /\ ~WorkerAlive /\ Then(t, <<"get_result", "watch_exit">>)
        /\ UNCHANGED locals
  /\ UNCHANGED files /\ KeepRest

\* Mutant: a worker that exited between two artifacts is taken to be done.
WatchExitTrusts(t) ==
  /\ At(t, "watch_exit")
  /\ Finish(t, "done")
  /\ UNCHANGED files /\ KeepRest

WatchExit(t) ==
  /\ At(t, "watch_exit")
  /\ IF res[t] = "none" /\ term = "none"
     THEN Then(t, <<"get_result", "gap_run">>) /\ UNCHANGED locals
     ELSE Finish(t, "done")
  /\ UNCHANGED files /\ KeepRest

(* _terminalize_accepted_worker_gap: checks, then the result, the run and  *)
(* the terminal event, each in a step of its own and without the lock.     *)
(* After an exception only an open artifact is a gap.                      *)
GapRun(t) ==
  /\ At(t, "gap_run") \/ At(t, "gap_raised")
  /\ CASE res[t] # "none" -> Finish(t, "done") /\ UNCHANGED artifact
       [] res[t] = "none" /\ term # "none" ->
            Then(t, <<"ensure", "gap_done">>) /\ UNCHANGED <<artifact, locals>>
       [] res[t] = "none" /\ term = "none"
            /\ \/ runJson.cancel \/ runJson.status = "cancelled"
               \/ At(t, "gap_raised") /\ artifact # "open" ->
            Finish(t, IF At(t, "gap_raised") THEN "raised" ELSE "done") /\ UNCHANGED artifact
       [] OTHER ->
            /\ MayEnter(t)
            /\ artifact' = IF artifact = "open" THEN "closed" ELSE artifact
            /\ res' = [res EXCEPT ![t] = "blocked"]
            /\ Then(t, <<"save_result", "gap_reload">>)
            /\ UNCHANGED <<mem, data, step, out>>
  /\ UNCHANGED <<runJson, index, result, term, started>> /\ KeepRest

GapReload(t) ==
  /\ At(t, "gap_reload")
  /\ mem' = [mem EXCEPT ![t] = [runJson EXCEPT !.status = "blocked"]]
  /\ Then(t, <<"update_run", "guard_event", "gap_done">>)
  /\ UNCHANGED <<files, data, res, step, out>> /\ KeepRest

GapDone(t) ==
  /\ At(t, "gap_done")
  /\ Finish(t, "done")
  /\ UNCHANGED files /\ KeepRest

GapStep(t) == WatchSeen(t) \/ WatchExit(t) \/ GapRun(t) \/ GapReload(t) \/ GapDone(t)

(* start_public_boundary: the worker's answer or exception is passed on,   *)
(* or the run cannot be read, and then no guard is started; or the         *)
(* response budget has passed, the run is read, the guard is started, and  *)
(* _mark_accepted_running writes the copy back.                            *)
BoundaryReturns(t) ==
  /\ At(t, "idle")
  /\ Goto(t, "returned")
  /\ UNCHANGED <<files, locals>> /\ KeepRest

MarkAccepted(t) ==
  /\ At(t, "idle")
  /\ mem' = [mem EXCEPT ![t] = runJson]
  /\ Then(t, <<"update_run", "gap_done">>)
  /\ UNCHANGED <<files, data, res, step, out>> /\ KeepRest

(* TaskRuntimeService.get_result.                                          *)
Read(t) ==
  /\ At(t, "idle")
  /\ Then(t, <<"get_result", "read_ensure">>)
  /\ UNCHANGED <<files, locals>> /\ KeepRest

ReadEnsure(t) ==
  /\ At(t, "read_ensure")
  /\ IF res[t] = "none" THEN Then(t, <<"ensure", "read_done">>) ELSE Goto(t, "read_done")
  /\ UNCHANGED <<files, locals>> /\ KeepRest

ReadDone(t) ==
  /\ At(t, "read_done")
  /\ Finish(t, "idle")
  /\ UNCHANGED files /\ KeepRest

----------------------------------------------------------------------------
(* Time: the runtime budget passes, at any moment after the start.  Only   *)
(* the budget guard can tell.                                              *)
Tick ==
  /\ Supervisors # {}
  /\ started /\ ~overBudget
  /\ overBudget' = TRUE
  /\ UNCHANGED <<files, lock, pc, stack, locals, history>>

(* The process stops and is started again.  The files stay as the last     *)
(* completed write left them, every thread and the lock are gone.  Clients *)
(* and the queue may call again; the guard thread and the waiting request  *)
(* of an artifact worker are not recreated.                                *)
Crash ==
  /\ crashes < MaxCrashes
  /\ crashes' = crashes + 1
  /\ lock' = NoThread
  /\ pc' = [t \in Threads |-> IF t \in WorkerGuards \cup Boundaries THEN "returned"
                              ELSE IF pc[t] \in {"done", "raised"} THEN pc[t] ELSE "idle"]
  /\ stack' = [t \in Threads |-> <<>>]
  /\ mem' = [t \in Threads |-> NoRun] /\ data' = [t \in Threads |-> NoRun]
  /\ res' = [t \in Threads |-> "none"]
  /\ step' = [t \in Threads |-> 1] /\ out' = [t \in Threads |-> "completed"]
  /\ UNCHANGED <<files, overBudget, executed, succeeded, cancelAcked, cancels>>

\* The first step of a call, and the steps of a thread that is in a call.
Begin(t) ==
  \/ t \in Starters /\ Start(t)
  \/ t \in Cancellers /\ Cancel(t)
  \/ t \in Supervisors /\ Budget(t)
  \/ t \in StallGuards /\ Stall(t)
  \/ t \in WorkerGuards /\ Watch(t)
  \/ t \in Boundaries /\ (BoundaryReturns(t) \/ MarkAccepted(t))
  \/ t \in Readers /\ Read(t)

Continue(t) ==
  \/ StoreStep(t) \/ StartStep(t) \/ CancelStep(t) \/ LockedGuardStep(t) \/ GapStep(t)
  \/ ReadEnsure(t) \/ ReadDone(t) \/ GuardRaises(t)

Next == \/ \E t \in Threads : Begin(t) \/ Continue(t)
        \/ Tick
        \/ Crash

Spec == Init /\ [][Next]_vars

(* A thread in a call is run, time passes, and clients go on reading the   *)
(* result and the session of a run, however often the store lock is taken  *)
(* when they ask.  Nothing obliges anyone to start or cancel a run.        *)
Fairness ==
  /\ \A t \in Threads : WF_vars(Continue(t))
  /\ \A t \in Readers : WF_vars(Read(t))
  /\ \A t \in Supervisors : SF_vars(Budget(t))
  /\ WF_vars(Tick)

FairSpec == Spec /\ Fairness

----------------------------------------------------------------------------
AtRest == \A t \in Threads : pc[t] \in {"idle", "done", "raised", "returned"}

Ended == term # "none" \/ result # "none"

(* Success is earned: whatever threads interleave, crash or repair, no     *)
(* file of the run says "completed" unless some start() of the run         *)
(* executed every required step of its plan to completion.                 *)
SuccessIsEarned ==
  "completed" \in {runJson.status, index, result, term} =>
    \E t \in Starters : \A i \in Required : <<t, i>> \in succeeded

(* When no call is in progress and the process never stopped, a run that   *)
(* run.json or result.json show ended has its terminal event, whoever      *)
(* ended it: the loop and cancel() write the event first, the guards and   *)
(* the repair of get_result write it last.                                 *)
TerminalRunHasEvent ==
  AtRest /\ (IsTerminal(runJson.status) \/ result # "none") => term # "none"

(* A run that ended gets a persisted result, although cancel() writes none *)
(* and the loop writes its own last: the clients that read the result      *)
(* repair it.                                                              *)
TerminalRunGetsResult == term # "none" ~> result # "none"

(* In the end run.json agrees with result.json for good, although cancel() *)
(* and start() write back copies of the run they read long before.         *)
ResultProjected == <>[](result # "none" => runJson.status = RunStatusOf(result))

(* No step of the plan is executed again, not even by a start() after a    *)
(* restart of the process: the loop returns the state of a run it finds    *)
(* running or ended.                                                       *)
StepsRunOnce ==
  [][\A t \in Starters :
       pc[t] = "execute" /\ pc'[t] # "execute" /\ crashes' = crashes
         => \A s \in Starters : <<s, step[t]>> \notin executed]_vars

(* A started run whose process stopped under it is ended by the runtime    *)
(* budget guard, if the restart finds run.json and the index in a state    *)
(* the guard acts on.                                                      *)
AbandonedRunEnds ==
  /\ crashes = MaxCrashes /\ AtRest /\ started /\ ~Ended
  /\ Supervised(index) /\ Supervised(runJson.status)
  ~> Ended

(* An accepted artifact worker does not disappear without a terminal       *)
(* sentence, whatever the files refuse to one of the two threads that      *)
(* watch over it: once the worker, its guard and the request that started  *)
(* them are over, the run has a terminal event or a result, unless both    *)
(* the worker and its guard were ended by an exception.                    *)
WorkerLeavesSentence ==
  /\ \A t \in Workers \cup WorkerGuards \cup Boundaries : pc[t] \in {"done", "raised"}
  /\ \E t \in Workers \cup WorkerGuards : pc[t] = "done"
  => Ended

(* The check before each step sees a cancellation that cancel() has        *)
(* reported as recorded (check_before_each_step).                          *)
CancelSeenBeforeStep ==
  [][\A t \in Starters : cancelAcked /\ At(t, "step") /\ pc'[t] = "step_decide"
                           => mem'[t].cancel]_vars

(* The guard of an artifact worker fills a gap only where there is no      *)
(* result: it does not rewrite one that exists.                            *)
GuardKeepsResult ==
  [][\A t \in WorkerGuards :
       At(t, "save_result") /\ Head(stack[t]) = "gap_reload" /\ pc'[t] # "save_result"
         => result = "none"]_vars
=============================================================================
