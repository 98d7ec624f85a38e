------------------------- MODULE TaskRuntimeSafety -------------------------
(* What the threads of a TaskRun keep true of its files: success is        *)
(* earned, an end is announced, a step is executed once, and an artifact   *)
(* worker leaves a sentence.  Each has an invariant of its own, proved on  *)
(* top of the control and the types of TaskRuntimeProofs.                  *)
EXTENDS TaskRuntimeProofs

\* Some start() of the run saw every required step completed.
Earned == \E t \in Starters : \A i \in Required : <<t, i>> \in succeeded

\* The loop has completed the required steps behind it, while it still is
\* heading for success.
Progress(t) ==
  out[t] = "completed" =>
    /\ Home(t) \in Loop => \A i \in Required : i < step[t] => <<t, i>> \in succeeded
    /\ Home(t) = "finish" => \A i \in Required : <<t, i>> \in succeeded

\* Who says that the run succeeded: the files, or a thread's copies of them.
SaysCompleted(t) == "completed" \in {mem[t].status, data[t].status, res[t]}

\* A file of the run says that it succeeded.
FilesSayCompleted == "completed" \in {runJson.status, index, result, term}

\* Whoever says that the run succeeded says it of one whose required steps a
\* start() has completed.
EarnedInv ==
  /\ FilesSayCompleted => Earned
  /\ \A t \in Threads : Progress(t) /\ (SaysCompleted(t) => Earned)

\* The thread owes the run a terminal event: a guard or a repair has begun to
\* end the run.
Owes(t) == Calls(t) \cap {"ensure_event", "guard_event", "gap_reload"} # {}

\* A thread's copies show the run ended, or hold a result for it.
ShowsEnd(t) ==
  IsTerminal(mem[t].status) \/ IsTerminal(data[t].status) \/ res[t] # "none"

\* A file of the run shows it ended, or holds a result for it.
FilesShowEnd == IsTerminal(runJson.status) \/ IsTerminal(index) \/ result # "none"

\* Nothing shows the run ended.
Undecided == ~FilesShowEnd /\ \A t \in Threads : ~ShowsEnd(t)

\* No thread is one that an exception may end in the middle of a call.
NobodyRaises == Workers \cup WorkerGuards \cup Boundaries = {}

\* While the process has not stopped and nobody raises, a run that any file or
\* copy shows ended has its terminal event, or a thread still owes it.
EventInv ==
  crashes = 0 /\ NobodyRaises =>
    term # "none" \/ Undecided \/ \E t \in Threads : Owes(t)

\* A copy of the run that start() would take up.
Fresh(r) == r.status \notin TerminalStates \cup {"running"} /\ ~r.cancel

\* What a thread at or behind a step has made sure of, so that the plan is
\* executed once: a copy that start() would take up is written back only
\* before anything was executed, and the loop executes each step at most once.
OnceAt(t) ==
  /\ Home(t) \in {"cancel_request", "cancel_event"} => pc[t] = Home(t) /\ mem[t].cancel
  /\ Home(t) \in Loop => ~Fresh(mem[t])
  /\ "update_run" \in Calls(t) /\ Fresh(mem[t]) => Home(t) = "start_done" /\ executed = {}
  /\ Home(t) = "start_test" /\ Fresh(mem[t]) => executed = {}
  /\ Home(t) \in Loop /\ ~(Home(t) = "step" /\ pc[t] = "update_run") => ~Fresh(runJson)
  /\ Home(t) \in Loop =>
       \A i \in 1..NSteps : <<t, i>> \in executed =>
          i < step[t] \/ (i = step[t] /\ Home(t) \in InPlanStep \ {"step_decide", "execute"})

\* While run.json can still be taken up, nothing was executed.
OnceInv == (Fresh(runJson) => executed = {}) /\ \A t \in Threads : OnceAt(t)

\* The run has one start() at a time, and no request waits for a worker.
OneStart == (\A s, u \in Starters : s = u) /\ Boundaries = {}

\* The run is not cancelled, nor marked for it.
Uncancelled(r) == ~r.cancel /\ r.status # "cancelled"

\* A thread is not cancelling, and what it holds of the run does not speak of
\* a cancellation.
Unaware(t) ==
  /\ Home(t) \notin {"cancel_request", "cancel_event"}
  /\ Uncancelled(mem[t]) /\ Uncancelled(data[t])
  /\ res[t] # "cancelled" /\ out[t] # "cancelled"

\* A worker or its guard ends, or is about to end, without an exception only
\* once the run has a terminal event or a result.  What it found in a result
\* is true of the run, but for the moments before it looks and before it saves.
Guarded(g) ==
  /\ pc[g] \in {"stall", "stall_run"} => Home(g) \in {"unlock", "budget_stalled"}
  /\ Home(g) \in {"done", "gap_done"} => Ended
  /\ Home(g) = "gap_reload" /\ pc[g] # "save_result" => result # "none"
  /\ Home(g) \in {"watch_seen", "watch_exit", "gap_run", "gap_raised"} /\ res[g] # "none"
       /\ pc[g] \notin {"get_result", "save_result"} => Ended

\* Nothing speaks of a cancellation, and the workers and their guards end with
\* a sentence.
SentenceInv ==
  /\ Uncancelled(runJson) /\ result # "cancelled"
  /\ \A t \in Threads : Unaware(t)
  /\ \A g \in Workers \cup WorkerGuards : Guarded(g)

\* The worker, its guard and the request that waits for it are threads of
\* their own, and nobody cancels the run.
OwnThreads ==
  /\ Cancellers = {}
  /\ WorkerGuards \cap Starters = {} /\ (Workers \cup WorkerGuards) \cap Boundaries = {}
----------------------------------------------------------------------------
(* Where a step leads.                                                     *)

\* An operation of the store stays within the call that asked for it.
LEMMA StoreStays ==
  ASSUME TypeOK, ControlInv, NEW t \in Threads,
         StoreStep(t) \/ GuardEvent(t) \/ StallRead(t) \/ StallRun(t)
  PROVE  /\ pc[t] \in Callees /\ Home(t)' = Home(t) /\ Behind(t) \subseteq Calls(t)'
         /\ "update_run" \in Calls(t)' => "update_run" \in Calls(t) \/ mem'[t].status = "blocked"
         /\ pc'[t] \in {"stall", "stall_run"} => pc[t] = "stall"
         /\ UNCHANGED <<step, out, history, lock>>
<1> USE DEF KeepRest, locals, At
<1>1. ControlTyped /\ Nested(t)
  BY TypeHalves, Zenon DEF ControlInv
<1>2. UNCHANGED <<step, out, history, lock>>
  BY Zenon DEF StoreStep, UpdateRun, UpdateIndex, SaveResult, CohereRead, CohereRun, CohereIndex,
         GetResult, GetIndex, EnsureRead, EnsureRun, EnsureEvent, GuardEvent, StallRead, StallRun
<1>3. CASE UpdateRun(t) \/ UpdateIndex(t) \/ SaveResult(t) \/ CohereRead(t) \/ CohereRun(t)
           \/ CohereIndex(t) \/ EnsureEvent(t) \/ GuardEvent(t)
  <2>1. pc[t] \in Callees
    BY <1>3, Zenon DEF UpdateRun, UpdateIndex, SaveResult, CohereRead, CohereRun, CohereIndex,
                EnsureEvent, GuardEvent, Callees, Saves
  <2>2. FromStore(t)
    BY <1>1, <2>1, StoreMoves, Zenon
  <2>3. Return(t) \/ \E a \in {"update_index", "cohere", "cohere_run", "cohere_index"} : Goto(t, a)
    BY <1>3, Zenon DEF UpdateRun, UpdateIndex, SaveResult, CohereRead, CohereRun, CohereIndex,
                EnsureEvent, GuardEvent
  <2> QED BY <1>2, <2>1, <2>2, <2>3, Zenon DEF FromStore, Arrives, Lookups
<1>4. CASE GetResult(t) \/ GetIndex(t) \/ EnsureRead(t) \/ EnsureRun(t) \/ StallRead(t) \/ StallRun(t)
  <2>1. pc[t] \in Lookups /\ pc[t] \in Callees
    BY <1>4, Zenon DEF GetResult, GetIndex, EnsureRead, EnsureRun, StallRead, StallRun, Callees, Lookups
  <2>2. FromLookup(t)
    BY <1>1, <2>1, StoreMoves, Zenon
  <2>3. \/ Return(t) \/ \E a \in {"get_index", "ensure", "ensure_run", "cohere"} : Goto(t, a)
        \/ Goto(t, "stall_run") /\ pc[t] = "stall"
        \/ Then(t, <<"save_result", "ensure_event">>)
        \/ Then(t, <<"update_run", "save_result", "guard_event">>) /\ mem'[t].status = "blocked"
    BY <1>4 DEF TypeOK, Run, GetResult, GetIndex, EnsureRead, EnsureRun, StallRead, StallRun
  <2>4. Home(t) \notin {"update_run", "stall", "stall_run"}
    BY <2>2, LabelsApart, Zenon DEF FromLookup, Callees, Lookups
  <2>5. {"get_index", "ensure", "ensure_run", "stall_run", "cohere"} \subseteq Lookups \cup {"cohere"}
    BY Zenon DEF Lookups
  <2> QED BY <1>2, <2>1, <2>2, <2>3, <2>4, <2>5, Zenon DEF FromLookup, Arrives
<1> QED BY <1>3, <1>4, Zenon DEF StoreStep

\* A thread that ends its call, and one whose call raises, forget everything.
LEMMA Forgets ==
  ASSUME TypeOK, NEW t \in Threads,
         WorkerRaises(t) \/ GuardRaises(t) \/ \E label \in {"idle", "done", "raised"} : Finish(t, label)
  PROVE  /\ mem'[t] = NoRun /\ data'[t] = NoRun /\ res'[t] = "none"
         /\ step'[t] = 1 /\ out'[t] = "completed"
BY Zenon DEF TypeOK, WorkerRaises, GuardRaises, Finish

\* An exception ends the thread, or leads a worker to its look for a gap.
LEMMA Raises ==
  ASSUME TypeOK, NEW t \in Threads, WorkerRaises(t) \/ GuardRaises(t)
  PROVE  \/ Home(t)' = "raised" /\ pc'[t] = "raised" /\ Calls(t)' = {"raised"}
         \/ /\ Home(t)' = "gap_raised" /\ pc'[t] = "get_result"
            /\ Calls(t)' = {"get_result", "gap_raised"} /\ WorkerRaises(t)
<1>1. CASE Finish(t, "raised")
  BY <1>1, TypeHalves, Ends, Zenon DEF Tops
<1>2. CASE ~Finish(t, "raised")
  <2>1. pc'[t] = "get_result" /\ stack'[t] = <<"gap_raised">> /\ WorkerRaises(t)
    BY <1>2, ZenonT(30) DEF WorkerRaises, GuardRaises, TypeOK
  <2> QED BY <2>1, Places DEF Home, Calls, BehindOf
<1> QED BY <1>1, <1>2, Zenon

\* The steps that belong to no start(), and the ones that leave it.
AsideStep(t) ==
  \/ Begin(t) /\ ~Start(t)
  \/ CancelStep(t) \/ ReadEnsure(t) \/ ReadDone(t) \/ StartDone(t) \/ WorkerRaises(t) \/ GuardRaises(t)
  \/ (LockedGuardStep(t) \/ GapStep(t)) /\ ~(GuardEvent(t) \/ StallRead(t) \/ StallRun(t))

\* They lead to no step of a start().
LEMMA StaysAside ==
  ASSUME TypeOK, ControlInv, NEW t \in Threads, AsideStep(t)
  PROVE  Home(t)' \notin OfStart
<1> USE DEF KeepRest, locals, At
<1>1. CASE WorkerRaises(t) \/ GuardRaises(t)
  BY <1>1, Raises, Zenon DEF OfStart, Loop, InPlanStep
<1>2. CASE ~(WorkerRaises(t) \/ GuardRaises(t))
  <2>1. pc[t] \in Tops
    BY <1>2, Zenon DEF AsideStep, Begin, Cancel, Budget, Lock, Stall, Watch, BoundaryReturns, MarkAccepted, Read,
                CancelStep, CancelRequest, CancelEvent, CancelDone, ReadEnsure, ReadDone, StartDone,
                LockedGuardStep, GapStep, BudgetIndex, BudgetRun, BudgetEnsured, BudgetDecide, BudgetStalled,
                BudgetBlock, Unlock, WatchSeen, WatchExit, GapRun, GapReload, GapDone, Tops, OfStart
  <2>2. FromGuard(t) /\ FromVerdict(t)
    BY <2>1, Stands, Zenon DEF Standing
  <2>3. \/ QuietMove(t) \/ Finish(t, "idle") \/ Finish(t, "done") \/ Finish(t, "raised")
        \/ Then(t, <<"save_result", "gap_reload">>)
        \/ Then(t, <<"update_run", "guard_event", "gap_done">>)
        \/ Then(t, <<"update_run", "save_result", "guard_event", "unlock">>)
    <3>1. CASE (Begin(t) /\ ~Start(t)) \/ CancelStep(t) \/ ReadEnsure(t) \/ ReadDone(t) \/ StartDone(t)
      BY <3>1, Zenon DEF Begin, Cancel, Budget, Lock, Stall, Watch, BoundaryReturns, MarkAccepted,
                Read, CancelStep, CancelRequest, CancelEvent, CancelDone, ReadEnsure, ReadDone, StartDone, QuietMove
    <3>2. CASE (LockedGuardStep(t) \/ GapStep(t)) /\ ~(GuardEvent(t) \/ StallRead(t) \/ StallRun(t))
      BY <3>2, Zenon DEF LockedGuardStep, GapStep, BudgetIndex, BudgetRun, BudgetEnsured, BudgetDecide, BudgetStalled,
                BudgetBlock, Unlock, WatchSeen, WatchExit, GapRun, GapReload, GapDone, QuietMove
    <3> QED BY <1>2, <3>1, <3>2, Zenon DEF AsideStep
  <2>4. QuietMove(t) => Home(t)' \notin OfStart
    BY <2>2, QuietMoves, Zenon DEF Outside
  <2>5. Finish(t, "idle") \/ Finish(t, "done") \/ Finish(t, "raised") => Home(t)' \notin OfStart
    BY TypeHalves, Ends DEF Tops, OfStart, Loop, InPlanStep
  <2> QED BY <2>2, <2>3, <2>4, <2>5, Zenon DEF FromVerdict, Arrives, OfStart, Loop, InPlanStep
<1> QED BY <1>1, <1>2, Zenon
----------------------------------------------------------------------------
(* Success is earned.                                                      *)

\* The lifecycle's maps make no success of anything else.
LEMMA NoFalseSuccess ==
  /\ \A r : r # "completed" => RunStatusOf(r) # "completed" /\ EventOf(r) # "completed"
  /\ \A s, r : s # "completed" /\ r \in TerminalResults(s) => r # "completed"
  /\ NoRun.status # "completed"
<1>1. \A r : r # "completed" => RunStatusOf(r) # "completed" /\ EventOf(r) # "completed"
  BY Zenon DEF RunStatusOf, EventOf
<1>2. ASSUME NEW s, s # "completed"
      PROVE  ConservativeResult(s) # "completed" /\ "completed" \notin SemanticResults(s)
  BY <1>2, Zenon DEF ConservativeResult, SemanticResults
<1> QED BY <1>1, <1>2, Zenon DEF TerminalResults, NoRun

\* What a thread holds, and what the files say.
Unsaid(t) == ~FilesSayCompleted /\ ~SaysCompleted(t)

\* Only the end of the loop says that the run succeeded without having read it.
LEMMA OnlyLoopDecides ==
  ASSUME TypeOK, NEW t \in Threads, Begin(t) \/ Continue(t), ~FinishRun(t), Unsaid(t)
  PROVE  Unsaid(t)'
<1> USE DEF KeepRest, locals, files
<1>1. /\ runJson.status # "completed" /\ index # "completed" /\ result # "completed" /\ term # "completed"
      /\ mem[t].status # "completed" /\ data[t].status # "completed" /\ res[t] # "completed"
  BY Zenon DEF Unsaid, FilesSayCompleted, SaysCompleted
<1>2. SUFFICES
      /\ runJson'.status # "completed" /\ index' # "completed" /\ result' # "completed" /\ term' # "completed"
      /\ mem'[t].status # "completed" /\ data'[t].status # "completed" /\ res'[t] # "completed"
  BY Zenon DEF Unsaid, FilesSayCompleted, SaysCompleted
<1>3. /\ mem \in [Threads -> Run] /\ data \in [Threads -> Run] /\ runJson \in Run
      /\ res \in [Threads -> ResultStatuses \cup {"none"}]
  BY Zenon DEF TypeOK
<1>5. CASE \/ WorkerRaises(t) \/ GuardRaises(t)
           \/ /\ \E label \in {"idle", "done", "raised"} : Finish(t, label)
              /\ UNCHANGED <<runJson, index, result, term>>
  <2>1. UNCHANGED <<runJson, index, result, term>>
    BY <1>5, Zenon DEF WorkerRaises, GuardRaises
  <2> QED BY <1>1, <1>5, <2>1, Forgets, NoFalseSuccess, Zenon
<1>6. CASE Begin(t) \/ CancelStep(t) \/ ReadEnsure(t) \/ ReadDone(t)
  <2>1. CASE Cancel(t)
    <3>1. CASE CanCancel(runJson.status)
      BY <1>1, <1>3, <2>1, <3>1 DEF Run, Cancel
    <3>2. CASE ~CanCancel(runJson.status)
      BY <1>1, <1>5, <2>1, <3>2, Zenon DEF Cancel
    <3> QED BY <3>1, <3>2, Zenon
  <2>2. CASE Begin(t) /\ ~Cancel(t)
    BY <1>1, <1>3, <1>5, <2>2, Zenon
    DEF Run, Begin, Start, Budget, Stall, Lock, Watch, BoundaryReturns, MarkAccepted, Read
  <2>3. CASE CancelStep(t) \/ ReadEnsure(t) \/ ReadDone(t)
    BY <1>1, <1>3, <1>5, <2>3, ZenonT(30)
    DEF Run, CancelStep, CancelRequest, CancelEvent, CancelDone, AppendTerminal, ReadEnsure, ReadDone
  <2> QED BY <1>6, <2>1, <2>2, <2>3, Zenon
<1>7. CASE UpdateRun(t) \/ UpdateIndex(t) \/ SaveResult(t) \/ CohereRead(t) \/ CohereRun(t) \/ CohereIndex(t)
  BY <1>1, <1>3, <1>7, NoFalseSuccess
  DEF Run, UpdateRun, UpdateIndex, SaveResult, CohereRead, CohereRun, CohereIndex
<1>8. CASE GetResult(t) \/ GetIndex(t) \/ EnsureRead(t) \/ EnsureRun(t) \/ EnsureEvent(t) \/ GuardEvent(t)
  BY <1>1, <1>3, <1>8, NoFalseSuccess, Zenon
  DEF GetResult, GetIndex, EnsureRead, EnsureRun, EnsureEvent, GuardEvent, AppendTerminal
<1>9. CASE StartTest(t) \/ StepRead(t) \/ StepDecide(t) \/ Execute(t) \/ ArtifactStart(t)
           \/ ArtifactCreate(t) \/ ArtifactDone(t)
  BY <1>1, <1>3, <1>9
  DEF Run, StartTest, StepRead, StepDecide, Execute, ArtifactStart, ArtifactCreate, ArtifactDone
<1>10. CASE Finalize(t) \/ TailReload(t) \/ StartDone(t)
  BY <1>1, <1>3, <1>5, <1>10, NoFalseSuccess, Zenon DEF Finalize, TailReload, StartDone
<1>11. CASE LockedGuardStep(t) /\ ~GuardEvent(t)
  BY <1>1, <1>3, <1>5, <1>11, NoFalseSuccess
  DEF Run, LockedGuardStep, BudgetIndex, BudgetRun, BudgetEnsured, BudgetDecide, BudgetStalled, BudgetBlock,
      StallRead, StallRun, Unlock
<1>12. CASE GapStep(t)
  BY <1>1, <1>3, <1>5, <1>12, ZenonT(30) DEF Run, GapStep, WatchSeen, WatchExit, GapRun, GapReload, GapDone
<1> QED BY <1>5, <1>6, <1>7, <1>8, <1>9, <1>10, <1>11, <1>12, Zenon DEF Continue, StoreStep, StartStep

\* A step before the next one is this one or before it.
LEMMA StepOrder == \A k \in 1..(NSteps + 1), i \in Required : i < k + 1 => i < k \/ i = k
BY StepAssumption, SMT

\* The loop counts a required step as behind it only once it is completed.
LEMMA LoopProgress ==
  ASSUME TypeOK, ControlInv, NEW t \in Threads, Begin(t) \/ Continue(t), Progress(t)
  PROVE  Progress(t)'
<1> USE DEF KeepRest, locals, history, At
<1>1. CASE StoreStep(t) \/ GuardEvent(t) \/ StallRead(t) \/ StallRun(t)
  BY <1>1, StoreStays, Zenon DEF Progress, history
<1>2. CASE AsideStep(t)
  BY <1>2, StaysAside, Zenon DEF Progress, OfStart
<1> SUFFICES ASSUME ~AsideStep(t), ~(StoreStep(t) \/ GuardEvent(t) \/ StallRead(t) \/ StallRun(t))
             PROVE  Progress(t)'
  BY <1>1, <1>2, Zenon
<1>3. Start(t) \/ (StartStep(t) /\ ~StartDone(t) /\ ~WorkerRaises(t))
  BY Zenon DEF AsideStep, Begin, Continue
<1>4. Standing(t) /\ pc[t] \in OfStart \cup {"idle"}
  BY <1>3, Stands, Zenon DEF Start, StartStep, StartTest, StepRead, StepDecide, Execute, ArtifactStart, ArtifactCreate,
                ArtifactDone, FinishRun, Finalize, TailReload, Tops, OfStart, Loop, InPlanStep
<1>5. FromStart(t) /\ Home(t) = pc[t] /\ step[t] \in 1..(NSteps + 1) /\ Required \subseteq 1..NSteps /\ NSteps \in Nat
  BY <1>4, StepAssumption, Zenon DEF Standing, TypeOK
<1>6. CASE Start(t) \/ FinishRun(t) \/ Finalize(t) \/ TailReload(t)
  <2>1. \E h \in {"start_test", "finalize", "tail_reload", "start_done"} : Home(t)' = h
    BY <1>5, <1>6, Zenon DEF Start, FinishRun, Finalize, TailReload, FromStart, Arrives
  <2> QED BY <2>1, Zenon DEF Progress, Loop, InPlanStep
<1>7. CASE StartTest(t)
  <2>1. step'[t] = 1
    BY <1>4, <1>7, Zenon DEF StartTest, Standing, Loop, InPlanStep
  <2>2. \/ Then(t, <<"update_run", "tail_reload">>) \/ Then(t, <<"update_run", "step">>)
        \/ Goto(t, "finish") /\ out'[t] = "blocked"
    BY <1>7, Zenon DEF StartTest, TypeOK
  <2>3. Home(t)' \in {"tail_reload", "step"} \/ out'[t] = "blocked"
    BY <1>5, <2>2, Zenon DEF FromStart, Arrives
  <2> QED BY <1>5, <2>1, <2>3 DEF Progress, Loop, InPlanStep
<1>8. CASE StepRead(t)
  <2>1. \/ Home(t)' = "finish" /\ step[t] > NSteps
        \/ Home(t)' = "step_decide"
    BY <1>5, <1>8, Zenon DEF StepRead, FromStart, Arrives
  <2>2. UNCHANGED <<step, out, succeeded>> /\ Home(t) = "step"
    BY <1>5, <1>8, Zenon DEF StepRead
  <2> QED BY <1>5, <2>1, <2>2 DEF Progress, Loop, InPlanStep
<1>9. CASE StepDecide(t)
  <2>1. /\ \/ out'[t] # "completed"
           \/ /\ out' = out /\ step[t] \notin Required /\ step'[t] = step[t] + 1
              /\ Then(t, <<"update_run", "step">>)
           \/ /\ out' = out /\ step' = step
              /\ Then(t, <<"update_run", "update_run", "execute">>)
        /\ succeeded' = succeeded /\ Home(t) = "step_decide"
    BY <1>5, <1>9, Zenon DEF StepDecide, TypeOK
  <2>2. \/ out'[t] # "completed"
        \/ /\ out' = out /\ step[t] \notin Required /\ step'[t] = step[t] + 1 /\ Home(t)' = "step"
        \/ /\ out' = out /\ step' = step /\ Home(t)' = "execute"
    BY <1>5, <2>1, Zenon DEF FromStart, Arrives
  <2> QED BY <1>5, <2>1, <2>2 DEF Progress, Loop, InPlanStep
<1>10. CASE Execute(t) \/ ArtifactStart(t) \/ ArtifactCreate(t) \/ ArtifactDone(t)
  <2>1. /\ Home(t) \in InPlanStep /\ Home(t) \in Loop
        /\ step[t] <= NSteps
    BY <1>4, <1>5, <1>10, Zenon DEF Execute, ArtifactStart, ArtifactCreate, ArtifactDone, Loop, InPlanStep, Standing
  <2>2. ASSUME NEW status \in {"completed", "partial", "failed", "blocked", "cancelled"}, Outcome(t, status)
        PROVE  Progress(t)'
    <3>1. \/ out'[t] # "completed"
          \/ /\ out'[t] = out[t] /\ step'[t] = step[t] + 1 /\ Then(t, <<"update_run", "step">>)
             /\ succeeded \subseteq succeeded'
             /\ step[t] \in Required => <<t, step[t]>> \in succeeded'
      BY <2>2, Zenon DEF Outcome, TypeOK
    <3>2. Then(t, <<"update_run", "step">>) => Home(t)' = "step"
      BY <1>5, Zenon DEF FromStart, Arrives
    <3>3. \A i \in Required : i < step[t] + 1 => i < step[t] \/ i = step[t]
      BY <1>5, StepOrder, Zenon
    <3> QED BY <2>1, <3>1, <3>2, <3>3, Zenon DEF Progress, Loop
  <2>3. \/ \E status \in {"completed", "partial", "failed", "blocked", "cancelled"} : Outcome(t, status)
        \/ /\ \/ \E h \in {"artifact_start", "artifact_create"} : Goto(t, h)
              \/ \E h \in {"artifact_done", "artifact_rejected"} : Then(t, <<"update_run", h>>)
           /\ UNCHANGED <<step, out, succeeded>>
    BY <1>10, OutcomeAssumption, Zenon DEF Execute, ArtifactStart, ArtifactCreate, ArtifactDone
  <2>4. ASSUME \/ \E h \in {"artifact_start", "artifact_create"} : Goto(t, h)
               \/ \E h \in {"artifact_done", "artifact_rejected"} : Then(t, <<"update_run", h>>),
               UNCHANGED <<step, out, succeeded>>
        PROVE  Progress(t)'
    <3>1. Home(t)' \in InPlanStep
      BY <1>5, <2>4, Zenon DEF FromStart, Arrives, InPlanStep
    <3> QED BY <2>1, <2>4, <3>1, Zenon DEF Progress, Loop, InPlanStep
  <2> QED BY <2>2, <2>3, <2>4, Zenon
<1> QED BY <1>3, <1>6, <1>7, <1>8, <1>9, <1>10, Zenon DEF StartStep

\* Every step keeps success earned.
LEMMA EarnedStep ==
  ASSUME TypeOK, ControlInv, EarnedInv, [Next]_vars
  PROVE  EarnedInv'
<1>1. Earned => Earned'
  BY HistoryGrows, Zenon DEF Earned
<1>2. CASE UNCHANGED vars \/ Tick
  BY <1>2, Zenon DEF vars, files, locals, history, Tick, EarnedInv, Earned, Progress, SaysCompleted, FilesSayCompleted,
              Home
<1>3. CASE Crash
  <2>1. FilesSayCompleted' => Earned'
    BY <1>1, <1>3, Zenon DEF Crash, files, FilesSayCompleted, EarnedInv
  <2>2. ASSUME NEW u \in Threads
        PROVE  Progress(u)' /\ ~SaysCompleted(u)'
    <3>1. pc'[u] \in {"idle", "done", "raised", "returned"} /\ stack'[u] = <<>>
      BY <1>3, Zenon DEF Crash
    <3>2. Home(u)' = pc'[u]
      BY <3>1, Places, Zenon DEF Home
    <3> QED BY <1>3, <3>1, <3>2, Zenon DEF Crash, Progress, SaysCompleted, Loop, InPlanStep, NoRun
  <2> QED BY <2>1, <2>2, Zenon DEF EarnedInv
<1>4. ASSUME NEW t \in Threads, Begin(t) \/ Continue(t)
      PROVE  EarnedInv'
  <2>1. Progress(t)'
    BY <1>4, LoopProgress, Zenon DEF EarnedInv
  <2>2. FilesSayCompleted' \/ SaysCompleted(t)' => Earned'
    <3>1. CASE FinishRun(t)
      <4>1. Home(t) = "finish" /\ t \in Starters
        <5>1. pc[t] = "finish" /\ pc[t] \in Tops /\ pc[t] \in OfStart
          BY <3>1, Zenon DEF FinishRun, At, Tops, OfStart
        <5> QED BY <5>1, Here, Zenon
      <4>2. out[t] = "completed" => Earned
        BY <4>1, Zenon DEF EarnedInv, Progress, Earned
      <4>3. out[t] # "completed" => (FilesSayCompleted' \/ SaysCompleted(t)' => FilesSayCompleted \/ SaysCompleted(t))
        BY <3>1 DEF FinishRun, AppendTerminal, FilesSayCompleted, SaysCompleted, TypeOK, Run
      <4> QED BY <1>1, <4>2, <4>3, Zenon DEF EarnedInv
    <3>2. CASE ~FinishRun(t)
      BY <1>1, <1>4, <3>2, OnlyLoopDecides, Zenon DEF EarnedInv, Unsaid
    <3> QED BY <3>1, <3>2, Zenon
  <2>3. ASSUME NEW u \in Threads
        PROVE  Progress(u)' /\ (SaysCompleted(u)' => Earned')
    <3>1. CASE u = t
      BY <2>1, <2>2, <3>1, Zenon
    <3>2. CASE u # t
      <4>1. Same(u) /\ Home(u)' = Home(u)
        BY <1>4, <3>2, OthersStay, StillReady, HistoryGrows, Zenon
      <4>2. succeeded \subseteq succeeded' /\ (Earned => Earned')
        BY <1>1, HistoryGrows, Zenon
      <4> QED BY <4>1, <4>2, Zenon DEF EarnedInv, Same, Progress, SaysCompleted
    <3> QED BY <3>1, <3>2, Zenon
  <2> QED BY <2>2, <2>3, Zenon DEF EarnedInv
<1> QED BY <1>2, <1>3, <1>4, Zenon DEF Next

\* The initial states say nothing of a success.
LEMMA EarnedInit ==
  ASSUME Init
  PROVE  EarnedInv
<1>1. ~FilesSayCompleted
  BY StatusAssumption DEF Init, FilesSayCompleted, TerminalStates
<1>2. ASSUME NEW u \in Threads
      PROVE  Progress(u) /\ ~SaysCompleted(u)
  <2>1. pc[u] = "idle" /\ stack[u] = <<>>
    BY Zenon DEF Init
  <2>2. Home(u) = "idle"
    BY <2>1, Places, Zenon DEF Home
  <2> QED BY <2>2, Zenon DEF Init, Progress, SaysCompleted, Loop, InPlanStep, NoRun
<1> QED BY <1>1, <1>2, Zenon DEF EarnedInv

\* No file of a run says that it succeeded unless some start() of it executed
\* every required step to completion, whatever threads interleave, crash,
\* raise or repair: the loop's outcome is the only source of the word, and
\* all the rest copies it.
THEOREM EarnedSuccess == Spec => []SuccessIsEarned
<1>1. Init => TypeOK /\ ControlInv /\ EarnedInv
  BY ControlInit, EarnedInit, Zenon
<1>2. TypeOK /\ ControlInv /\ EarnedInv /\ [Next]_vars => TypeOK' /\ ControlInv' /\ EarnedInv'
  BY ControlStep, EarnedStep, Zenon
<1>3. EarnedInv => SuccessIsEarned
  BY Zenon DEF EarnedInv, FilesSayCompleted, Earned, SuccessIsEarned
<1> QED BY <1>1, <1>2, <1>3, PTL DEF Spec
----------------------------------------------------------------------------
(* A run that ended has its terminal event.                                *)

\* A terminal event stays, and a restart is not forgotten.
LEMMA EventStays ==
  ASSUME TypeOK, ControlInv, [Next]_vars
  PROVE  /\ term # "none" => term' # "none"
         /\ crashes' = 0 => crashes = 0 /\ ~Crash
<1> USE DEF KeepRest, files, locals, history
<1>1. CASE UNCHANGED vars \/ Tick \/ Crash
  <2>1. CASE Crash
    <3>1. term' = term /\ crashes' = crashes + 1 /\ crashes \in 0..MaxCrashes
      BY <2>1, Zenon DEF Crash, TypeOK
    <3> QED BY <3>1, BoundAssumption, SMT
  <2> QED BY <1>1, <2>1, Zenon DEF vars, Tick, Crash
<1>2. ASSUME NEW t \in Threads, Begin(t) \/ Continue(t)
      PROVE  (term # "none" => term' # "none") /\ crashes' = crashes
  <2>1. CASE Begin(t) \/ CancelStep(t) \/ ReadEnsure(t) \/ ReadDone(t)
    BY <2>1, Zenon DEF Begin, Start, Cancel, Budget, Stall, Lock, Watch, BoundaryReturns, MarkAccepted, Read,
                CancelStep, CancelRequest, CancelEvent, CancelDone, ReadEnsure, ReadDone, AppendTerminal
  <2>2. CASE StoreStep(t)
    BY <2>2, Zenon DEF StoreStep, UpdateRun, UpdateIndex, SaveResult, CohereRead, CohereRun, CohereIndex,
                GetResult, GetIndex, EnsureRead, EnsureRun, EnsureEvent, AppendTerminal
  <2>3. CASE StartStep(t)
    BY <2>3, Zenon DEF StartStep, StartTest, StepRead, StepDecide, Execute, ArtifactStart, ArtifactCreate,
                ArtifactDone, FinishRun, Finalize, TailReload, StartDone, WorkerRaises, AppendTerminal
  <2>4. CASE LockedGuardStep(t) \/ GapStep(t) \/ GuardRaises(t)
    BY <2>4, Zenon DEF LockedGuardStep, GapStep, GuardRaises, BudgetIndex, BudgetRun, BudgetEnsured, BudgetDecide,
                BudgetStalled, BudgetBlock, StallRead, StallRun, GuardEvent, Unlock,
                WatchSeen, WatchExit, GapRun, GapReload, GapDone, AppendTerminal
  <2> QED BY <1>2, <2>1, <2>2, <2>3, <2>4, Zenon DEF Continue
<1>3. Crash => crashes' # 0
  BY DEF Crash, TypeOK
<1> QED BY <1>1, <1>2, <1>3, Zenon DEF Next

\* A thread that owes the event still owes it after its step, or has written it.
LEMMA DebtKept ==
  ASSUME TypeOK, ControlInv, NEW t \in Threads, Begin(t) \/ Continue(t), NobodyRaises, Owes(t)
  PROVE  term' # "none" \/ Owes(t)'
<1> USE DEF At
<1>1. Nested(t) /\ Ready(t) /\ Workers = {} /\ ~GuardRaises(t)
  BY Zenon DEF ControlInv, NobodyRaises, GuardRaises
<1>2. CASE EnsureEvent(t) \/ GuardEvent(t)
  <2>1. EventOf(res[t]) # "none"
    BY <1>2, Here, Lifecycle, Zenon DEF EnsureEvent, GuardEvent, Saves, TypeOK
  <2> QED BY <1>2, <2>1, Zenon DEF EnsureEvent, GuardEvent, AppendTerminal
<1>3. CASE (StoreStep(t) /\ ~EnsureEvent(t)) \/ StallRead(t) \/ StallRun(t)
  <2>1. pc[t] \notin {"ensure_event", "guard_event", "gap_reload"}
    BY <1>3, Zenon DEF StoreStep, UpdateRun, UpdateIndex, SaveResult, CohereRead, CohereRun, CohereIndex,
                GetResult, GetIndex, EnsureRead, EnsureRun, StallRead, StallRun
  <2>2. Calls(t) = {pc[t]} \cup Behind(t) /\ Behind(t) \subseteq Calls(t)'
    BY <1>1, <1>3, AtHome, StoreStays, Zenon
  <2> QED BY <2>1, <2>2, Zenon DEF Owes
<1>4. CASE GapReload(t)
  <2>1. Standing(t)
    BY <1>4, Stands, Zenon DEF GapReload, Tops
  <2>2. "guard_event" \in Calls(t)'
    BY <1>4, <2>1, Zenon DEF GapReload, Standing, FromVerdict, Arrives
  <2> QED BY <2>2, Zenon DEF Owes
<1>5. CASE Begin(t) \/ CancelStep(t) \/ ReadEnsure(t) \/ ReadDone(t) \/ StartStep(t)
           \/ ((LockedGuardStep(t) \/ GapStep(t)) /\ ~(GuardEvent(t) \/ StallRead(t) \/ StallRun(t) \/ GapReload(t)))
  <2>1. pc[t] \in Tops \ {"gap_reload"}
    BY <1>1, <1>5, Zenon DEF Begin, Start, Cancel, Budget, Lock, Stall, Watch, BoundaryReturns, MarkAccepted, Read,
                CancelStep, CancelRequest, CancelEvent, CancelDone, ReadEnsure, ReadDone,
                StartStep, StartTest, StepRead, StepDecide, Execute, ArtifactStart, ArtifactCreate,
                ArtifactDone, FinishRun, Finalize, TailReload, StartDone, WorkerRaises,
                LockedGuardStep, GapStep, BudgetIndex, BudgetRun, BudgetEnsured, BudgetDecide, BudgetStalled,
                BudgetBlock, Unlock, WatchSeen, WatchExit, GapRun, GapDone, Tops, OfStart, Loop, InPlanStep
  <2>2. Calls(t) = {pc[t]}
    BY <1>1, <2>1, AtHome, Zenon
  <2> QED BY <2>1, <2>2, LabelsApart, Zenon DEF Owes, Callees, Saves
<1> QED BY <1>1, <1>2, <1>3, <1>4, <1>5, Zenon DEF Continue

\* Whoever first shows the run ended has written the event, or owes it.
LEMMA EndIsAnnounced ==
  ASSUME TypeOK, ControlInv, NEW t \in Threads, Begin(t) \/ Continue(t), NobodyRaises,
         ~FilesShowEnd, ~ShowsEnd(t)
  PROVE  term' # "none" \/ Owes(t)' \/ (~FilesShowEnd' /\ ~ShowsEnd(t)')
<1> USE DEF KeepRest, locals, files, At
<1>1. /\ runJson.status \notin TerminalStates /\ index \notin TerminalStates /\ result = "none"
      /\ mem[t].status \notin TerminalStates /\ data[t].status \notin TerminalStates /\ res[t] = "none"
  BY Zenon DEF FilesShowEnd, ShowsEnd, IsTerminal
<1>2. SUFFICES \/ term' # "none" \/ Owes(t)'
               \/ /\ runJson'.status \notin TerminalStates /\ index' \notin TerminalStates /\ result' = "none"
                  /\ mem'[t].status \notin TerminalStates /\ data'[t].status \notin TerminalStates /\ res'[t] = "none"
  BY Zenon DEF FilesShowEnd, ShowsEnd, IsTerminal
<1>3. /\ mem \in [Threads -> Run] /\ data \in [Threads -> Run] /\ runJson \in Run
      /\ res \in [Threads -> ResultStatuses \cup {"none"}]
  BY Zenon DEF TypeOK
<1>4. "running" \notin TerminalStates /\ NoRun.status \notin TerminalStates
  BY Zenon DEF TerminalStates, NoRun
<1>5. CASE (\E label \in {"idle", "done", "raised"} : Finish(t, label)) /\ UNCHANGED <<runJson, index, result>>
  BY <1>1, <1>4, <1>5, Forgets, Zenon
<1>6. pc[t] \notin Saves
  BY <1>1, Here, Zenon
<1>7. CASE Begin(t) \/ CancelStep(t) \/ ReadEnsure(t) \/ ReadDone(t)
  <2>1. CASE Cancel(t)
    BY <1>1, <1>3, <1>5, <2>1, Zenon DEF Run, Cancel
  <2>2. CASE Begin(t) /\ ~Cancel(t)
    BY <1>1, <1>3, <1>5, <2>2, Zenon
    DEF Run, Begin, Start, Budget, Stall, Lock, Watch, BoundaryReturns, MarkAccepted, Read
  <2>3. CASE CancelEvent(t)
    BY <2>3, Zenon DEF CancelEvent, AppendTerminal
  <2>4. CASE CancelRequest(t) \/ CancelDone(t) \/ ReadEnsure(t) \/ ReadDone(t)
    BY <1>1, <1>5, <2>4, Zenon DEF CancelRequest, CancelDone, ReadEnsure, ReadDone
  <2> QED BY <1>7, <2>1, <2>2, <2>3, <2>4, Zenon DEF CancelStep
<1>8. CASE StoreStep(t)
  BY <1>1, <1>3, <1>6, <1>8, Zenon
  DEF Run, StoreStep, UpdateRun, UpdateIndex, SaveResult, CohereRead, CohereRun, CohereIndex,
      GetResult, GetIndex, EnsureRead, EnsureRun, EnsureEvent, IsTerminal, Saves
<1>9. CASE StartTest(t) \/ StepRead(t) \/ StepDecide(t) \/ Execute(t) \/ ArtifactStart(t)
           \/ ArtifactCreate(t) \/ ArtifactDone(t)
  BY <1>1, <1>3, <1>4, <1>9
  DEF Run, StartTest, StepRead, StepDecide, Execute, ArtifactStart, ArtifactCreate, ArtifactDone
<1>10. CASE FinishRun(t)
  <2>1. out[t] # "none"
    BY Lifecycle, Zenon DEF TypeOK
  <2> QED BY <1>10, <2>1, Zenon DEF FinishRun, AppendTerminal
<1>11. CASE Finalize(t)
  <2>1. mem[t].status \in ResultStatuses \cap Statuses
    BY <1>3, <1>11, Here, Zenon DEF Finalize, Run
  <2> QED BY <1>1, <2>1, Zenon DEF ResultStatuses, Statuses, TerminalStates
<1>12. CASE TailReload(t) \/ StartDone(t)
  BY <1>1, <1>3, <1>4, <1>5, <1>12, Zenon DEF TailReload, StartDone
<1>13. CASE BudgetBlock(t) \/ GapRun(t) \/ GapReload(t)
  <2>1. Standing(t)
    BY <1>13, Stands, Zenon DEF BudgetBlock, GapRun, GapReload, Tops
  <2>2. \/ Then(t, <<"update_run", "save_result", "guard_event", "unlock">>)
        \/ Then(t, <<"save_result", "gap_reload">>)
        \/ Then(t, <<"update_run", "guard_event", "gap_done">>)
        \/ (\E label \in {"done", "raised"} : Finish(t, label)) /\ UNCHANGED <<runJson, index, result>>
        \/ UNCHANGED <<runJson, index, result, locals>>
    BY <1>13, Zenon DEF BudgetBlock, GapRun, GapReload
  <2>3. \/ Then(t, <<"update_run", "save_result", "guard_event", "unlock">>)
        \/ Then(t, <<"save_result", "gap_reload">>)
        \/ Then(t, <<"update_run", "guard_event", "gap_done">>)
        => Owes(t)'
    BY <2>1, Zenon DEF Standing, FromVerdict, Arrives, Owes
  <2> QED BY <1>1, <1>5, <2>2, <2>3, Zenon
<1>14. CASE StallRead(t) \/ StallRun(t)
  <2>1. pc[t] \in Lookups /\ FromLookup(t)
    BY <1>14, TypeHalves, StoreMoves, Zenon DEF StallRead, StallRun, Lookups, Callees, ControlInv
  <2>2. \/ Then(t, <<"update_run", "save_result", "guard_event">>)
        \/ UNCHANGED <<runJson, index, result, mem, data>> /\ res'[t] = "none"
    BY <1>1, <1>3, <1>14, Zenon DEF StallRead, StallRun
  <2>3. Then(t, <<"update_run", "save_result", "guard_event">>) => Owes(t)'
    BY <2>1, Zenon DEF FromLookup, Arrives, Owes
  <2> QED BY <1>1, <2>2, <2>3, Zenon
<1>15. CASE GuardEvent(t)
  BY <1>6, <1>15, Zenon DEF GuardEvent, Saves
<1>16. CASE BudgetIndex(t) \/ BudgetRun(t) \/ BudgetEnsured(t) \/ BudgetDecide(t) \/ BudgetStalled(t)
            \/ Unlock(t)
  BY <1>1, <1>3, <1>5, <1>16, Zenon
  DEF BudgetIndex, BudgetRun, BudgetEnsured, BudgetDecide, BudgetStalled, Unlock
<1>17. CASE WatchSeen(t) \/ WatchExit(t) \/ GapDone(t)
  BY <1>1, <1>5, <1>17, Zenon DEF WatchSeen, WatchExit, GapDone
<1> QED BY <1>7, <1>8, <1>9, <1>10, <1>11, <1>12, <1>13, <1>14, <1>15, <1>16, <1>17, Zenon
        DEF Continue, StartStep, LockedGuardStep, GapStep, WorkerRaises, GuardRaises, NobodyRaises

\* Every step keeps the event written or owed.
LEMMA EventStep ==
  ASSUME TypeOK, ControlInv, EventInv, [Next]_vars
  PROVE  EventInv'
<1> SUFFICES ASSUME crashes' = 0, NobodyRaises, term' = "none"
             PROVE  Undecided' \/ \E u \in Threads : Owes(u)'
  BY Zenon DEF EventInv, NobodyRaises, Undecided, FilesShowEnd, Owes, Calls, ShowsEnd
<1>1. crashes = 0 /\ ~Crash /\ term = "none"
  BY EventStays, Zenon
<1>2. Undecided \/ \E u \in Threads : Owes(u)
  BY <1>1, Zenon DEF EventInv
<1>3. CASE UNCHANGED vars \/ Tick
  BY <1>2, <1>3, Zenon DEF vars, Tick, files, locals, Undecided, FilesShowEnd, ShowsEnd, Owes, Calls
<1>4. ASSUME NEW t \in Threads, Begin(t) \/ Continue(t)
      PROVE  Undecided' \/ \E u \in Threads : Owes(u)'
  <2>1. \A u \in Threads \ {t} : Same(u) /\ (Owes(u)' <=> Owes(u)) /\ (ShowsEnd(u)' <=> ShowsEnd(u))
    <3> SUFFICES ASSUME NEW u \in Threads \ {t}
                 PROVE  Same(u) /\ (Owes(u)' <=> Owes(u)) /\ (ShowsEnd(u)' <=> ShowsEnd(u))
      OBVIOUS
    <3>1. Same(u)
      BY <1>4, OthersStay, Zenon
    <3> QED BY <3>1, Zenon DEF Same, Owes, Calls, ShowsEnd
  <2>2. Owes(t) => Owes(t)'
    BY <1>4, DebtKept, Zenon
  <2>3. Undecided => Owes(t)' \/ (~FilesShowEnd' /\ ~ShowsEnd(t)')
    BY <1>4, EndIsAnnounced, Zenon DEF Undecided
  <2>4. CASE \E u \in Threads : Owes(u)
    BY <2>1, <2>2, <2>4, Zenon
  <2>5. CASE Undecided
    BY <2>1, <2>3, <2>5, Zenon DEF Undecided
  <2> QED BY <1>2, <2>4, <2>5, Zenon
<1> QED BY <1>1, <1>3, <1>4, Zenon DEF Next

\* When no call is in progress, the process never stopped and no thread is one
\* that an exception may end (the model lets it end an artifact worker, its
\* guard and the request that waits for it), a run that run.json or result.json show ended has its terminal
\* event, whoever ended it: the loop and cancel() write it first, the guards
\* and the repair of get_result still owe it until they return.
THEOREM EndsAreAnnounced == Spec => [](crashes = 0 /\ NobodyRaises => TerminalRunHasEvent)
<1>1. Init => EventInv
  BY StatusAssumption DEF Init, EventInv, Undecided, FilesShowEnd, ShowsEnd, IsTerminal, TerminalStates, NoRun
<1>2. TypeOK /\ ControlInv /\ EventInv /\ [Next]_vars => TypeOK' /\ ControlInv' /\ EventInv'
  BY ControlStep, EventStep, Zenon
<1>3. ControlInv /\ EventInv => (crashes = 0 /\ NobodyRaises => TerminalRunHasEvent)
  <2> SUFFICES ASSUME ControlInv, EventInv, crashes = 0, NobodyRaises, AtRest
               PROVE  (IsTerminal(runJson.status) \/ result # "none") => term # "none"
    BY Zenon DEF TerminalRunHasEvent
  <2>1. ASSUME NEW u \in Threads
        PROVE  ~Owes(u)
    <3>1. pc[u] \in {"idle", "done", "raised", "returned"} /\ pc[u] \in Tops
      BY Zenon DEF AtRest, Tops
    <3>2. Calls(u) = {pc[u]}
      BY <3>1, Here, Zenon
    <3> QED BY <3>1, <3>2, Zenon DEF Owes
  <2> QED BY <2>1, Zenon DEF EventInv, Undecided, FilesShowEnd
<1> QED BY <1>1, <1>2, <1>3, ControlInit, PTL DEF Spec
----------------------------------------------------------------------------
(* Every step of the plan is executed once.                                *)

\* Who writes run.json, and who executes.
LEMMA Writers ==
  ASSUME NEW t \in Threads, Begin(t) \/ Continue(t)
  PROVE  /\ UpdateRun(t) \/ CohereRun(t) \/ runJson' = runJson
         /\ Execute(t) \/ executed' = executed
<1> USE DEF KeepRest, files, locals, history
<1>1. CASE Begin(t) \/ CancelStep(t) \/ ReadEnsure(t) \/ ReadDone(t)
  BY <1>1, Zenon DEF Begin, Start, Cancel, Budget, Stall, Lock, Watch, BoundaryReturns, MarkAccepted, Read,
              CancelStep, CancelRequest, CancelEvent, CancelDone, ReadEnsure, ReadDone
<1>2. CASE StoreStep(t)
  BY <1>2, Zenon DEF StoreStep, UpdateRun, UpdateIndex, SaveResult, CohereRead, CohereRun, CohereIndex,
              GetResult, GetIndex, EnsureRead, EnsureRun, EnsureEvent
<1>3. CASE StartStep(t)
  BY <1>3, Zenon DEF StartStep, StartTest, StepRead, StepDecide, ArtifactStart, ArtifactCreate, Execute,
              ArtifactDone, FinishRun, Finalize, TailReload, StartDone, WorkerRaises
<1>4. CASE LockedGuardStep(t) \/ GapStep(t) \/ GuardRaises(t)
  BY <1>4, Zenon DEF LockedGuardStep, GapStep, GuardRaises, BudgetIndex, BudgetRun, BudgetEnsured, BudgetDecide,
              BudgetStalled, BudgetBlock, StallRead, StallRun, GuardEvent, Unlock,
              WatchSeen, WatchExit, GapRun, GapReload, GapDone
<1> QED BY <1>1, <1>2, <1>3, <1>4, Zenon DEF Continue

\* A run that start() would take up is written back only by the tail of a
\* start() that executed nothing.
LEMMA OnceFiles ==
  ASSUME TypeOK, ControlInv, OneStart, OnceInv, NEW t \in Threads, Begin(t) \/ Continue(t)
  PROVE  /\ Fresh(runJson)' => executed' = {}
         /\ Fresh(runJson)' => Fresh(runJson) \/ Home(t) = "start_done"
         /\ Execute(t) => t \in Starters /\ Home(t) = "execute" /\ ~Fresh(runJson) /\ runJson' = runJson
<1>1. OnceAt(t)
  BY Zenon DEF OnceInv
<1>2. CASE UpdateRun(t)
  <2>1. "update_run" \in Calls(t) /\ runJson' = mem[t] /\ executed' = executed /\ ~Execute(t)
    BY <1>2, Zenon DEF UpdateRun, Calls, At, KeepRest, history, Execute
  <2> QED BY <1>1, <2>1, Zenon DEF OnceAt, Fresh
<1>3. CASE CohereRun(t)
  <2>1. RunStatusOf(res[t]) \in TerminalStates /\ ~Execute(t)
    BY <1>3, Here, Lifecycle, Zenon DEF CohereRun, At, Saves, TypeOK, Execute
  <2>2. runJson'.status \in TerminalStates
    BY <1>3, <2>1, Zenon DEF CohereRun, TypeOK, Run
  <2> QED BY <2>1, <2>2, Zenon DEF Fresh
<1>4. CASE runJson' = runJson
  <2>1. CASE Execute(t)
    <3>1. pc[t] = "execute" /\ pc[t] \in Tops /\ pc[t] \in OfStart
      BY <2>1, Zenon DEF Execute, At, Tops, OfStart, Loop, InPlanStep
    <3>2. Home(t) = "execute" /\ t \in Starters
      BY <3>1, Here, Zenon
    <3>3. ~Fresh(runJson)
      BY <1>1, <3>2, Zenon DEF OnceAt, Loop, InPlanStep
    <3> QED BY <1>4, <3>2, <3>3, Zenon DEF Fresh
  <2>2. CASE ~Execute(t)
    BY <1>4, <2>2, Writers, Zenon DEF OnceInv, Fresh
  <2> QED BY <2>1, <2>2, Zenon
<1> QED BY <1>2, <1>3, <1>4, Writers, Zenon

\* The other threads.
LEMMA OnceOthers ==
  ASSUME TypeOK, ControlInv, OneStart, OnceInv, NEW t \in Threads, Begin(t) \/ Continue(t),
         NEW u \in Threads \ {t}
  PROVE  OnceAt(u)'
<1>1. Same(u) /\ Home(u)' = Home(u) /\ Calls(u)' = Calls(u)
  BY OthersStay, StillReady, HistoryGrows, Zenon DEF Next
<1>2. OnceAt(u) /\ Ready(u) /\ Ready(t)
  BY Zenon DEF OnceInv, ControlInv
<1>3. Home(u) \in OfStart => u \in Starters
  BY <1>2, Zenon DEF Ready
<1>4. Home(u) \in OfStart => executed' = executed /\ (Fresh(runJson)' => Fresh(runJson))
  <2>1. Home(t) = "start_done" => t \in Starters
    BY <1>2, Zenon DEF Ready, OfStart
  <2> QED BY <1>3, <2>1, OnceFiles, Writers, Zenon DEF OneStart
<1>5. {"start_done", "start_test"} \cup Loop \subseteq OfStart
  BY Zenon DEF OfStart
<1> QED BY <1>1, <1>2, <1>4, <1>5, Zenon DEF OnceAt, Same, Fresh

\* The moves of a guard or a reader that write nothing.
LookMove(t) ==
  \/ \E h \in {"idle", "returned", "read_done", "budget_run", "budget_block", "unlock"} : Goto(t, h)
  \/ Then(t, <<"budget_index">>)
  \/ \E h \in {"watch_seen", "watch_exit", "read_ensure", "gap_run", "budget_decide", "unlock"} :
       Then(t, <<"get_result", h>>)
  \/ \E h \in {"read_done", "budget_ensured", "gap_done"} : Then(t, <<"ensure", h>>)
  \/ \E h \in {"unlock", "budget_stalled"} : Then(t, <<"stall", h>>)
  \/ \E label \in {"idle", "done", "raised"} : Finish(t, label)
  \/ Then(t, <<"save_result", "gap_reload">>)

\* They lead to no write of run.json.
LEMMA LookMoves ==
  ASSUME TypeOK, NEW t \in Threads, FromGuard(t), FromVerdict(t), LookMove(t)
  PROVE  Home(t)' \notin {"cancel_request", "cancel_event"} /\ "update_run" \notin Calls(t)'
<1>1. CASE \/ \E h \in {"idle", "returned", "read_done", "budget_run", "budget_block", "unlock"} : Goto(t, h)
           \/ Then(t, <<"budget_index">>)
           \/ Then(t, <<"save_result", "gap_reload">>)
  BY <1>1 DEF FromGuard, FromVerdict, Arrives
<1>2. CASE \/ \E h \in {"watch_seen", "watch_exit", "read_ensure", "gap_run", "budget_decide", "unlock"} :
                Then(t, <<"get_result", h>>)
           \/ \E h \in {"read_done", "budget_ensured", "gap_done"} : Then(t, <<"ensure", h>>)
           \/ \E h \in {"unlock", "budget_stalled"} : Then(t, <<"stall", h>>)
  BY <1>2 DEF FromGuard, Arrives
<1>3. CASE \E label \in {"idle", "done", "raised"} : Finish(t, label)
  BY <1>3, TypeHalves, Ends DEF Tops
<1> QED BY <1>1, <1>2, <1>3, Zenon DEF LookMove

\* A thread in an operation of the store.
LEMMA OnceStore ==
  ASSUME TypeOK, ControlInv, OneStart, OnceInv, NEW t \in Threads,
         StoreStep(t) \/ GuardEvent(t) \/ StallRead(t) \/ StallRun(t)
  PROVE  OnceAt(t)'
<1>1. /\ pc[t] \in Callees /\ Home(t)' = Home(t) /\ step' = step /\ executed' = executed
      /\ "update_run" \in Calls(t)' => "update_run" \in Calls(t) \/ mem'[t].status = "blocked"
  BY StoreStays, Zenon DEF history
<1>2. OnceAt(t) /\ pc[t] \notin Tops
  BY <1>1, LabelsApart, Zenon DEF OnceInv
<1>3. mem'[t] = mem[t] \/ (StallRun(t) /\ ~Fresh(mem[t])')
  <2>1. CASE StallRun(t)
    BY <2>1 DEF StallRun, TypeOK, Run, Fresh, TerminalStates
  <2>2. CASE ~StallRun(t)
    BY <2>2, Zenon DEF StoreStep, UpdateRun, UpdateIndex, SaveResult, CohereRead, CohereRun, CohereIndex,
                GetResult, GetIndex, EnsureRead, EnsureRun, EnsureEvent, GuardEvent, StallRead, locals
  <2> QED BY <2>1, <2>2, Zenon
<1>4. Home(t) \in Loop => ~Fresh(runJson)'
  <2>1. CASE Home(t) = "step" /\ pc[t] = "update_run"
    <3>1. UpdateRun(t)
      BY <2>1, Zenon DEF StoreStep, UpdateRun, UpdateIndex, SaveResult, CohereRead, CohereRun, CohereIndex,
                  GetResult, GetIndex, EnsureRead, EnsureRun, EnsureEvent, GuardEvent, StallRead, StallRun, At
    <3> QED BY <1>2, <2>1, <3>1, Zenon DEF UpdateRun, OnceAt, Fresh
  <2>2. CASE ~(Home(t) = "step" /\ pc[t] = "update_run")
    <3>1. Home(t) \in Loop => Home(t) # "start_done"
      BY Zenon DEF Loop, InPlanStep
    <3> QED BY <1>2, <2>2, <3>1, OnceFiles, Zenon DEF OnceAt, Continue, LockedGuardStep
  <2> QED BY <2>1, <2>2, Zenon
<1>5. Home(t) \notin {"cancel_request", "cancel_event"}
  BY <1>2, Zenon DEF OnceAt, Tops
<1>6. Fresh(mem[t])' => Fresh(mem[t]) /\ mem'[t].status # "blocked"
  BY <1>3, Zenon DEF Fresh, TerminalStates
<1> QED BY <1>1, <1>2, <1>4, <1>5, <1>6, Zenon DEF OnceAt

\* A thread outside start().
LEMMA OnceAside ==
  ASSUME TypeOK, ControlInv, OneStart, OnceInv, NEW t \in Threads, AsideStep(t)
  PROVE  OnceAt(t)'
<1> USE DEF KeepRest, locals, At
<1>1. Home(t)' \notin OfStart
  BY StaysAside, Zenon
<1>2. SUFFICES /\ Home(t)' \in {"cancel_request", "cancel_event"} => pc'[t] = Home(t)' /\ mem'[t].cancel
               /\ "update_run" \in Calls(t)' => ~Fresh(mem[t])'
  BY <1>1, Zenon DEF OnceAt, OfStart
<1>3. CASE WorkerRaises(t) \/ GuardRaises(t)
  <2>1. Home(t)' \in {"raised", "gap_raised"}
    BY <1>3, Raises, Zenon
  <2>2. Calls(t)' = {"raised"} \/ Calls(t)' = {"get_result", "gap_raised"}
    BY <1>3, Raises, Zenon
  <2> QED BY <2>1, <2>2, Zenon
<1> SUFFICES ASSUME ~(WorkerRaises(t) \/ GuardRaises(t))
             PROVE  /\ Home(t)' \in {"cancel_request", "cancel_event"} => pc'[t] = Home(t)' /\ mem'[t].cancel
                    /\ "update_run" \in Calls(t)' => ~Fresh(mem[t])'
  BY <1>3, Zenon
<1>4. pc[t] \in Tops
  BY Zenon DEF AsideStep, Begin, Cancel, Budget, Lock, Stall, Watch, BoundaryReturns, MarkAccepted, Read,
         CancelStep, CancelRequest, CancelEvent, CancelDone, ReadEnsure, ReadDone, StartDone,
         LockedGuardStep, GapStep, BudgetIndex, BudgetRun, BudgetEnsured, BudgetDecide, BudgetStalled,
         BudgetBlock, Unlock, WatchSeen, WatchExit, GapRun, GapReload, GapDone, Tops, OfStart
<1>5. Standing(t) /\ FromGuard(t) /\ FromVerdict(t) /\ OnceAt(t)
  BY <1>4, Stands, Zenon DEF Standing, OnceInv
<1>6. CASE LookMove(t)
  BY <1>5, <1>6, LookMoves, Zenon
<1>7. CASE Cancel(t)
  <2>1. LookMove(t) \/ \E h \in {"cancel_request", "cancel_event"} :
                          Goto(t, h) /\ mem' = [mem EXCEPT ![t] = [runJson EXCEPT !.cancel = TRUE]]
    BY <1>7, Zenon DEF Cancel, LookMove
  <2>2. mem' = [mem EXCEPT ![t] = [runJson EXCEPT !.cancel = TRUE]] => mem'[t].cancel
    BY DEF TypeOK, Run
  <2> QED BY <1>5, <1>6, <2>1, <2>2 DEF FromGuard, Arrives
<1>8. CASE CancelRequest(t) \/ CancelEvent(t)
  <2>1. Home(t)' = "cancel_done"
    BY <1>5, <1>8, Zenon DEF CancelRequest, CancelEvent, FromGuard, Arrives
  <2>2. mem[t].cancel
    BY <1>5, <1>8, Zenon DEF CancelRequest, CancelEvent, OnceAt, Standing
  <2>3. mem'[t].cancel
    <3>1. mem' = mem \/ mem' = [mem EXCEPT ![t].status = "cancelled"]
      BY <1>8, Zenon DEF CancelRequest, CancelEvent
    <3>2. mem \in [Threads -> [status : Statuses, cancel : BOOLEAN]]
      BY Zenon DEF TypeOK, Run
    <3> QED BY <2>2, <3>1, <3>2, Zenon
  <2> QED BY <2>1, <2>3, Zenon DEF Fresh
<1>9. CASE BudgetBlock(t) \/ GapReload(t)
  <2>1. Home(t)' \in {"unlock", "gap_done"}
    BY <1>5, <1>9, Zenon DEF BudgetBlock, GapReload, FromVerdict, Arrives
  <2>2. mem'[t].status = "blocked"
    BY <1>9 DEF BudgetBlock, GapReload, TypeOK, Run
  <2> QED BY <2>1, <2>2, Zenon DEF Fresh, TerminalStates
<1>10. CASE (Begin(t) /\ ~Start(t) /\ ~Cancel(t)) \/ CancelDone(t) \/ ReadEnsure(t) \/ ReadDone(t) \/ StartDone(t)
  <2>1. LookMove(t)
    BY <1>10, Zenon DEF Begin, Budget, Lock, Stall, Watch, BoundaryReturns, Read, OneStart,
                 CancelDone, ReadEnsure, ReadDone, StartDone, LookMove
  <2> QED BY <1>6, <2>1, Zenon
<1>11. CASE \/ LockedGuardStep(t) /\ ~(GuardEvent(t) \/ StallRead(t) \/ StallRun(t) \/ BudgetBlock(t))
            \/ GapStep(t) /\ ~GapReload(t)
  <2>1. LookMove(t)
    BY <1>11, Zenon DEF LockedGuardStep, GapStep, BudgetIndex, BudgetRun, BudgetEnsured, BudgetDecide, BudgetStalled,
                 Unlock, WatchSeen, WatchExit, GapRun, GapDone, LookMove
  <2> QED BY <1>6, <2>1, Zenon
<1> QED BY <1>7, <1>8, <1>9, <1>10, <1>11, Zenon DEF AsideStep, CancelStep

\* A thread in start() or in the loop.
LEMMA OnceStart ==
  ASSUME TypeOK, ControlInv, OneStart, OnceInv, NEW t \in Threads,
         Start(t) \/ (StartStep(t) /\ ~StartDone(t) /\ ~WorkerRaises(t))
  PROVE  OnceAt(t)'
<1> USE DEF KeepRest, locals, history, files, At
<1>1. Standing(t) /\ pc[t] \in OfStart \cup {"idle"}
  BY Stands, Zenon DEF Start, StartStep, StartTest, StepRead, StepDecide, Execute, ArtifactStart, ArtifactCreate,
                ArtifactDone, FinishRun, Finalize, TailReload, Tops, OfStart, Loop, InPlanStep
<1>2. FromStart(t) /\ Home(t) = pc[t] /\ step[t] \in 1..(NSteps + 1) /\ NSteps \in Nat
  BY <1>1, StepAssumption, Zenon DEF Standing, TypeOK
<1>3. OnceAt(t) /\ (Fresh(runJson) => executed = {})
  BY Zenon DEF OnceInv
<1>4. runJson' = runJson
  BY Zenon DEF Start, StartStep, StartTest, StepRead, StepDecide, Execute, ArtifactStart, ArtifactCreate,
         ArtifactDone, FinishRun, Finalize, TailReload
<1>5. pc[t] \in Loop => /\ ~Fresh(mem[t]) /\ ~Fresh(runJson)'
                        /\ \A i \in 1..NSteps : <<t, i>> \in executed =>
                             i < step[t] \/ (i = step[t] /\ pc[t] \in InPlanStep \ {"step_decide", "execute"})
  BY <1>2, <1>3, <1>4, Zenon DEF OnceAt, Fresh, Loop
\* Outside the loop only a copy that start() would take up matters.
<1>6. ASSUME NEW h \in {"finish", "finalize", "tail_reload"}, Home(t)' = h, ~Fresh(mem[t])' \/ Calls(t)' = {h}
      PROVE  OnceAt(t)'
  BY <1>6, Zenon DEF OnceAt, Loop, InPlanStep
\* In the loop: the copy, the file, and the steps executed.
<1>7. ASSUME NEW h \in Loop, Home(t)' = h, ~Fresh(mem[t])',
             ~Fresh(runJson)' \/ (h = "step" /\ pc'[t] = "update_run"),
             \A i \in 1..NSteps : <<t, i>> \in executed' =>
               i < step'[t] \/ (i = step'[t] /\ h \in InPlanStep \ {"step_decide", "execute"})
      PROVE  OnceAt(t)'
  BY <1>7, Zenon DEF OnceAt, Loop, InPlanStep
<1>8. CASE Start(t)
  <2>1. Home(t)' = "start_test" /\ Calls(t)' = {"get_result", "start_test"}
    BY <1>2, <1>8, Zenon DEF Start, FromStart, Arrives
  <2>2. mem'[t] = runJson /\ executed' = executed
    BY <1>8, Zenon DEF Start, TypeOK
  <2> QED BY <1>3, <2>1, <2>2, Zenon DEF OnceAt, Fresh, Loop, InPlanStep
<1>9. CASE StartTest(t)
  <2>1. CASE Then(t, <<"update_run", "tail_reload">>) /\ ~Fresh(mem[t]) /\ mem' = mem
    <3>1. Home(t)' = "tail_reload" /\ ~Fresh(mem[t])'
      BY <1>2, <2>1, Zenon DEF FromStart, Arrives, Fresh
    <3> QED BY <1>6, <3>1, Zenon
  <2>2. CASE Goto(t, "finish")
    <3>1. Home(t)' = "finish" /\ Calls(t)' = {"finish"}
      BY <1>2, <2>2, Zenon DEF FromStart, Arrives
    <3> QED BY <1>6, <3>1, Zenon
  <2>3. CASE Then(t, <<"update_run", "step">>) /\ Fresh(mem[t]) /\ mem'[t].status = "running"
    <3>1. Home(t)' = "step" /\ pc'[t] = "update_run" /\ ~Fresh(mem[t])'
      BY <1>2, <2>3, Zenon DEF FromStart, Arrives, Fresh
    <3>2. executed' = {}
      BY <1>2, <1>3, <1>9, <2>3, Zenon DEF StartTest, OnceAt
    <3> QED BY <1>7, <3>1, <3>2, Zenon DEF Loop
  <2> QED BY <1>9, <2>1, <2>2, <2>3 DEF StartTest, Fresh, IsTerminal, TypeOK, Run
<1>10. CASE StepRead(t)
  <2>1. \/ Home(t)' = "finish" /\ Calls(t)' = {"finish"}
        \/ Home(t)' = "step_decide"
    BY <1>2, <1>10, Zenon DEF StepRead, FromStart, Arrives
  <2>2. UNCHANGED <<step, executed>> /\ pc[t] = "step"
    BY <1>10, Zenon DEF StepRead
  <2>3. ~Fresh(mem[t])'
    <3>1. mem' = mem \/ mem' = [mem EXCEPT ![t].cancel = @ \/ runJson.cancel]
      BY <1>10, Zenon DEF StepRead
    <3>2. mem'[t].status = mem[t].status /\ (mem[t].cancel => mem'[t].cancel)
      BY <3>1 DEF TypeOK, Run
    <3> QED BY <1>5, <2>2, <3>2, Zenon DEF Fresh, Loop
  <2> QED BY <1>5, <1>6, <1>7, <2>1, <2>2, <2>3, Zenon DEF Loop, InPlanStep
<1>11. CASE StepDecide(t)
  <2>1. /\ \/ Goto(t, "finish") \/ Then(t, <<"update_run", "finish">>)
           \/ Then(t, <<"update_run", "step">>) /\ step'[t] = step[t] + 1
           \/ Then(t, <<"update_run", "update_run", "execute">>) /\ step'[t] = step[t]
        /\ executed' = executed /\ mem' = mem /\ pc[t] = "step_decide"
    BY <1>11, Zenon DEF StepDecide, TypeOK
  <2>2. \/ Home(t)' = "finish"
        \/ Home(t)' = "step" /\ step'[t] = step[t] + 1
        \/ Home(t)' = "execute" /\ step'[t] = step[t]
    BY <1>2, <2>1, Zenon DEF FromStart, Arrives
  <2>3. ~Fresh(mem[t])' /\ ~Fresh(runJson)' /\ \A i \in 1..NSteps : <<t, i>> \in executed => i < step[t]
    BY <1>5, <2>1, Zenon DEF Fresh, Loop, InPlanStep
  <2> QED BY <1>2, <1>6, <1>7, <2>1, <2>2, <2>3 DEF Loop, InPlanStep
<1>12. CASE Execute(t) \/ ArtifactStart(t) \/ ArtifactCreate(t) \/ ArtifactDone(t)
  <2>1. /\ pc[t] \in InPlanStep /\ mem' = mem /\ executed' \subseteq executed \cup {<<t, step[t]>>}
    BY <1>12, Zenon DEF Execute, ArtifactStart, ArtifactCreate, ArtifactDone, InPlanStep
  <2>2. /\ ~Fresh(mem[t])' /\ ~Fresh(runJson)'
        /\ \A i \in 1..NSteps : <<t, i>> \in executed' => i < step[t] \/ i = step[t]
    BY <1>5, <2>1, Zenon DEF Fresh, Loop
  <2>3. ASSUME NEW status \in {"completed", "partial", "failed", "blocked", "cancelled"}, Outcome(t, status)
        PROVE  OnceAt(t)'
    <3>1. step'[t] = step[t] + 1
      BY <2>3, Zenon DEF Outcome, TypeOK
    <3>2. \E h \in {"step", "finish"} : Then(t, <<"update_run", h>>)
      BY <2>3, Zenon DEF Outcome
    <3>3. \E h \in {"step", "finish"} : Home(t)' = h
      BY <1>2, <3>2, Zenon DEF FromStart, Arrives
    <3>4. \A i \in 1..NSteps : <<t, i>> \in executed' => i < step'[t]
      BY <1>2, <2>2, <3>1
    <3> QED BY <1>6, <1>7, <2>2, <3>3, <3>4, Zenon DEF Loop
  <2>4. \/ \E status \in {"completed", "partial", "failed", "blocked", "cancelled"} : Outcome(t, status)
        \/ /\ \/ \E h \in {"artifact_start", "artifact_create"} : Goto(t, h)
              \/ \E h \in {"artifact_done", "artifact_rejected"} : Then(t, <<"update_run", h>>)
           /\ step' = step
    BY <1>12, OutcomeAssumption, Zenon DEF Execute, ArtifactStart, ArtifactCreate, ArtifactDone
  <2>5. ASSUME \/ \E h \in {"artifact_start", "artifact_create"} : Goto(t, h)
               \/ \E h \in {"artifact_done", "artifact_rejected"} : Then(t, <<"update_run", h>>),
               step' = step
        PROVE  OnceAt(t)'
    <3>1. Home(t)' \in {"artifact_start", "artifact_create", "artifact_done", "artifact_rejected"}
      BY <1>2, <2>5, Zenon DEF FromStart, Arrives
    <3> QED BY <1>7, <2>2, <2>5, <3>1, Zenon DEF Loop, InPlanStep
  <2> QED BY <2>3, <2>4, <2>5, Zenon
<1>13. CASE FinishRun(t) \/ Finalize(t)
  <2>1. \E h \in {"finalize", "tail_reload"} : Home(t)' = h
    BY <1>2, <1>13, Zenon DEF FinishRun, Finalize, FromStart, Arrives
  <2>2. mem'[t].status \in TerminalStates
    <3>1. CASE FinishRun(t)
      BY <3>1, Lifecycle DEF FinishRun, TypeOK, Run
    <3>2. CASE Finalize(t)
      <4>1. mem' = mem /\ mem[t].status \in ResultStatuses \cap Statuses
        BY <1>1, <3>2, Zenon DEF Finalize, Standing, TypeOK, Run
      <4> QED BY <4>1, Zenon DEF ResultStatuses, Statuses, TerminalStates
    <3> QED BY <1>13, <3>1, <3>2, Zenon
  <2> QED BY <1>6, <2>1, <2>2, Zenon DEF Fresh
<1>14. CASE TailReload(t)
  <2>1. Home(t)' = "start_done"
    BY <1>2, <1>14, Zenon DEF TailReload, FromStart, Arrives
  <2>2. /\ executed' = executed
        /\ mem'[t] = runJson \/ Calls(t)' = {"start_done"}
    BY <1>2, <1>14, Zenon DEF TailReload, FromStart, Arrives, TypeOK
  <2> QED BY <1>3, <2>1, <2>2, Zenon DEF OnceAt, Fresh, Loop, InPlanStep
<1> QED BY <1>8, <1>9, <1>10, <1>11, <1>12, <1>13, <1>14, Zenon DEF StartStep

\* Every step keeps the plan executed once.
LEMMA OnceStep ==
  ASSUME TypeOK, ControlInv, OneStart, OnceInv, [Next]_vars
  PROVE  OnceInv'
<1>1. CASE UNCHANGED vars \/ Tick
  <2>1. UNCHANGED <<runJson, pc, stack, mem, step, executed>>
    BY <1>1, Zenon DEF vars, Tick, files, locals, history
  <2> QED BY <2>1 DEF OnceInv, OnceAt, Fresh, Home, Calls
<1>2. CASE Crash
  <2>1. runJson' = runJson /\ executed' = executed
    BY <1>2, Zenon DEF Crash, files
  <2>2. ASSUME NEW u \in Threads
        PROVE  OnceAt(u)'
    <3>1. pc'[u] \in {"idle", "done", "raised", "returned"} /\ stack'[u] = <<>>
      BY <1>2, Zenon DEF Crash
    <3>2. Home(u)' = pc'[u] /\ BehindOf(stack'[u]) = {}
      BY <3>1, Places, Zenon DEF Home
    <3>3. Calls(u)' = {pc'[u]}
      BY <3>2, Zenon DEF Calls, BehindOf
    <3>4. "update_run" \notin Calls(u)'
      BY <3>1, <3>3, Zenon
    <3> QED BY <3>1, <3>2, <3>4, Zenon DEF OnceAt, Loop, InPlanStep
  <2> QED BY <2>1, <2>2, Zenon DEF OnceInv, Fresh
<1>3. ASSUME NEW t \in Threads, Begin(t) \/ Continue(t)
      PROVE  OnceInv'
  <2>1. OnceAt(t)'
    BY <1>3, OnceStore, OnceAside, OnceStart, Zenon DEF AsideStep, Continue
  <2> QED BY <1>3, <2>1, OnceFiles, OnceOthers, Zenon DEF OnceInv
<1> QED BY <1>1, <1>2, <1>3, Zenon DEF Next

\* The initial states: nothing is executed.
LEMMA OnceInit ==
  ASSUME Init
  PROVE  OnceInv
<1>1. ASSUME NEW u \in Threads
      PROVE  OnceAt(u)
  <2>1. Home(u) = "idle" /\ Calls(u) = {"idle"}
    <3>1. pc[u] = "idle" /\ stack[u] = <<>>
      BY Zenon DEF Init
    <3>2. Nested(u)
      BY <3>1, Zenon DEF Nested, NestedOf, Tops
    <3> QED BY <3>1, <3>2, AtHome, Zenon DEF Tops
  <2> QED BY <2>1, Zenon DEF OnceAt, Loop, InPlanStep
<1> QED BY <1>1, Zenon DEF Init, OnceInv

\* No step of the plan is executed a second time, not even by a start() after
\* a restart of the process, as long as one start() works on the run at a time
\* and no waiting request writes an old copy of it back.
THEOREM ExecutedOnce == OneStart => (Spec => StepsRunOnce)
<1> SUFFICES ASSUME OneStart PROVE Spec => StepsRunOnce
  OBVIOUS
<1>1. Init => TypeOK /\ ControlInv /\ OnceInv
  BY ControlInit, OnceInit, Zenon
<1>2. TypeOK /\ ControlInv /\ OnceInv /\ [Next]_vars => TypeOK' /\ ControlInv' /\ OnceInv'
  BY ControlStep, OnceStep, Zenon
<1>3. TypeOK /\ ControlInv /\ OnceInv =>
        \A t \in Starters :
          pc[t] = "execute" /\ pc'[t] # "execute" /\ crashes' = crashes
            => \A s \in Starters : <<s, step[t]>> \notin executed
  <2> SUFFICES ASSUME TypeOK, ControlInv, OnceInv, NEW t \in Starters, pc[t] = "execute"
               PROVE  <<t, step[t]>> \notin executed
    BY Zenon DEF OneStart
  <2>1. t \in Threads /\ pc[t] \in Tops /\ pc[t] \in InPlanStep
    BY Zenon DEF Threads, Tops, OfStart, Loop, InPlanStep
  <2>2. Home(t) = "execute" /\ step[t] \in 1..NSteps
    <3>1. Home(t) = "execute" /\ step[t] <= NSteps
      BY <2>1, Here, Zenon
    <3> QED BY <2>1, <3>1, StepAssumption DEF TypeOK
  <2> QED BY <2>1, <2>2 DEF OnceInv, OnceAt, Loop, InPlanStep
<1> QED BY <1>1, <1>2, <1>3, PTL DEF Spec, StepsRunOnce
----------------------------------------------------------------------------
(* A worker with a guard of its own leaves a terminal sentence.            *)

\* The lifecycle's maps make no cancellation of anything else.
LEMMA NoFalseCancellation ==
  /\ \A r : r # "cancelled" => RunStatusOf(r) # "cancelled"
  /\ \A s, r : s # "cancelled" /\ r \in TerminalResults(s) => r # "cancelled"
  /\ Uncancelled(NoRun)
<1>1. \A r : r # "cancelled" => RunStatusOf(r) # "cancelled"
  BY Zenon DEF RunStatusOf
<1>2. ASSUME NEW s, s # "cancelled"
      PROVE  ConservativeResult(s) # "cancelled" /\ "cancelled" \notin SemanticResults(s)
  BY <1>2, Zenon DEF ConservativeResult, SemanticResults
<1> QED BY <1>1, <1>2, Zenon DEF TerminalResults, NoRun, Uncancelled

\* Only cancel() leads to the steps of cancel().
LEMMA CancelAlone ==
  ASSUME TypeOK, ControlInv, OwnThreads, NEW t \in Threads, Begin(t) \/ Continue(t),
         Home(t) \notin {"cancel_request", "cancel_event"}
  PROVE  Home(t)' \notin {"cancel_request", "cancel_event"}
<1> USE DEF At
<1>1. CASE StoreStep(t) \/ GuardEvent(t) \/ StallRead(t) \/ StallRun(t)
  BY <1>1, StoreStays, Zenon
<1>2. CASE WorkerRaises(t) \/ GuardRaises(t)
  BY <1>2, Raises, Zenon
<1> SUFFICES ASSUME ~(StoreStep(t) \/ GuardEvent(t) \/ StallRead(t) \/ StallRun(t)),
                    ~(WorkerRaises(t) \/ GuardRaises(t))
             PROVE  Home(t)' \notin {"cancel_request", "cancel_event"}
  BY <1>1, <1>2, Zenon
<1>3. CASE StartStep(t) /\ ~StartDone(t)
  <2>1. pc[t] \in Tops
    BY <1>3, Zenon DEF StartStep, StartTest, StepRead, StepDecide, Execute, ArtifactStart, ArtifactCreate,
                ArtifactDone, FinishRun, Finalize, TailReload, Tops, OfStart, Loop, InPlanStep
  <2>2. FromStart(t)
    BY <2>1, Stands, Zenon DEF Standing
  <2>3. \/ \E h \in {"finish", "step_decide", "artifact_start", "artifact_create", "start_done"} : Goto(t, h)
        \/ \E h \in {"tail_reload", "step", "finish", "artifact_done", "artifact_rejected",
                     "finalize", "start_done"} : Then(t, <<"update_run", h>>)
        \/ Then(t, <<"update_run", "update_run", "execute">>)
        \/ Then(t, <<"update_run", "save_result", "update_run", "tail_reload">>)
    BY <1>3, Zenon DEF StartStep, StartTest, StepRead, StepDecide, Execute, ArtifactStart, ArtifactCreate,
                ArtifactDone, Outcome, FinishRun, Finalize, TailReload
  <2> QED BY <2>2, <2>3, Zenon DEF FromStart, Arrives
<1>4. CASE Begin(t) \/ CancelStep(t) \/ ReadEnsure(t) \/ ReadDone(t) \/ StartDone(t) \/ LockedGuardStep(t) \/ GapStep(t)
  <2>1. pc[t] \in Tops
    BY <1>4, Zenon DEF Begin, Start, Cancel, Budget, Lock, Stall, Watch, BoundaryReturns, MarkAccepted, Read,
         CancelStep, CancelRequest, CancelEvent, CancelDone, ReadEnsure, ReadDone, StartDone,
         LockedGuardStep, GapStep, BudgetIndex, BudgetRun, BudgetEnsured, BudgetDecide, BudgetStalled,
         BudgetBlock, Unlock, WatchSeen, WatchExit, GapRun, GapReload, GapDone, Tops, OfStart
  <2>2. FromStart(t) /\ FromGuard(t) /\ FromVerdict(t) /\ Home(t) = pc[t]
    BY <2>1, Stands, Zenon DEF Standing
  <2>3. \/ LookMove(t) \/ Then(t, <<"get_result", "start_test">>) \/ Then(t, <<"update_run", "gap_done">>)
        \/ Then(t, <<"update_run", "guard_event", "gap_done">>)
        \/ Then(t, <<"update_run", "save_result", "guard_event", "unlock">>)
    <3>1. CASE Begin(t) \/ CancelStep(t) \/ ReadEnsure(t) \/ ReadDone(t) \/ StartDone(t)
      BY <2>2, <3>1, Zenon DEF OwnThreads, Begin, Start, Budget, Lock, Stall, Watch, BoundaryReturns, MarkAccepted, Read,
         CancelStep, CancelRequest, CancelEvent, CancelDone, ReadEnsure, ReadDone, StartDone, LookMove
    <3>2. CASE LockedGuardStep(t) \/ GapStep(t)
      BY <3>2, Zenon DEF LockedGuardStep, GapStep, BudgetIndex, BudgetRun, BudgetEnsured, BudgetDecide, BudgetStalled,
         BudgetBlock, Unlock, WatchSeen, WatchExit, GapRun, GapReload, GapDone, LookMove
    <3> QED BY <1>4, <3>1, <3>2, Zenon
  <2> QED BY <2>2, <2>3, LookMoves, Zenon DEF FromStart, FromGuard, FromVerdict, Arrives
<1> QED BY <1>3, <1>4, Zenon DEF Continue

\* Without a call of cancel() nobody comes to speak of a cancellation.
LEMMA NobodyCancels ==
  ASSUME TypeOK, ControlInv, OwnThreads, NEW t \in Threads, Begin(t) \/ Continue(t),
         Uncancelled(runJson), result # "cancelled", Unaware(t)
  PROVE  Uncancelled(runJson)' /\ result' # "cancelled" /\ Unaware(t)'
<1> USE DEF KeepRest, locals, files, At
<1>1. /\ ~runJson.cancel /\ runJson.status # "cancelled" /\ result # "cancelled"
      /\ ~mem[t].cancel /\ mem[t].status # "cancelled" /\ ~data[t].cancel /\ data[t].status # "cancelled"
      /\ res[t] # "cancelled" /\ out[t] # "cancelled"
      /\ pc[t] \notin {"cancel_request", "cancel_event"}
  <2>1. pc[t] \in Tops => Home(t) = pc[t]
    BY Here, Zenon
  <2> QED BY <2>1, Zenon DEF Uncancelled, Unaware, Tops
<1>2. SUFFICES
      /\ ~runJson'.cancel /\ runJson'.status # "cancelled" /\ result' # "cancelled"
      /\ ~mem'[t].cancel /\ mem'[t].status # "cancelled" /\ ~data'[t].cancel /\ data'[t].status # "cancelled"
      /\ res'[t] # "cancelled" /\ out'[t] # "cancelled"
  BY CancelAlone, Zenon DEF Uncancelled, Unaware
<1>3. /\ mem \in [Threads -> Run] /\ data \in [Threads -> Run] /\ runJson \in Run
      /\ res \in [Threads -> ResultStatuses \cup {"none"}] /\ out \in [Threads -> TerminalStates]
  BY Zenon DEF TypeOK
<1>4. ~NoRun.cancel /\ NoRun.status # "cancelled"
  BY Zenon DEF NoRun
<1>5. CASE \/ WorkerRaises(t) \/ GuardRaises(t)
           \/ (\E label \in {"idle", "done", "raised"} : Finish(t, label)) /\ UNCHANGED <<runJson, result>>
  <2>1. UNCHANGED <<runJson, result>>
    BY <1>5, Zenon DEF WorkerRaises, GuardRaises
  <2> QED BY <1>1, <1>4, <1>5, <2>1, Forgets, Zenon
<1>6. CASE Begin(t) \/ CancelStep(t) \/ ReadEnsure(t) \/ ReadDone(t)
  <2>1. CASE Begin(t)
    BY <1>1, <1>3, <1>5, <2>1, Zenon
    DEF OwnThreads, Run, Begin, Start, Budget, Stall, Lock, Watch, BoundaryReturns, MarkAccepted, Read
  <2>2. CASE CancelStep(t) \/ ReadEnsure(t) \/ ReadDone(t)
    BY <1>1, <1>5, <2>2, Zenon
    DEF CancelStep, CancelRequest, CancelEvent, CancelDone, ReadEnsure, ReadDone
  <2> QED BY <1>6, <2>1, <2>2, Zenon
<1>7. CASE UpdateRun(t) \/ UpdateIndex(t) \/ SaveResult(t) \/ CohereRead(t) \/ CohereRun(t) \/ CohereIndex(t)
  BY <1>1, <1>3, <1>4, <1>7, NoFalseCancellation
  DEF Run, UpdateRun, UpdateIndex, SaveResult, CohereRead, CohereRun, CohereIndex
<1>8. CASE GetResult(t) \/ GetIndex(t) \/ EnsureRead(t) \/ EnsureRun(t) \/ EnsureEvent(t) \/ GuardEvent(t)
  BY <1>1, <1>3, <1>8, NoFalseCancellation, Zenon
  DEF GetResult, GetIndex, EnsureRead, EnsureRun, EnsureEvent, GuardEvent
<1>9. CASE StartTest(t) \/ StepRead(t) \/ StepDecide(t)
  BY <1>1, <1>3, <1>9 DEF Run, StartTest, StepRead, StepDecide
<1>10. CASE Execute(t) \/ ArtifactStart(t) \/ ArtifactCreate(t) \/ ArtifactDone(t)
  <2>1. /\ UNCHANGED <<runJson, result, mem, data, res>>
        /\ out' = out \/ \E status \in {"completed", "partial", "failed", "blocked", "cancelled"} : Outcome(t, status)
    BY <1>10, OutcomeAssumption, Zenon DEF Execute, ArtifactStart, ArtifactCreate, ArtifactDone
  <2>2. ASSUME NEW status \in {"completed", "partial", "failed", "blocked", "cancelled"}, Outcome(t, status)
        PROVE  out'[t] # "cancelled"
    BY <1>1, <1>3, <2>2, Zenon DEF Outcome
  <2> QED BY <1>1, <2>1, <2>2, Zenon
<1>11. CASE FinishRun(t) \/ Finalize(t) \/ TailReload(t) \/ StartDone(t)
  BY <1>1, <1>3, <1>4, <1>5, <1>11 DEF Run, FinishRun, Finalize, TailReload, StartDone
<1>12. CASE LockedGuardStep(t) /\ ~GuardEvent(t)
  BY <1>1, <1>3, <1>5, <1>12, NoFalseCancellation
  DEF Run, LockedGuardStep, BudgetIndex, BudgetRun, BudgetEnsured, BudgetDecide, BudgetStalled, BudgetBlock,
      StallRead, StallRun, Unlock
<1>13. CASE GapStep(t)
  BY <1>1, <1>3, <1>5, <1>13 DEF Run, GapStep, WatchSeen, WatchExit, GapRun, GapReload, GapDone
<1> QED BY <1>5, <1>6, <1>7, <1>8, <1>9, <1>10, <1>11, <1>12, <1>13, Zenon DEF Continue, StoreStep, StartStep

\* A result stays, and so does the end of the run.
LEMMA EndStays ==
  ASSUME TypeOK, ControlInv, NEW t \in Threads, Begin(t) \/ Continue(t)
  PROVE  /\ result' = result \/ (SaveResult(t) /\ result' # "none")
         /\ result # "none" => result' # "none"
         /\ Ended => Ended'
<1> USE DEF KeepRest, files
<1>1. result' = result \/ SaveResult(t)
  <2>1. CASE Begin(t) \/ CancelStep(t) \/ ReadEnsure(t) \/ ReadDone(t)
    BY <2>1, Zenon DEF Begin, Start, Cancel, Budget, Stall, Lock, Watch, BoundaryReturns, MarkAccepted, Read,
                CancelStep, CancelRequest, CancelEvent, CancelDone, ReadEnsure, ReadDone
  <2>2. CASE StoreStep(t)
    BY <2>2, Zenon DEF StoreStep, UpdateRun, UpdateIndex, CohereRead, CohereRun, CohereIndex,
                GetResult, GetIndex, EnsureRead, EnsureRun, EnsureEvent
  <2>3. CASE StartStep(t)
    BY <2>3, Zenon DEF StartStep, StartTest, StepRead, StepDecide, Execute, ArtifactStart, ArtifactCreate,
                ArtifactDone, FinishRun, Finalize, TailReload, StartDone, WorkerRaises
  <2>4. CASE LockedGuardStep(t) \/ GapStep(t) \/ GuardRaises(t)
    BY <2>4, Zenon DEF LockedGuardStep, GapStep, GuardRaises, BudgetIndex, BudgetRun, BudgetEnsured, BudgetDecide,
                BudgetStalled, BudgetBlock, StallRead, StallRun, GuardEvent, Unlock,
                WatchSeen, WatchExit, GapRun, GapReload, GapDone
  <2> QED BY <2>1, <2>2, <2>3, <2>4, Zenon DEF Continue
<1>2. SaveResult(t) => result' # "none"
  BY Here, Zenon DEF SaveResult, At, Saves
<1>3. term # "none" => term' # "none"
  BY EventStays, Zenon DEF Next
<1> QED BY <1>1, <1>2, <1>3, Zenon DEF Ended

\* The guard in an operation of the store.
LEMMA GuardedStore ==
  ASSUME TypeOK, ControlInv, NEW g \in Threads, Guarded(g),
         StoreStep(g) \/ GuardEvent(g) \/ StallRead(g) \/ StallRun(g)
  PROVE  Guarded(g)'
<1> USE DEF KeepRest, locals, files, At
<1>1. /\ Home(g)' = Home(g)
      /\ pc'[g] \in {"stall", "stall_run"} => pc[g] = "stall"
  BY StoreStays, Zenon
<1>2. Continue(g)
  BY Zenon DEF Continue, LockedGuardStep
<1>3. (result # "none" => result' # "none") /\ (Ended => Ended')
  BY <1>2, EndStays, Zenon
<1>4. Home(g) = "gap_reload" /\ pc'[g] # "save_result" => result' # "none"
  <2>1. CASE pc[g] = "save_result"
    <3>1. result' = res[g]
      BY <2>1, Zenon DEF StoreStep, UpdateRun, UpdateIndex, SaveResult, CohereRead, CohereRun, CohereIndex,
         GetResult, GetIndex, EnsureRead, EnsureRun, EnsureEvent, GuardEvent, StallRead, StallRun
    <3>2. res[g] # "none"
      BY <2>1, Here, Zenon DEF Saves
    <3> QED BY <3>1, <3>2, Zenon
  <2>2. CASE pc[g] # "save_result"
    BY <1>3, <2>2, Zenon DEF Guarded
  <2> QED BY <2>1, <2>2, Zenon
<1>5. ASSUME Home(g) \in {"watch_seen", "watch_exit", "gap_run", "gap_raised"}, res'[g] # "none",
             pc'[g] \notin {"get_result", "save_result"}
      PROVE  Ended'
  <2>1. pc[g] \notin {"stall", "stall_run"}
    BY <1>5, Zenon DEF Guarded
  <2>2. CASE SaveResult(g)
    BY <1>2, <2>2, EndStays, Here, Zenon DEF Ended, SaveResult, Saves
  <2>3. CASE GetResult(g) \/ EnsureRead(g)
    BY <1>5, <2>3, Zenon DEF GetResult, EnsureRead, Ended, TypeOK
  <2>4. CASE EnsureRun(g)
    <3>1. pc'[g] = "save_result" \/ (res' = res /\ pc[g] = "ensure_run")
      BY <2>4 DEF EnsureRun, Then, TypeOK
    <3> QED BY <1>3, <1>5, <3>1, Zenon DEF Guarded
  <2>5. CASE UpdateRun(g) \/ UpdateIndex(g) \/ CohereRead(g) \/ CohereRun(g) \/ CohereIndex(g)
             \/ GetIndex(g) \/ EnsureEvent(g) \/ GuardEvent(g)
    <3>1. res' = res /\ pc[g] \notin {"get_result", "save_result"}
      BY <2>5, Zenon DEF UpdateRun, UpdateIndex, CohereRead, CohereRun, CohereIndex, GetIndex, EnsureEvent, GuardEvent
    <3> QED BY <1>3, <1>5, <3>1, Zenon DEF Guarded
  <2> QED BY <2>1, <2>2, <2>3, <2>4, <2>5, Zenon DEF StoreStep, StallRead, StallRun
<1> QED BY <1>1, <1>3, <1>4, <1>5, Zenon DEF Guarded

\* A worker or a guard at a step of its own.
LEMMA GuardedAside ==
  ASSUME TypeOK, ControlInv, OwnThreads, Uncancelled(runJson), NEW g \in Workers \cup WorkerGuards, Guarded(g),
         Home(g) \notin {"cancel_request", "cancel_event"},
         Begin(g) \/ Continue(g), ~(StoreStep(g) \/ GuardEvent(g) \/ StallRead(g) \/ StallRun(g))
  PROVE  Guarded(g)'
<1> USE DEF KeepRest, locals, files, At
<1>1. g \in Threads /\ g \notin Boundaries /\ (g \in Starters => g \in Workers)
  BY ThreadAssumption, Zenon DEF OwnThreads, Threads
<1>2. CASE WorkerRaises(g) \/ GuardRaises(g)
  BY <1>1, <1>2, Raises, Zenon DEF Guarded
<1> SUFFICES ASSUME ~(WorkerRaises(g) \/ GuardRaises(g))
             PROVE  Guarded(g)'
  BY <1>2, Zenon
<1>3. FromStart(g) /\ FromGuard(g) /\ FromVerdict(g) /\ Home(g) = pc[g]
  <2>1. pc[g] \in Tops
    <3>1. CASE StartStep(g)
      BY <3>1, Zenon DEF StartStep, StartTest, StepRead, StepDecide, Execute, ArtifactStart, ArtifactCreate,
             ArtifactDone, FinishRun, Finalize, TailReload, StartDone, Tops, OfStart, Loop, InPlanStep
    <3>2. CASE ~StartStep(g)
      BY <3>2, Zenon DEF Begin, Start, Cancel, Budget, Lock, Stall, Watch, BoundaryReturns, MarkAccepted, Read,
         CancelStep, CancelRequest, CancelEvent, CancelDone, ReadEnsure, ReadDone, Continue,
         LockedGuardStep, GapStep, BudgetIndex, BudgetRun, BudgetEnsured, BudgetDecide, BudgetStalled,
         BudgetBlock, Unlock, WatchSeen, WatchExit, GapRun, GapReload, GapDone, Tops
    <3> QED BY <3>1, <3>2, Zenon
  <2> QED BY <1>1, <2>1, Stands, Zenon DEF Standing
<1>4. (result # "none" => result' # "none") /\ (Ended => Ended')
  BY <1>1, EndStays, Zenon
\* Away from the steps that watch over the run.
<1>5. ASSUME NEW h \in {"budget_index", "budget_run", "budget_decide", "budget_ensured", "budget_stalled",
                       "budget_block", "unlock", "read_ensure", "read_done", "cancel_done"},
             Home(g)' = h, pc'[g] \in {"stall", "stall_run"} => h \in {"unlock", "budget_stalled"}
      PROVE  Guarded(g)'
  BY <1>5, Zenon DEF Guarded
\* The end of a call.
<1>6. ASSUME NEW label \in {"idle", "done", "raised"}, Finish(g, label), label = "done" => Ended'
      PROVE  Guarded(g)'
  <2>1. Home(g)' = label /\ pc'[g] = label /\ res'[g] = "none"
    BY <1>1, <1>6, TypeHalves, Ends, Forgets, Zenon DEF Tops
  <2> QED BY <1>6, <2>1, Zenon DEF Guarded
\* A look for a result.
<1>7. ASSUME NEW h \in {"watch_seen", "watch_exit", "gap_run"}, Then(g, <<"get_result", h>>)
      PROVE  Guarded(g)'
  <2>1. Home(g)' = h /\ pc'[g] = "get_result"
    BY <1>3, <1>7, Zenon DEF FromGuard, Arrives
  <2> QED BY <1>7, <2>1, Zenon DEF Guarded
<1>8. CASE Begin(g) /\ ~Start(g)
  <2>1. CASE Watch(g)
    BY <1>6, <1>7, <2>1, Zenon DEF Watch
  <2>2. CASE ~Watch(g)
    <3>1. \/ Then(g, <<"budget_index">>) \/ Then(g, <<"stall", "unlock">>) \/ Then(g, <<"get_result", "read_ensure">>)
      BY <1>1, <1>8, <2>2, Zenon DEF Begin, OwnThreads, Budget, Stall, Lock, Read
    <3>2. /\ Home(g)' \in {"budget_index", "unlock", "read_ensure"}
          /\ pc'[g] \in {"stall", "stall_run"} => Home(g)' = "unlock"
      BY <1>3, <3>1, Zenon DEF FromGuard, Arrives
    <3> QED BY <1>5, <3>2, Zenon
  <2> QED BY <2>1, <2>2, Zenon
<1>9. CASE CancelStep(g) \/ ReadEnsure(g) \/ ReadDone(g)
  <2>1. \/ Finish(g, "idle") \/ Then(g, <<"ensure", "read_done">>) \/ Goto(g, "read_done")
    BY <1>3, <1>9, Zenon DEF CancelStep, CancelRequest, CancelEvent, CancelDone, ReadEnsure, ReadDone
  <2>2. Then(g, <<"ensure", "read_done">>) \/ Goto(g, "read_done") =>
          Home(g)' = "read_done" /\ pc'[g] \in {"ensure", "read_done"}
    BY <1>3, Zenon DEF FromGuard, Arrives
  <2> QED BY <1>5, <1>6, <2>1, <2>2, Zenon
<1>10. CASE LockedGuardStep(g)
  <2>1. CASE Unlock(g)
    BY <1>6, <2>1, Zenon DEF Unlock
  <2>2. CASE ~Unlock(g)
    <3>1. \/ \E h \in {"budget_run", "budget_block", "unlock"} : Goto(g, h)
          \/ \E h \in {"budget_decide", "unlock"} : Then(g, <<"get_result", h>>)
          \/ Then(g, <<"ensure", "budget_ensured">>) \/ Then(g, <<"stall", "budget_stalled">>)
          \/ Then(g, <<"update_run", "save_result", "guard_event", "unlock">>)
      BY <1>10, <2>2, Zenon DEF LockedGuardStep, BudgetIndex, BudgetRun, BudgetEnsured, BudgetDecide, BudgetStalled,
                         BudgetBlock
    <3>2. /\ Home(g)' \in {"budget_run", "budget_block", "unlock", "budget_decide", "budget_ensured", "budget_stalled"}
          /\ pc'[g] \in {"stall", "stall_run"} => Home(g)' = "budget_stalled"
      BY <1>3, <3>1, Zenon DEF FromGuard, FromVerdict, Arrives
    <3> QED BY <1>5, <3>2, Zenon
  <2> QED BY <2>1, <2>2, Zenon
<1>11. CASE WatchSeen(g) \/ WatchExit(g)
  <2>1. res[g] # "none" => Ended
    BY <1>3, <1>11, Zenon DEF WatchSeen, WatchExit, Guarded
  <2>2. \/ Finish(g, "done") /\ Ended
        \/ Goto(g, "idle")
        \/ \E h \in {"watch_exit", "gap_run"} : Then(g, <<"get_result", h>>)
    BY <1>11, <2>1, Zenon DEF WatchSeen, WatchExit, Ended, Uncancelled
  <2>3. ASSUME Goto(g, "idle")
        PROVE  Guarded(g)'
    <3>1. Home(g)' = "idle" /\ pc'[g] = "idle"
      BY <1>3, <2>3, Zenon DEF FromGuard, Arrives
    <3> QED BY <3>1, Zenon DEF Guarded
  <2> QED BY <1>4, <1>6, <1>7, <2>2, <2>3, Zenon
<1>12. CASE GapRun(g) \/ GapReload(g) \/ GapDone(g)
  <2>1. res[g] # "none" /\ pc[g] \in {"gap_run", "gap_raised"} => Ended
    BY <1>3, Zenon DEF Guarded
  <2>2. \/ Finish(g, "done") /\ Ended
        \/ Finish(g, "raised")
        \/ Then(g, <<"ensure", "gap_done">>) /\ Ended
        \/ Then(g, <<"save_result", "gap_reload">>)
        \/ Then(g, <<"update_run", "guard_event", "gap_done">>) /\ Ended
    <3>1. CASE GapRun(g)
      BY <2>1, <3>1, Zenon DEF GapRun, Ended, Uncancelled
    <3>2. CASE GapReload(g)
      BY <1>3, <3>2, Zenon DEF GapReload, Guarded, Ended
    <3>3. CASE GapDone(g)
      BY <1>3, <3>3, Zenon DEF GapDone, Guarded
    <3> QED BY <1>12, <3>1, <3>2, <3>3, Zenon
  <2>3. ASSUME Home(g)' = "gap_done", pc'[g] \in {"ensure", "update_run"}, Ended
        PROVE  Guarded(g)'
    BY <1>4, <2>3, Zenon DEF Guarded
  <2>4. ASSUME Home(g)' = "gap_reload", pc'[g] = "save_result"
        PROVE  Guarded(g)'
    BY <2>4, Zenon DEF Guarded
  <2>5. /\ Then(g, <<"ensure", "gap_done">>) \/ Then(g, <<"update_run", "guard_event", "gap_done">>)
             => Home(g)' = "gap_done" /\ pc'[g] \in {"ensure", "update_run"}
        /\ Then(g, <<"save_result", "gap_reload">>) => Home(g)' = "gap_reload" /\ pc'[g] = "save_result"
    BY <1>3, Zenon DEF FromGuard, FromVerdict, Arrives
  <2> QED BY <1>4, <1>6, <2>2, <2>3, <2>4, <2>5, Zenon
\* The steps of start().
<1>13. CASE StartDone(g)
  <2>1. g \in Workers
    BY <1>1, <1>13, Here, Zenon DEF StartDone, OfStart
  <2> QED BY <1>7, <1>13, <2>1, Zenon DEF StartDone
<1>14. CASE (Begin(g) /\ Start(g)) \/ (StartStep(g) /\ ~StartDone(g))
  <2>1. \/ Then(g, <<"get_result", "start_test">>)
        \/ \E h \in {"finish", "step_decide", "artifact_start", "artifact_create", "start_done"} : Goto(g, h)
        \/ \E h \in {"tail_reload", "step", "finish", "artifact_done", "artifact_rejected",
                     "finalize", "start_done"} : Then(g, <<"update_run", h>>)
        \/ Then(g, <<"update_run", "update_run", "execute">>)
        \/ Then(g, <<"update_run", "save_result", "update_run", "tail_reload">>)
    BY <1>14, Zenon DEF Start, StartStep, StartTest, StepRead, StepDecide, Execute, ArtifactStart, ArtifactCreate,
                ArtifactDone, Outcome, FinishRun, Finalize, TailReload
  <2>2. /\ Home(g)' \in {"start_test", "finish", "step_decide", "artifact_start", "artifact_create", "start_done",
                         "tail_reload", "step", "artifact_done", "artifact_rejected", "finalize", "execute"}
        /\ pc'[g] \notin {"stall", "stall_run"}
    BY <1>3, <2>1, Zenon DEF FromStart, Arrives
  <2> QED BY <2>2, Zenon DEF Guarded
<1> QED BY <1>8, <1>9, <1>10, <1>11, <1>12, <1>13, <1>14, Zenon DEF Continue, GapStep

\* Every step keeps the workers and the guards at their work.
LEMMA SentenceStep ==
  ASSUME TypeOK, ControlInv, OwnThreads, SentenceInv, [Next]_vars
  PROVE  SentenceInv'
<1>1. CASE UNCHANGED vars \/ Tick
  BY <1>1, Zenon DEF vars, Tick, files, locals, SentenceInv, Uncancelled, Unaware, Guarded, Ended, Home
<1>2. CASE Crash
  <2>1. runJson' = runJson /\ result' = result
    BY <1>2, Zenon DEF Crash, files
  <2>2. ASSUME NEW u \in Threads
        PROVE  Unaware(u)' /\ (u \in Workers \cup WorkerGuards => Guarded(u)')
    <3>1. /\ pc'[u] \in {"idle", "done", "raised", "returned"} /\ stack'[u] = <<>>
          /\ pc'[u] = "done" => pc[u] = "done"
          /\ mem'[u] = NoRun /\ data'[u] = NoRun /\ res'[u] = "none" /\ out'[u] = "completed"
      BY <1>2, Zenon DEF Crash
    <3>2. Home(u)' = pc'[u]
      BY <3>1, Places, Zenon DEF Home
    <3>3. Unaware(u)'
      <4>1. Home(u)' \notin {"cancel_request", "cancel_event"}
        BY <3>1, <3>2, Zenon
      <4>2. Uncancelled(NoRun) /\ "none" # "cancelled" /\ "completed" # "cancelled"
        BY Zenon DEF Uncancelled, NoRun
      <4> QED BY <3>1, <4>1, <4>2, Zenon DEF Unaware, Uncancelled
    <3>4. ASSUME u \in Workers \cup WorkerGuards, pc'[u] = "done"
          PROVE  Ended'
      <4>1. Home(u) = "done"
        BY <3>1, <3>4, Here, Zenon DEF Tops
      <4> QED BY <1>2, <3>4, <4>1, Zenon DEF SentenceInv, Guarded, Ended, Crash, files
    <3> QED BY <3>1, <3>2, <3>3, <3>4, Zenon DEF Guarded
  <2> QED BY <2>1, <2>2, ThreadAssumption, Zenon DEF SentenceInv, Uncancelled, Threads
<1>3. ASSUME NEW t \in Threads, Begin(t) \/ Continue(t)
      PROVE  SentenceInv'
  <2>1. Uncancelled(runJson)' /\ result' # "cancelled" /\ Unaware(t)'
    BY <1>3, NobodyCancels, Zenon DEF SentenceInv
  <2>2. t \in Workers \cup WorkerGuards => Guarded(t)'
    BY <1>3, GuardedStore, GuardedAside, Zenon DEF SentenceInv, Unaware
  <2>3. ASSUME NEW u \in Threads \ {t}
        PROVE  Unaware(u)' /\ (u \in Workers \cup WorkerGuards => Guarded(u)')
    <3>1. Same(u) /\ Home(u)' = Home(u)
      BY <1>3, OthersStay, StillReady, HistoryGrows, Zenon DEF Next
    <3>2. (result # "none" => result' # "none") /\ (Ended => Ended')
      BY <1>3, EndStays, Zenon
    <3> QED BY <3>1, <3>2, Zenon DEF SentenceInv, Same, Unaware, Guarded, Uncancelled
  <2> QED BY <2>1, <2>2, <2>3, ThreadAssumption, Zenon DEF SentenceInv, Threads
<1> QED BY <1>1, <1>2, <1>3, Zenon DEF Next

\* The initial states.
LEMMA SentenceInit ==
  ASSUME Init
  PROVE  SentenceInv
<1>1. Uncancelled(runJson) /\ result # "cancelled"
  BY StatusAssumption DEF Init, Uncancelled, TerminalStates
<1>2. ASSUME NEW u \in Threads
      PROVE  Unaware(u) /\ Guarded(u)
  <2>1. pc[u] = "idle" /\ stack[u] = <<>> /\ res[u] = "none"
    BY Zenon DEF Init
  <2>2. Home(u) = "idle"
    BY <2>1, Places, Zenon DEF Home
  <2> QED BY <2>1, <2>2, Zenon DEF Init, Unaware, Guarded, Uncancelled, NoRun
<1> QED BY <1>1, <1>2, ThreadAssumption, Zenon DEF SentenceInv, Threads

\* An accepted artifact worker does not disappear without a terminal sentence,
\* whatever the files refuse: neither the worker nor its guard ends, other than
\* by an exception, before the run has a terminal event or a result, as long
\* as the two and the request that waits are threads of their own and nobody
\* cancels the run.
THEOREM SentenceLeft == OwnThreads => (Spec => []WorkerLeavesSentence)
<1> SUFFICES ASSUME OwnThreads PROVE Spec => []WorkerLeavesSentence
  OBVIOUS
<1>1. Init => TypeOK /\ ControlInv /\ SentenceInv
  BY ControlInit, SentenceInit, Zenon
<1>2. TypeOK /\ ControlInv /\ SentenceInv /\ [Next]_vars => TypeOK' /\ ControlInv' /\ SentenceInv'
  BY ControlStep, SentenceStep, Zenon
<1>3. ControlInv /\ SentenceInv => WorkerLeavesSentence
  <2> SUFFICES ASSUME ControlInv, SentenceInv, NEW g \in Workers \cup WorkerGuards, pc[g] = "done"
               PROVE  Ended
    BY Zenon DEF WorkerLeavesSentence
  <2>2. pc[g] \in Tops /\ g \in Threads
    BY ThreadAssumption, Zenon DEF Tops, Threads
  <2>3. Home(g) = "done"
    BY <2>2, Here, Zenon
  <2> QED BY <2>3, Zenon DEF SentenceInv, Guarded
<1> QED BY <1>1, <1>2, <1>3, PTL DEF Spec
=============================================================================
