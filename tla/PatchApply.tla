----------------------------- MODULE PatchApply -----------------------------
(* PatchApplyService for one plan and one apply run, together with the     *)
(* approval that its guard consults.  Request threads create the run,      *)
(* execute, cancel and roll it back.  An execution passes the guard, then, *)
(* file by file, makes a backup, applies the hunks and writes the result   *)
(* through a temporary file, then validates, and rolls back when something *)
(* has failed.  The records of the run and of its result are JSON files    *)
(* that are read without a lock and replaced through a temporary file that *)
(* all saves of the record share.                                          *)
EXTENDS Approvals, Sequences

CONSTANTS
  Threads,        \* request threads of the patch-apply endpoints
  Files,          \* affected files of the plan
  Plan,           \* the same, in the order of plan.affected_files
  New,            \* those that the plan creates
  MaxEvents       \* bound: calls of the endpoints and mishaps, taken together

ASSUME ThreadAssumption == Threads \subseteq Callers \ Deciders
ASSUME PlanAssumption ==
  /\ Plan \in Seq(Files)
  /\ \A f \in Files : \E i \in 1..Len(Plan) : Plan[i] = f
  /\ \A i, j \in 1..Len(Plan) : Plan[i] = Plan[j] => i = j
  /\ New \subseteq Files
ASSUME BoundAssumption == MaxEvents \in Nat

VARIABLES
  content,        \* version of each file in the workspace
  temp,           \* version in its temporary file
  run,            \* record of the run: status and backups
  result,         \* record of its result: status and cause
  runTemp,        \* the run in the temporary file of its record
  resultTemp,     \* the result in the temporary file of its record
  staged,         \* threads that have written one of these and not moved it
  pc,             \* next step of each thread
  op,             \* the method it is in
  mine,           \* its copy of the run
  held,           \* the result it is about to save
  next,           \* position in Plan of the file it is at
  text,           \* the contents it is about to write
  saved,          \* backups made by its engine so far
  wrote,          \* version of each file that its engine has reported
  calls,          \* execute, cancel and rollback calls so far
  mishaps,        \* exceptions, restarts and edits by somebody else so far
  left,           \* history: files whose temporary file a restart has left
  disturbed       \* history: calls have overlapped, a call was cut short, or
                  \* somebody else has edited a file

disk == <<content, temp>>
drafts == <<runTemp, resultTemp, staged>>
records == <<run, result, drafts>>
work == <<mine, held, next, text, saved, wrote>>
noted == <<left, disturbed>>
patchVars == <<disk, records, pc, op, work, calls, mishaps, noted>>
vars == <<patchVars, approvalVars>>

(***************************************************************************)
(* Versions of a file.  Equal hashes are equal versions.                   *)
(***************************************************************************)

Nothing == "nothing"     \* no such file, no backup, no temporary file

Patched == {"patched", "patched_edit", "patched_twice"}
Versions == {Nothing, "original", "edited"} \cup Patched

\* HunkApplyEngine: the hunks of a new file replace whatever is there; others
\* have to find their context.
Matches(f, v) == f \in New \/ v \in {"original", "edited", "patched"}

Updated(f, v) ==
  IF f \in New \/ v = "original" THEN "patched"
  ELSE IF v = "edited" THEN "patched_edit" ELSE "patched_twice"

NoFiles == [f \in Files |-> Nothing]

RunStatuses == {"none", "ready_to_execute", "blocked", "running", "completed",
                "cancelled", "rolled_back", "rollback_failed"}

\* The apply run that does not exist yet.
NoRun == [status |-> "none", backups |-> NoFiles]

ResultStatuses == {"none", "failed", "blocked", "completed",
                   "failed_with_rollback", "rollback_failed"}

NoResult == [status |-> "none", cause |-> "none"]

\* PatchApplyResult; its cause is an exception of the engine (the list of file
\* results is then empty), a later one, or none.
Outcome(status, cause) == [status |-> status, cause |-> cause]

(***************************************************************************)
(* Threads.                                                                *)
(***************************************************************************)

Labels == {"idle", "create", "guard", "block", "refuse", "cancel", "start",
           "backup", "patch", "check", "temp", "replace", "unlink", "applied",
           "validate", "complete", "report", "fetch", "undo", "undo_result", "undo_run",
           "report_again"}

At(c, label) == pc[c] = label

Goto(c, label) == pc' = [pc EXCEPT ![c] = label]

\* The call returns or raises, and its locals are gone.
Done(c) ==
  /\ Goto(c, "idle")
  /\ op' = [op EXCEPT ![c] = "none"]
  /\ mine' = [mine EXCEPT ![c] = NoRun]
  /\ held' = [held EXCEPT ![c] = NoResult]
  /\ next' = [next EXCEPT ![c] = 1]
  /\ text' = [text EXCEPT ![c] = Nothing]
  /\ saved' = [saved EXCEPT ![c] = NoFiles]
  /\ wrote' = [wrote EXCEPT ![c] = NoFiles]

\* The bound has not been reached.
Budget == requests + calls + mishaps < MaxEvents

\* Requests of the deciders and the end of the approval's time come before the
\* last of these events.
Early == requests + calls + mishaps + 1 < MaxEvents

Alone == UNCHANGED <<approvalVars, calls, mishaps, noted>>

\* Something goes wrong in the thread's step.
Mishap ==
  /\ Budget
  /\ mishaps' = mishaps + 1
  /\ UNCHANGED <<approvalVars, calls, left>>

Call(c, o) ==
  /\ At(c, "idle")
  /\ run # NoRun
  /\ Budget
  /\ calls' = calls + 1
  /\ op' = [op EXCEPT ![c] = o]
  /\ disturbed' = (disturbed \/ \E d \in Threads : pc[d] # "idle")
  /\ UNCHANGED <<disk, records, next, text, saved, wrote, mishaps, left>>

(***************************************************************************)
(* PatchApplyStore._write: the temporary file of a record is written, and  *)
(* then moved into place.  What is moved is what was written last.         *)
(***************************************************************************)

SavesRun == {"block", "start", "cancel", "complete", "undo_run"}

SavesResult == {"refuse", "report", "undo_result", "report_again"}

Stage(c) ==
  /\ c \notin staged
  /\ \/ pc[c] \in SavesRun /\ runTemp' = mine[c] /\ UNCHANGED resultTemp
     \/ pc[c] \in SavesResult /\ resultTemp' = held[c] /\ UNCHANGED runTemp
  /\ staged' = staged \cup {c}
  /\ UNCHANGED <<disk, run, result, pc, op, work>>
  /\ Alone

\* temp.replace(path), for the run and for the result.
SaveRun(c) ==
  /\ c \in staged
  /\ runTemp # NoRun
  /\ run' = runTemp
  /\ runTemp' = NoRun
  /\ staged' = staged \ {c}
  /\ UNCHANGED <<result, resultTemp>>

SaveResult(c) ==
  /\ c \in staged
  /\ resultTemp # NoResult
  /\ result' = resultTemp
  /\ resultTemp' = NoResult
  /\ staged' = staged \ {c}
  /\ UNCHANGED <<run, runTemp>>

(***************************************************************************)
(* The guard and the creation of the run.                                  *)
(***************************************************************************)

\* Mutant: any decision will do.
AllowsDecided(c) ==
  /\ copy[c] \in Decisions
  /\ ~overdue
  /\ \A f \in Files \ New : content[f] = "original"

\* PatchApplyGuardService.validate, once get_approval has answered: the
\* approval, and for each file whether it still is as the plan has seen it.
Allows(c) ==
  /\ copy[c] = "approved"
  /\ ~overdue
  /\ \A f \in Files \ New : content[f] = "original"

\* The answer of get_approval is used up.
TakeAnswer(c) ==
  /\ Asks(c, "idle")
  /\ copy' = [copy EXCEPT ![c] = "pending"]
  /\ UNCHANGED <<stored, behind, apc, request, then, overdue, requests>>

\* create_run_from_plan validates first and saves the run afterwards.  One run
\* is modelled.
CreateRun(c) ==
  /\ At(c, "idle")
  /\ run = NoRun
  /\ \A d \in Threads : ~At(d, "create")
  /\ Goto(c, "create")
  /\ Ask(c, "get")
  /\ UNCHANGED <<requests, disk, records, op, work, calls, mishaps, noted>>

\* Any other reason of the guard (plan, quality, confirmation, scope, hashes)
\* may block as well.
CreateRunGuarded(c) ==
  /\ At(c, "create")
  /\ TakeAnswer(c)
  /\ \/ Allows(c) /\ run' = [NoRun EXCEPT !.status = "ready_to_execute"]
     \/ run' = [NoRun EXCEPT !.status = "blocked"]
  /\ Goto(c, "idle")
  /\ UNCHANGED <<disk, result, drafts, op, work, calls, mishaps, noted>>

(***************************************************************************)
(* execute().                                                              *)
(***************************************************************************)

\* _blocked_result is entered.
Refused(c) ==
  /\ Goto(c, "refuse")
  /\ held' = [held EXCEPT ![c] = Outcome("blocked", "none")]

\* An existing result is returned; a run that is not ready is refused.
Execute(c) ==
  /\ Call(c, "execute")
  /\ result = NoResult
  /\ mine' = [mine EXCEPT ![c] = run]
  /\ IF run.status = "ready_to_execute"
     THEN Goto(c, "guard") /\ Ask(c, "get") /\ UNCHANGED <<requests, held>>
     ELSE Refused(c) /\ UNCHANGED approvalVars

ExecuteGuarded(c) ==
  /\ At(c, "guard")
  /\ TakeAnswer(c)
  /\ \/ Allows(c) /\ Goto(c, "start") /\ mine' = [mine EXCEPT ![c].status = "running"]
     \/ Goto(c, "block") /\ mine' = [mine EXCEPT ![c].status = "blocked"]
  /\ UNCHANGED <<disk, records, op, held, next, text, saved, wrote, calls, mishaps, noted>>

Block(c) ==
  /\ At(c, "block")
  /\ SaveRun(c)
  /\ Refused(c)
  /\ UNCHANGED <<disk, op, mine, next, text, saved, wrote>>
  /\ Alone

\* _blocked_result.
Refuse(c) ==
  /\ At(c, "refuse")
  /\ SaveResult(c)
  /\ Done(c)
  /\ UNCHANGED disk
  /\ Alone

Start(c) ==
  /\ At(c, "start")
  /\ SaveRun(c)
  /\ Goto(c, "backup")
  /\ UNCHANGED <<disk, op, work>>
  /\ Alone

\* The event of the start is appended outside the try: the run stays behind
\* with the status "running".
StartRaises(c) ==
  /\ At(c, "start")
  /\ SaveRun(c)
  /\ Done(c)
  /\ Mishap
  /\ disturbed' = TRUE
  /\ UNCHANGED disk

\* rollback_service.rollback begins, with the backups of the thread's copy of
\* the run.  The copy already has the status that the run will be given.
Undo(c, outcome, backups) ==
  /\ Goto(c, "undo")
  /\ held' = [held EXCEPT ![c] = outcome]
  /\ mine' = [mine EXCEPT ![c] = [status |-> "rolled_back", backups |-> backups]]
  /\ next' = [next EXCEPT ![c] = 1]
  /\ text' = [text EXCEPT ![c] = Nothing]
  /\ saved' = [saved EXCEPT ![c] = NoFiles]
  /\ wrote' = [wrote EXCEPT ![c] = NoFiles]
  /\ UNCHANGED op

\* The except branch of execute(): a new result, with the file results that
\* are there.
Except(c, cause) == Undo(c, Outcome("failed", cause), mine[c].backups)

Undoing(c) == mine[c].status \in {"rolled_back", "rollback_failed"}

(***************************************************************************)
(* PatchApplyEngine.apply, one file after the other.                       *)
(***************************************************************************)

Current(c) == Plan[next[c]]

Finished(c) == next[c] > Len(Plan)

Backup(c) ==
  /\ At(c, "backup")
  /\ IF Finished(c)
     THEN Goto(c, "applied") /\ UNCHANGED saved
     ELSE Goto(c, "patch") /\ saved' = [saved EXCEPT ![c][Current(c)] = content[Current(c)]]
  /\ UNCHANGED <<disk, records, op, mine, held, next, text, wrote>>
  /\ Alone

\* The contents are read once more; a hunk that does not match ends the loop
\* with the files that are left.
Patch(c) ==
  LET v == content[Current(c)] IN
  /\ At(c, "patch")
  /\ \/ /\ Matches(Current(c), v)
        /\ text' = [text EXCEPT ![c] = Updated(Current(c), v)]
        /\ Goto(c, "check")
     \/ /\ Current(c) \notin New
        /\ UNCHANGED text
        /\ Goto(c, "applied")
  /\ UNCHANGED <<disk, records, op, mine, held, next, saved, wrote>>
  /\ Alone

(***************************************************************************)
(* AtomicPatchWriteService.write, for the engine and for the rollback.     *)
(***************************************************************************)

\* The rollback counts a failed write and goes on with the next file; the
\* engine does not catch it.
WriteRaises(c) ==
  IF Undoing(c)
  THEN /\ mine' = [mine EXCEPT ![c].status = "rollback_failed"]
       /\ next' = [next EXCEPT ![c] = @ + 1]
       /\ text' = [text EXCEPT ![c] = Nothing]
       /\ Goto(c, "undo")
       /\ UNCHANGED <<op, held, saved, wrote>>
  ELSE Except(c, "engine")

Check(c) ==
  /\ At(c, "check")
  /\ IF temp[Current(c)] = Nothing
     THEN Goto(c, "temp") /\ UNCHANGED <<op, work>>
     ELSE WriteRaises(c)
  /\ UNCHANGED <<disk, records>>
  /\ Alone

WriteTemp(c) ==
  /\ At(c, "temp")
  /\ temp' = [temp EXCEPT ![Current(c)] = text[c]]
  /\ Goto(c, "replace")
  /\ UNCHANGED <<content, records, op, work>>
  /\ Alone

\* Another thread may have moved the temporary file away.
Replace(c) ==
  /\ At(c, "replace")
  /\ IF temp[Current(c)] = Nothing
     THEN WriteRaises(c) /\ UNCHANGED disk
     ELSE /\ content' = [content EXCEPT ![Current(c)] = temp[Current(c)]]
          /\ temp' = [temp EXCEPT ![Current(c)] = Nothing]
          /\ Goto(c, "unlink")
          /\ UNCHANGED <<op, work>>
  /\ UNCHANGED records
  /\ Alone

\* The hash of the target, the finally clause, and on to the next file.
Unlink(c) ==
  /\ At(c, "unlink")
  /\ temp' = [temp EXCEPT ![Current(c)] = Nothing]
  /\ next' = [next EXCEPT ![c] = @ + 1]
  /\ text' = [text EXCEPT ![c] = Nothing]
  /\ IF Undoing(c)
     THEN Goto(c, "undo") /\ UNCHANGED wrote
     ELSE /\ Goto(c, "backup")
          /\ wrote' = [wrote EXCEPT ![c][Current(c)] = content[Current(c)]]
  /\ UNCHANGED <<content, records, op, mine, held, saved>>
  /\ Alone

\* Mutant: the finally clause is missing.
IOErrorLeavesTemp(c) ==
  /\ \/ At(c, "backup") /\ ~Finished(c) /\ Except(c, "engine") /\ UNCHANGED temp
     \/ At(c, "patch") /\ Except(c, "engine") /\ UNCHANGED temp
     \/ At(c, "check") /\ WriteRaises(c) /\ UNCHANGED temp
     \/ pc[c] \in {"temp", "replace", "unlink"} /\ WriteRaises(c) /\ UNCHANGED temp
  /\ Mishap
  /\ UNCHANGED <<content, records, disturbed>>

\* An I/O error in the engine or in a write, or a secret that the backup
\* refuses to copy.  The finally clause removes the temporary file.
IOError(c) ==
  /\ \/ At(c, "backup") /\ ~Finished(c) /\ Except(c, "engine") /\ UNCHANGED temp
     \/ At(c, "patch") /\ Except(c, "engine") /\ UNCHANGED temp
     \/ At(c, "check") /\ WriteRaises(c) /\ UNCHANGED temp
     \/ /\ pc[c] \in {"temp", "replace", "unlink"}
        /\ WriteRaises(c)
        /\ temp' = [temp EXCEPT ![Current(c)] = Nothing]
  /\ Mishap
  /\ UNCHANGED <<content, records, disturbed>>

(***************************************************************************)
(* Validation and the end of execute().                                    *)
(***************************************************************************)

\* Mutant: only the files written to the end keep their backups.
AppliedForgetsBackups(c) ==
  /\ At(c, "applied")
  /\ mine' = [mine EXCEPT ![c].backups =
                [f \in Files |-> IF wrote[c][f] = Nothing THEN saved[c][f] ELSE Nothing]]
  /\ Goto(c, "validate")
  /\ UNCHANGED <<disk, records, op, held, next, text, saved, wrote>>
  /\ Alone

\* Only now does the run know its backups.
Applied(c) ==
  /\ At(c, "applied")
  /\ mine' = [mine EXCEPT ![c].backups = saved[c]]
  /\ Goto(c, "validate")
  /\ UNCHANGED <<disk, records, op, held, next, text, saved, wrote>>
  /\ Alone

\* PostApplyValidator.validate passes only if every file has been reported and
\* is as reported; the syntax check and the backups may still fail it.
Passes(c) == Finished(c) /\ \A f \in Files : content[f] = wrote[c][f]

Validate(c) ==
  /\ At(c, "validate")
  /\ \/ /\ Passes(c)
        /\ Goto(c, "complete")
        /\ mine' = [mine EXCEPT ![c].status = "completed"]
        /\ held' = [held EXCEPT ![c] = Outcome("completed", "none")]
        /\ UNCHANGED <<op, next, text, saved, wrote>>
     \/ Undo(c, Outcome("failed", "none"), mine[c].backups)
  /\ UNCHANGED <<disk, records>>
  /\ Alone

Complete(c) ==
  /\ At(c, "complete")
  /\ SaveRun(c)
  /\ Goto(c, "report")
  /\ UNCHANGED <<disk, op, work>>
  /\ Alone

Report(c) ==
  /\ At(c, "report")
  /\ SaveResult(c)
  /\ Done(c)
  /\ UNCHANGED disk
  /\ Alone

(***************************************************************************)
(* PatchRollbackService.rollback.                                          *)
(***************************************************************************)

\* rollback() reads the run and then the result, whatever their status.
Rollback(c) ==
  /\ Call(c, "rollback")
  /\ mine' = [mine EXCEPT ![c] = run]
  /\ Goto(c, "fetch")
  /\ UNCHANGED <<held, approvalVars>>

RollbackFetch(c) ==
  /\ At(c, "fetch")
  /\ Undo(c, result, mine[c].backups)
  /\ UNCHANGED <<disk, records>>
  /\ Alone

\* The next backup to restore.
UndoNext(c) ==
  LET rest == {i \in next[c]..Len(Plan) : mine[c].backups[Plan[i]] # Nothing} IN
  /\ At(c, "undo")
  /\ \E i \in rest :
       /\ \A j \in rest : i <= j
       /\ next' = [next EXCEPT ![c] = i]
       /\ text' = [text EXCEPT ![c] = mine[c].backups[Plan[i]]]
  /\ Goto(c, "check")
  /\ UNCHANGED <<disk, records, op, mine, held, saved, wrote>>
  /\ Alone

\* The end of the loop; without a result there is none to save.
UndoEnd(c) ==
  /\ At(c, "undo")
  /\ \A i \in next[c]..Len(Plan) : mine[c].backups[Plan[i]] = Nothing
  /\ IF held[c] = NoResult
     THEN Goto(c, "undo_run") /\ UNCHANGED held
     ELSE /\ Goto(c, "undo_result")
          /\ held' = [held EXCEPT ![c].status =
                        IF mine[c].status = "rolled_back"
                        THEN "failed_with_rollback" ELSE "rollback_failed"]
  /\ UNCHANGED <<disk, records, op, mine, next, text, saved, wrote>>
  /\ Alone

UndoResult(c) ==
  /\ At(c, "undo_result")
  /\ SaveResult(c)
  /\ Goto(c, "undo_run")
  /\ UNCHANGED <<disk, op, work>>
  /\ Alone

\* In the except branch the thread is not done yet.
InExcept(c) == op[c] = "execute" /\ held[c].cause # "none"

\* Mutant: the run is not saved after the rollback.
UndoRunUnsaved(c) ==
  /\ At(c, "undo_run")
  /\ c \notin staged
  /\ IF InExcept(c)
     THEN Goto(c, "report_again") /\ UNCHANGED <<op, work>>
     ELSE Done(c)
  /\ UNCHANGED <<disk, records>>
  /\ Alone

\* Mutant: the run is given the status of the result.
UndoRunAsResult(c) ==
  /\ At(c, "undo_run")
  /\ c \in staged
  /\ run' = [runTemp EXCEPT !.status = held[c].status]
  /\ runTemp' = NoRun
  /\ staged' = staged \ {c}
  /\ IF InExcept(c)
     THEN Goto(c, "report_again") /\ UNCHANGED <<op, work>>
     ELSE Done(c)
  /\ UNCHANGED <<disk, result, resultTemp>>
  /\ Alone

UndoRun(c) ==
  /\ At(c, "undo_run")
  /\ SaveRun(c)
  /\ IF InExcept(c)
     THEN Goto(c, "report_again") /\ UNCHANGED <<op, work>>
     ELSE Done(c)
  /\ UNCHANGED disk
  /\ Alone

ReportAgain(c) ==
  /\ At(c, "report_again")
  /\ SaveResult(c)
  /\ Done(c)
  /\ UNCHANGED disk
  /\ Alone

\* The store raises: inside the try of execute() that leads to the except
\* branch, anywhere else out of the call.
StoreRaises(c) ==
  /\ IF op[c] = "execute" /\ ~InExcept(c) /\ pc[c] \notin {"block", "refuse", "start"}
     THEN Except(c, "later") /\ UNCHANGED disturbed
     ELSE Done(c) /\ disturbed' = TRUE
  /\ staged' = staged \ {c}
  /\ UNCHANGED <<disk, run, result, runTemp, resultTemp>>

\* The save of another thread has moved the temporary file away.  It counts as
\* a mishap, but no bound holds it back.
Gone(c) ==
  /\ c \in staged
  /\ \/ pc[c] \in SavesRun /\ runTemp = NoRun
     \/ pc[c] \in SavesResult /\ resultTemp = NoResult
  /\ StoreRaises(c)
  /\ mishaps' = mishaps + 1
  /\ UNCHANGED <<approvalVars, calls, left>>

\* A record cannot be saved or read, or the event that goes with it.
RecordError(c) ==
  /\ pc[c] \in SavesRun \cup SavesResult \cup {"validate", "undo"}
  /\ StoreRaises(c)
  /\ Mishap

\* execute() reads the result back inside the try: when that fails, a run that
\* has been reported, or rolled back, is rolled back (again).
AnswerRaises(c) ==
  /\ op[c] = "execute"
  /\ \/ At(c, "report") /\ SaveResult(c)
     \/ At(c, "undo_run") /\ ~InExcept(c) /\ SaveRun(c)
  /\ Except(c, "later")
  /\ Mishap
  /\ UNCHANGED <<disk, disturbed>>

\* cancel(): read, test, save.
Cancel(c) ==
  /\ Call(c, "cancel")
  /\ run.status = "ready_to_execute"
  /\ mine' = [mine EXCEPT ![c] = [run EXCEPT !.status = "cancelled"]]
  /\ Goto(c, "cancel")
  /\ UNCHANGED <<held, approvalVars>>

CancelSave(c) ==
  /\ At(c, "cancel")
  /\ SaveRun(c)
  /\ Done(c)
  /\ UNCHANGED disk
  /\ Alone

(***************************************************************************)
(* The environment.                                                        *)
(***************************************************************************)

\* Somebody else changes a file of the workspace.
Edit(f) ==
  /\ content[f] \in {Nothing, "original", "patched"}
  /\ content' = [content EXCEPT ![f] =
                   IF content[f] = "patched" THEN "patched_edit" ELSE "edited"]
  /\ disturbed' = TRUE
  /\ Mishap
  /\ UNCHANGED <<temp, records, pc, op, work>>

\* The process stops; the files stay.
Crash ==
  /\ Budget
  /\ mishaps' = mishaps + 1
  /\ left' = left \cup {f \in Files : temp[f] # Nothing}
  /\ disturbed' = (disturbed \/ \E c \in Threads : pc[c] # "idle")
  /\ pc' = [c \in Threads |-> "idle"]
  /\ op' = [c \in Threads |-> "none"]
  /\ mine' = [c \in Threads |-> NoRun]
  /\ held' = [c \in Threads |-> NoResult]
  /\ next' = [c \in Threads |-> 1]
  /\ text' = [c \in Threads |-> Nothing]
  /\ saved' = [c \in Threads |-> NoFiles]
  /\ wrote' = [c \in Threads |-> NoFiles]
  /\ apc' = [c \in Callers |-> "idle"]
  /\ request' = [c \in Callers |-> "get"]
  /\ copy' = [c \in Callers |-> "pending"]
  /\ then' = [c \in Callers |-> "idle"]
  /\ behind' = {}
  /\ staged' = {}
  /\ UNCHANGED <<disk, run, result, runTemp, resultTemp, calls, stored, overdue,
                 requests>>

Init ==
  /\ ApprovalInit
  /\ content = [f \in Files |-> IF f \in New THEN Nothing ELSE "original"]
  /\ temp = NoFiles
  /\ run = NoRun
  /\ result = NoResult
  /\ runTemp = NoRun
  /\ resultTemp = NoResult
  /\ staged = {}
  /\ pc = [c \in Threads |-> "idle"]
  /\ op = [c \in Threads |-> "none"]
  /\ mine = [c \in Threads |-> NoRun]
  /\ held = [c \in Threads |-> NoResult]
  /\ next = [c \in Threads |-> 1]
  /\ text = [c \in Threads |-> Nothing]
  /\ saved = [c \in Threads |-> NoFiles]
  /\ wrote = [c \in Threads |-> NoFiles]
  /\ calls = 0
  /\ mishaps = 0
  /\ left = {}
  /\ disturbed = FALSE

Begin(c) == CreateRun(c) \/ Execute(c) \/ Rollback(c) \/ Cancel(c)

Step(c) ==
  \/ CreateRunGuarded(c) \/ ExecuteGuarded(c) \/ Block(c) \/ Refuse(c)
  \/ Start(c) \/ Backup(c) \/ Patch(c)
  \/ Check(c) \/ WriteTemp(c) \/ Replace(c) \/ Unlink(c)
  \/ Applied(c) \/ Validate(c) \/ Complete(c) \/ Report(c)
  \/ RollbackFetch(c) \/ UndoNext(c) \/ UndoEnd(c)
  \/ UndoResult(c) \/ UndoRun(c) \/ ReportAgain(c)
  \/ CancelSave(c) \/ Stage(c)

Fault(c) ==
  StartRaises(c) \/ IOError(c) \/ RecordError(c) \/ AnswerRaises(c) \/ Gone(c)

Next ==
  \/ \E c \in Threads : Begin(c) \/ Step(c) \/ Fault(c)
  \/ \E c \in Callers : ApprovalStep(c) /\ UNCHANGED patchVars
  \/ \E c \in Deciders, o \in Requests : Early /\ Request(c, o) /\ UNCHANGED patchVars
  \/ Early /\ TimePasses /\ UNCHANGED patchVars
  \/ \E f \in Files : Edit(f)
  \/ Crash

Spec == Init /\ [][Next]_vars

(***************************************************************************)
(* Properties.                                                             *)
(***************************************************************************)

RunRecord == [status : RunStatuses, backups : [Files -> Versions]]

ResultRecord == [status : ResultStatuses, cause : {"none", "engine", "later"}]

TypeOK ==
  /\ ApprovalTypeOK
  /\ content \in [Files -> Versions]
  /\ temp \in [Files -> Versions]
  /\ run \in RunRecord
  /\ result \in ResultRecord
  /\ runTemp \in RunRecord
  /\ resultTemp \in ResultRecord
  /\ staged \subseteq Threads
  /\ pc \in [Threads -> Labels]
  /\ op \in [Threads -> {"none", "execute", "rollback", "cancel"}]
  /\ mine \in [Threads -> RunRecord]
  /\ held \in [Threads -> ResultRecord]
  /\ next \in [Threads -> 1..(Len(Plan) + 1)]
  /\ text \in [Threads -> Versions]
  /\ saved \in [Threads -> [Files -> Versions]]
  /\ wrote \in [Threads -> [Files -> Versions]]
  /\ calls \in Nat
  /\ mishaps \in Nat
  /\ left \subseteq Files
  /\ disturbed \in BOOLEAN

\* The patch reaches a file of the workspace only if somebody has approved it:
\* whatever calls overlap, fail or are cut short, the approval's file has said
\* "approved" before the first write.
AppliedOnlyIfApproved ==
  (\E f \in Files : content[f] \in Patched) => consented

\* What the result says of the files is true once the calls have ended, as
\* long as calls on the run do not overlap, none is cut short and nobody else
\* edits the files.  "completed": every file is patched.  A rollback: every
\* file that was there is as it was, unless the engine itself has raised; then
\* the run has lost the backups made so far, and the result lists no files.
ReportIsTrue ==
  ~disturbed /\ (\A c \in Threads : At(c, "idle")) =>
    /\ result.status = "completed" => \A f \in Files : content[f] = "patched"
    /\ result.status = "failed_with_rollback" /\ result.cause # "engine" =>
         \A f \in Files \ New : content[f] = "original"

\* A temporary file is there only while a thread is about to move it into
\* place: neither overlapping writes nor errors leave one behind.  Only a
\* restart does, and from then on every write of that file fails.
TempInFlight ==
  \A f \in Files : temp[f] # Nothing =>
    \/ f \in left
    \/ \E c \in Threads : pc[c] \in {"replace", "unlink"} /\ Current(c) = f

\* However the calls overlap, they do not leave the run "running" when all
\* have ended, nor "completed" without a result, unless one of them has met an
\* exception or the process was restarted.  A save that finds the temporary
\* file of its record moved away by another thread is such an exception: both
\* threads have then written it, and the other one has saved either record.
NoRunLeftRunning ==
  mishaps = 0 /\ (\A c \in Threads : At(c, "idle")) =>
    /\ run.status # "running"
    /\ run.status = "completed" => result # NoResult
=============================================================================
