-------------------------- MODULE PatchSafetyProofs --------------------------
(* Invariants of PatchApply: nothing is applied without an approval, a     *)
(* temporary file belongs to a write, and no run is left running.          *)
EXTENDS PatchApplyProofs

\* Whoever holds the answer "approved" has it from the file.
Consent ==
  /\ approval = "approved" => consented
  /\ \A c \in Callers : copy[c] = "approved" /\ apc[c] # "save" => consented

\* Before the approval there is no patched text anywhere, and no thread that
\* has passed the guard.
NothingPatched ==
  /\ \A f \in Files : /\ content[f] \notin Patched
                      /\ temp[f] \notin Patched
                      /\ run.backups[f] \notin Patched
                      /\ runTemp.backups[f] \notin Patched
  /\ \A c \in Threads :
       /\ pc[c] \notin {"start", "backup", "patch", "applied", "validate", "complete", "report"}
       /\ pc[c] \in {"undo", "check", "temp", "replace", "unlink"} => Undoing(c)
       /\ text[c] \notin Patched
       /\ \A f \in Files : mine[c].backups[f] \notin Patched

Unapproved == Consent /\ (~consented => NothingPatched)

\* A thread that has written the temporary file of a record is about to move
\* it.
AtSave == \A c \in staged : pc[c] \in SavesRun \cup SavesResult

\* What the copies of the run and of the result hold when they are about to be
\* saved.
SavesWell ==
  \A c \in Threads :
    /\ pc[c] = "start" => mine[c].status = "running"
    /\ pc[c] = "block" => mine[c].status = "blocked"
    /\ pc[c] = "cancel" => mine[c].status = "cancelled"
    /\ pc[c] = "complete" => mine[c].status = "completed"
    /\ pc[c] \in {"undo", "undo_result", "undo_run", "report_again"} => Undoing(c)
    /\ pc[c] = "refuse" => held[c] = Outcome("blocked", "none")
    /\ pc[c] \in {"complete", "report"} => held[c] = Outcome("completed", "none")
    /\ pc[c] \in {"undo_result", "report_again"} => held[c] # NoResult

\* The temporary file has the record of the thread that has written it.
Drafted(c) ==
  /\ pc[c] \in SavesRun => runTemp = mine[c]
  /\ pc[c] \in SavesResult => resultTemp = held[c]

\* Some thread will not find its temporary file: it has been moved away, or
\* two threads have written it and one of them will move it first.
Contended ==
  \E c \in staged :
    \/ pc[c] \in SavesRun /\ (runTemp = NoRun \/ \E d \in staged \ {c} : pc[d] \in SavesRun)
    \/ /\ pc[c] \in SavesResult
       /\ resultTemp = NoResult \/ \E d \in staged \ {c} : pc[d] \in SavesResult

\* Where a thread will still save the run.
Working == {"backup", "patch", "check", "temp", "replace", "unlink", "applied", "validate",
            "complete", "undo", "undo_result", "undo_run"}

\* A run that is running has a thread that will save it once more, and one
\* that is completed has a result or a thread that will save one, ...
Minded ==
  /\ run.status = "running" => \E c \in Threads : pc[c] \in Working
  /\ run.status = "completed" => result # NoResult \/ \E c \in Threads : pc[c] = "report"

\* ... as long as nothing has gone wrong or is bound to.
Attended ==
  mishaps = 0 => Contended \/ (Minded /\ \A c \in staged : Drafted(c))

(***************************************************************************)
(* Nothing is applied without an approval.                                 *)
(***************************************************************************)

\* Whoever holds the answer "approved" has it from the file.
LEMMA ConsentStep == Typed /\ Consent /\ [Next]_vars => Consent' /\ (consented => consented')
<1> SUFFICES ASSUME Typed, Consent, [Next]_vars PROVE Consent' /\ (consented => consented')
  OBVIOUS
<1>0. ApprovalTypeOK
  BY Zenon DEF Typed, TypeOK
<1> USE DEF Consent, ApprovalTypeOK, stored, asking, Unasked, GoesTo, Asks, Acts
<1>1. ASSUME NEW c \in Callers, ApprovalStep(c) PROVE Consent' /\ (consented => consented')
  <2>1. CASE GetApproval(c)
    BY <1>0, <2>1, Zenon DEF GetApproval, SaveThen
  <2>2. CASE Got(c)
    BY <1>0, <2>2, Zenon DEF Got, Answered
  <2>3. CASE \E decision \in Decisions : Decide(c, decision)
    BY <1>0, <2>3, Zenon DEF Decide, Answered, SaveThen
  <2>4. CASE AttachRuntimeContext(c)
    BY <1>0, <2>4, Zenon DEF AttachRuntimeContext, SaveThen
  <2>5. CASE RefreshPolicy(c)
    BY <1>0, <2>5, Zenon DEF RefreshPolicy, Answered, SaveThen
  <2>6. CASE Save(c)
    BY <1>0, <2>6, ZenonT(40) DEF Save
  <2> QED BY <1>1, <2>1, <2>2, <2>3, <2>4, <2>5, <2>6, Zenon DEF ApprovalStep
<1>2. ASSUME NEW c \in Callers, NEW o, Ask(c, o) PROVE Consent' /\ (consented => consented')
  <2>1. UNCHANGED <<approval, consented, copy>> /\ apc' = [apc EXCEPT ![c] = "get"]
    BY <1>2, Zenon DEF Ask
  <2>2. apc[c] = "idle"
    BY <1>2, Zenon DEF Ask
  <2> QED BY <1>0, <2>1, <2>2, Zenon
<1>3. ASSUME NEW c \in Callers, TakeAnswer(c) PROVE Consent' /\ (consented => consented')
  BY <1>0, <1>3, Zenon DEF TakeAnswer
<1>4. CASE TimePasses
  BY <1>0, <1>4, Zenon DEF TimePasses
<1>5. CASE Crash
  BY <1>5, Zenon DEF Crash
<1>6. CASE UNCHANGED approvalVars
  BY <1>6, Zenon DEF approvalVars
<1> QED BY <1>1, <1>2, <1>3, <1>4, <1>5, <1>6, SeenByApprovals, Zenon

\* Only an approval lets a thread past the guard.
LEMMA NothingPatchedStep ==
  ASSUME Typed, Consent, NothingPatched, ~consented, [Next]_vars
  PROVE  NothingPatched'
<1>0. LocalsTyped /\ FilesTyped /\ ApprovalTypeOK
  BY Zenon DEF Typed, TypeOK, LocalsTyped, FilesTyped
<1> USE DEF disk, records, drafts, work, Goto, At, Undoing
<1>b. /\ \A f \in Files : NoFiles[f] \notin Patched /\ NoRun.backups[f] \notin Patched
      /\ Nothing \notin Patched
      /\ \A f \in Files : NoFiles[f] = Nothing
  BY Zenon DEF NoFiles, NoRun, Nothing, Patched
<1>1. ASSUME NEW c \in Threads, ExecuteGuarded(c) \/ CreateRunGuarded(c) PROVE ~Allows(c)
  BY <1>1, ThreadAssumption, Zenon DEF ExecuteGuarded, CreateRunGuarded, TakeAnswer, Asks, Consent, Allows
<1>2. ASSUME NEW c \in Threads, Begin(c) PROVE NothingPatched'
  <2>1. CASE CreateRun(c)
    BY <1>0, <2>1, Zenon DEF CreateRun, NothingPatched, LocalsTyped
  <2>2. CASE Execute(c)
    BY <1>0, <2>2, Zenon DEF Execute, Refused, Call, NothingPatched, LocalsTyped
  <2>3. CASE Rollback(c)
    BY <1>0, <2>3, Zenon DEF Rollback, Call, NothingPatched, LocalsTyped
  <2>4. CASE Cancel(c)
    <3>1. [run EXCEPT !.status = "cancelled"].backups = run.backups
      BY <1>0, Zenon DEF FilesTyped, RunRecord
    <3> QED BY <1>0, <2>4, <3>1, Zenon DEF Cancel, Call, NothingPatched, LocalsTyped
  <2> QED BY <1>2, <2>1, <2>2, <2>3, <2>4, Zenon DEF Begin
<1>r. ASSUME NEW c \in Threads,
             \/ SaveRun(c) \/ SaveResult(c) \/ Stage(c) \/ StoreRaises(c) \/ UNCHANGED <<run, runTemp>>
      PROVE  \A f \in Files : run'.backups[f] \notin Patched /\ runTemp'.backups[f] \notin Patched
  BY <1>b, <1>r, Zenon DEF SaveRun, SaveResult, Stage, StoreRaises, NothingPatched
<1>3. ASSUME NEW c \in Threads, Done(c), UNCHANGED disk,
             \A f \in Files : run'.backups[f] \notin Patched /\ runTemp'.backups[f] \notin Patched
      PROVE  NothingPatched'
  BY <1>0, <1>3, <1>b, Zenon DEF Done, NothingPatched, LocalsTyped
<1>4. ASSUME NEW c \in Threads, NEW o, NEW b, Undo(c, o, b), UNCHANGED content,
             \A f \in Files : /\ b[f] \notin Patched
                              /\ temp'[f] \notin Patched
                              /\ run'.backups[f] \notin Patched
                              /\ runTemp'.backups[f] \notin Patched
      PROVE  NothingPatched'
  BY <1>0, <1>4, <1>b, Zenon DEF Undo, NothingPatched, LocalsTyped
<1>5. ASSUME NEW c \in Threads, WriteRaises(c), UNCHANGED <<content, records>>,
             \A f \in Files : temp'[f] \notin Patched
      PROVE  NothingPatched'
  <2>1. CASE Undoing(c)
    <3>1. /\ mine' = [mine EXCEPT ![c] = [mine[c] EXCEPT !.status = "rollback_failed"]]
          /\ text' = [text EXCEPT ![c] = Nothing]
          /\ pc' = [pc EXCEPT ![c] = "undo"]
      BY <1>0, <1>5, <2>1, Zenon DEF WriteRaises, LocalsTyped
    <3>2. /\ mine'[c].status = "rollback_failed" /\ mine'[c].backups = mine[c].backups
          /\ \A d \in Threads : d # c => mine'[d] = mine[d]
      BY <1>0, <3>1, Zenon DEF LocalsTyped, RunRecord
    <3>3. \A f \in Files : /\ content'[f] \notin Patched
                           /\ temp'[f] \notin Patched
                           /\ run'.backups[f] \notin Patched
                           /\ runTemp'.backups[f] \notin Patched
      BY <1>5, Zenon DEF NothingPatched
    <3>4. /\ pc'[c] = "undo" /\ text'[c] = Nothing
          /\ \A d \in Threads : d # c => pc'[d] = pc[d] /\ text'[d] = text[d]
      BY <1>0, <3>1, Zenon DEF LocalsTyped
    <3> QED BY <1>b, <3>2, <3>3, <3>4, Zenon DEF NothingPatched
  <2>2. CASE ~Undoing(c)
    BY <1>4, <1>5, <2>2, Zenon DEF WriteRaises, Except, NothingPatched
  <2> QED BY <2>1, <2>2, Zenon
<1>6. ASSUME NEW c \in Threads, NEW l, Goto(c, l), UNCHANGED <<disk, work>>,
             \A f \in Files : run'.backups[f] \notin Patched /\ runTemp'.backups[f] \notin Patched,
             l \notin {"start", "backup", "patch", "applied", "validate", "complete", "report"},
             l \in {"undo", "check", "temp", "replace", "unlink"} => Undoing(c)
      PROVE  NothingPatched'
  BY <1>0, <1>6, Zenon DEF NothingPatched, LocalsTyped
<1>7. ASSUME NEW c \in Threads, Step(c) PROVE NothingPatched'
  <2>0. pc[c] \notin {"start", "backup", "patch", "applied", "validate", "complete", "report"}
    BY Zenon DEF NothingPatched
  <2>1. CASE CreateRunGuarded(c)
    <3>1. [NoRun EXCEPT !.status = "blocked"].backups = NoRun.backups
      BY Blank, Zenon DEF RunRecord
    <3>2. \A f \in Files : run'.backups[f] \notin Patched
      BY <1>1, <1>b, <2>1, <3>1, Zenon DEF CreateRunGuarded
    <3> QED BY <1>0, <2>1, <3>2, Zenon DEF CreateRunGuarded, NothingPatched, LocalsTyped
  <2>2. CASE ExecuteGuarded(c)
    <3>1. pc' = [pc EXCEPT ![c] = "block"] /\ mine' = [mine EXCEPT ![c].status = "blocked"]
          /\ UNCHANGED <<disk, records, text>>
      BY <1>1, <2>2, Zenon DEF ExecuteGuarded
    <3>2. mine'[c].backups = mine[c].backups /\ \A d \in Threads : d # c => mine'[d] = mine[d]
      BY <1>0, <3>1, Zenon DEF LocalsTyped, RunRecord
    <3>3. pc'[c] = "block" /\ \A d \in Threads : d # c => pc'[d] = pc[d]
      BY <1>0, <3>1, Zenon DEF LocalsTyped
    <3> QED BY <3>1, <3>2, <3>3, Zenon DEF NothingPatched
  <2>3. CASE Block(c)
    BY <1>0, <1>r, <2>3, Zenon DEF Block, Refused, NothingPatched, LocalsTyped
  <2>4. ASSUME Refuse(c) \/ ReportAgain(c) \/ CancelSave(c) PROVE NothingPatched'
    BY <1>3, <1>r, <2>4, Zenon DEF Refuse, ReportAgain, CancelSave
  <2>5. CASE Stage(c)
    BY <1>r, <2>5, Zenon DEF Stage, NothingPatched
  <2>6. CASE UndoRun(c)
    BY <1>3, <1>6, <1>r, <2>6, Zenon DEF UndoRun
  <2>7. CASE UndoResult(c)
    BY <1>6, <1>r, <2>7, Zenon DEF UndoResult
  <2>8. CASE UndoEnd(c)
    BY <1>0, <2>8, Zenon DEF UndoEnd, NothingPatched, LocalsTyped
  <2>9. CASE RollbackFetch(c)
    BY <1>4, <2>9, Zenon DEF RollbackFetch, NothingPatched
  <2>10. CASE UndoNext(c)
    <3>1. PICK i \in next[c]..Len(Plan) : text' = [text EXCEPT ![c] = mine[c].backups[Plan[i]]]
      BY <2>10, Zenon DEF UndoNext
    <3>2. Plan[i] \in Files
      BY <1>0, <3>1, PlanFacts DEF LocalsTyped
    <3> QED BY <1>0, <2>10, <3>1, <3>2, Zenon DEF UndoNext, NothingPatched, LocalsTyped
  <2>11. CASE Check(c)
    BY <1>5, <1>6, <1>r, <2>11, Zenon DEF Check, NothingPatched
  <2>12. CASE WriteTemp(c)
    BY <1>0, <2>12, Zenon DEF WriteTemp, NothingPatched, LocalsTyped, FilesTyped
  <2>13. CASE Replace(c)
    <3>1. Current(c) \in Files
      BY <1>0, <2>13, PlanFacts, Zenon DEF Replace, LocalsTyped, AtFile, Current
    <3>2. CASE WriteRaises(c) /\ UNCHANGED disk
      BY <1>5, <2>13, <3>2, Zenon DEF Replace, NothingPatched
    <3> QED BY <1>0, <1>b, <2>13, <3>1, <3>2, ZenonT(40) DEF Replace, NothingPatched, LocalsTyped, FilesTyped
  <2>14. CASE Unlink(c)
    <3>1. Current(c) \in Files
      BY <1>0, <2>14, PlanFacts, Zenon DEF Unlink, LocalsTyped, AtFile, Current
    <3>2. Undoing(c)
      BY <2>14, Zenon DEF Unlink, NothingPatched
    <3> QED BY <1>0, <1>b, <2>14, <3>1, <3>2, Zenon DEF Unlink, NothingPatched, LocalsTyped, FilesTyped
  <2> QED BY <1>7, <2>0, <2>1, <2>2, <2>3, <2>4, <2>5, <2>6, <2>7, <2>8, <2>9, <2>10, <2>11,
             <2>12, <2>13, <2>14, Zenon
          DEF Step, Start, Backup, Patch, Applied, Validate, Complete, Report
<1>8. ASSUME NEW c \in Threads, Fault(c) PROVE NothingPatched'
  <2>1. CASE StartRaises(c)
    BY <2>1, Zenon DEF StartRaises, NothingPatched
  <2>2. CASE IOError(c)
    <3>1. pc[c] \in {"check", "temp", "replace", "unlink"} /\ WriteRaises(c)
      BY <2>2, Zenon DEF IOError, NothingPatched
    <3>2. \A f \in Files : temp'[f] \notin Patched
      BY <1>0, <1>b, <2>2, Zenon DEF IOError, NothingPatched, FilesTyped
    <3> QED BY <1>5, <2>2, <3>1, <3>2, Zenon DEF IOError
  <2>3. ASSUME RecordError(c) \/ Gone(c) PROVE NothingPatched'
    BY <1>3, <1>4, <1>r, <2>3, ZenonT(40) DEF RecordError, Gone, StoreRaises, Except, NothingPatched
  <2>4. CASE AnswerRaises(c)
    BY <1>4, <1>r, <2>4, ZenonT(40) DEF AnswerRaises, Except, NothingPatched
  <2> QED BY <1>8, <2>1, <2>2, <2>3, <2>4, Zenon DEF Fault
<1>9. ASSUME UNCHANGED patchVars PROVE NothingPatched'
  BY <1>9, Zenon DEF patchVars, NothingPatched, Undoing
<1>10. ASSUME NEW f \in Files, Edit(f) PROVE NothingPatched'
  <2>1. content[f] \notin Patched /\ "edited" \notin Patched /\ content[f] # "patched"
    BY Zenon DEF NothingPatched, Patched
  <2>2. \A g \in Files : content'[g] \notin Patched
    BY <1>0, <1>10, <2>1, Zenon DEF Edit, FilesTyped, NothingPatched
  <2> QED BY <1>10, <2>2, Zenon DEF Edit, NothingPatched, Undoing
<1>11. CASE Crash
  BY <1>11, <1>b, Zenon DEF Crash, NothingPatched
<1> QED BY <1>2, <1>7, <1>8, <1>9, <1>10, <1>11, Zenon DEF Next, vars

\* Initially nothing is approved and nothing is patched.
LEMMA UnapprovedInit == Init => Unapproved
<1> SUFFICES ASSUME Init PROVE Unapproved
  OBVIOUS
<1>1. Consent
  BY Zenon DEF Init, ApprovalInit, Consent
<1>2. NothingPatched
  BY Zenon DEF Init, NothingPatched, NoRun, NoFiles, Nothing, Patched
<1> QED BY <1>1, <1>2, Zenon DEF Unapproved

\* The patch reaches a file only after the approval's file has said
\* "approved", for any number of threads, callers and files, whatever fails
\* and whenever the process stops.
THEOREM Approved == Spec => []AppliedOnlyIfApproved
<1>1. Typed /\ Unapproved /\ [Next]_vars => Unapproved'
  BY ConsentStep, NothingPatchedStep, Zenon DEF Unapproved
<1>2. Unapproved => AppliedOnlyIfApproved
  BY Zenon DEF Unapproved, NothingPatched, AppliedOnlyIfApproved
<1> QED BY TypeInit, TypeStep, UnapprovedInit, <1>1, <1>2, PTL DEF Spec

(***************************************************************************)
(* Temporary files.                                                        *)
(***************************************************************************)

\* A step that leaves the temporary files and the restarts' leftovers alone
\* keeps TempInFlight if no thread leaves a file that it is moving.
LEMMA TempKept ==
  ASSUME TempInFlight, UNCHANGED <<temp, left>>,
         \A c \in Threads : pc[c] \in {"replace", "unlink"} =>
                              \/ pc'[c] \in {"replace", "unlink"} /\ next'[c] = next[c]
                              \/ temp[Current(c)] = Nothing
  PROVE  TempInFlight'
BY Zenon DEF TempInFlight, Current

\* Every step keeps a temporary file in some thread's hands.
LEMMA TempStep == Typed /\ TempInFlight /\ [Next]_vars => TempInFlight'
<1> SUFFICES ASSUME Typed, TempInFlight, [Next]_vars PROVE TempInFlight'
  OBVIOUS
<1>0. LocalsTyped /\ FilesTyped
  BY Zenon DEF Typed, TypeOK, LocalsTyped, FilesTyped
<1> USE DEF disk, records, drafts, work, noted, Goto, At
<1>1. ASSUME NEW c \in Threads, pc[c] \notin {"replace", "unlink"},
             \A d \in Threads : d # c => pc'[d] = pc[d] /\ next'[d] = next[d],
             UNCHANGED <<temp, left>>
      PROVE  TempInFlight'
  BY <1>1, TempKept, Zenon
<1>2. ASSUME NEW c \in Threads
      PROVE  /\ Done(c) => \A d \in Threads : d # c => pc'[d] = pc[d] /\ next'[d] = next[d]
             /\ \A o, b : Undo(c, o, b) =>
                  \A d \in Threads : d # c => pc'[d] = pc[d] /\ next'[d] = next[d]
             /\ WriteRaises(c) =>
                  \A d \in Threads : d # c => pc'[d] = pc[d] /\ next'[d] = next[d]
  BY <1>0, Zenon DEF Done, Undo, WriteRaises, Except, LocalsTyped
<1>3. ASSUME NEW c \in Threads,
             temp' = [temp EXCEPT ![Current(c)] = Nothing], left' = left,
             \A d \in Threads : d # c => pc'[d] = pc[d] /\ next'[d] = next[d]
      PROVE  TempInFlight'
  <2> SUFFICES ASSUME NEW f \in Files, temp'[f] # Nothing
               PROVE  \/ f \in left'
                      \/ \E d \in Threads : pc'[d] \in {"replace", "unlink"} /\ Plan[next'[d]] = f
    BY Zenon DEF TempInFlight, Current
  <2>1. f # Current(c) /\ temp[f] # Nothing
    BY <1>0, <1>3, Zenon DEF FilesTyped
  <2> QED BY <1>3, <2>1 DEF TempInFlight, Current
<1>4. ASSUME NEW c \in Threads, Begin(c) PROVE TempInFlight'
  BY <1>0, <1>1, <1>4, ZenonT(40) DEF Begin, CreateRun, Execute, Refused, Rollback, Cancel, Call, LocalsTyped
<1>5. ASSUME NEW c \in Threads, Step(c) PROVE TempInFlight'
  <2>1. ASSUME \/ CreateRunGuarded(c) \/ ExecuteGuarded(c) \/ Block(c) \/ Start(c) \/ Applied(c)
               \/ Backup(c) \/ Patch(c) \/ Complete(c) \/ UndoEnd(c) \/ UndoResult(c)
        PROVE  TempInFlight'
    BY <1>0, <1>1, <2>1, Zenon DEF CreateRunGuarded, ExecuteGuarded, Block, Refused, Start, Applied, Backup,
       Patch, Complete, UndoEnd, UndoResult, LocalsTyped, Alone
  <2>s. CASE Stage(c)
    BY <2>s, TempKept, Zenon DEF Stage, Alone
  <2>2. ASSUME Refuse(c) \/ Report(c) \/ ReportAgain(c) \/ CancelSave(c) PROVE TempInFlight'
    BY <1>1, <1>2, <2>2, Zenon DEF Refuse, Report, ReportAgain, CancelSave, Alone
  <2>3. ASSUME RollbackFetch(c) \/ Validate(c) PROVE TempInFlight'
    BY <1>0, <1>1, <1>2, <2>3, Zenon DEF RollbackFetch, Validate, LocalsTyped, Alone
  <2>4. CASE UndoRun(c)
    BY <1>0, <1>1, <1>2, <2>4, Zenon DEF UndoRun, LocalsTyped, Alone
  <2>5. CASE UndoNext(c)
    BY <1>0, <1>1, <2>5, Zenon DEF UndoNext, LocalsTyped, Alone
  <2>6. CASE Check(c)
    BY <1>0, <1>1, <1>2, <2>6, Zenon DEF Check, LocalsTyped, Alone
  <2>7. CASE WriteTemp(c)
    <3>1. /\ temp' = [temp EXCEPT ![Current(c)] = text[c]] /\ left' = left /\ next' = next
          /\ pc'[c] = "replace" /\ \A d \in Threads : d # c => pc'[d] = pc[d]
      BY <1>0, <2>7, Zenon DEF WriteTemp, Alone, LocalsTyped
    <3>2. pc[c] = "temp"
      BY <2>7, Zenon DEF WriteTemp
    <3> QED BY <1>0, <3>1, <3>2, Zenon DEF TempInFlight, Current, FilesTyped
  <2>8. CASE Replace(c)
    <3>1. CASE temp[Current(c)] = Nothing
      <4>1. \A d \in Threads : d # c => pc'[d] = pc[d] /\ next'[d] = next[d]
        BY <1>2, <2>8, <3>1, Zenon DEF Replace
      <4> QED BY <2>8, <3>1, <4>1, TempKept, Zenon DEF Replace, Alone
    <3>2. CASE temp[Current(c)] # Nothing
      BY <1>0, <1>3, <2>8, <3>2, Zenon DEF Replace, Alone, LocalsTyped
    <3> QED BY <3>1, <3>2, Zenon
  <2>9. CASE Unlink(c)
    BY <1>0, <1>3, <2>9, Zenon DEF Unlink, Alone, LocalsTyped
  <2> QED BY <1>5, <2>1, <2>2, <2>3, <2>4, <2>5, <2>6, <2>7, <2>8, <2>9, <2>s, Zenon DEF Step
<1>6. ASSUME NEW c \in Threads, Fault(c) PROVE TempInFlight'
  <2>1. ASSUME StartRaises(c) \/ RecordError(c) \/ AnswerRaises(c) \/ Gone(c) PROVE TempInFlight'
    BY <1>1, <1>2, <2>1, Zenon DEF StartRaises, RecordError, AnswerRaises, Gone, StoreRaises, SavesRun,
       SavesResult, Except, Mishap
  <2>2. CASE IOError(c)
    BY <1>1, <1>2, <1>3, <2>2, Zenon DEF IOError, Except, Mishap
  <2> QED BY <1>6, <2>1, <2>2, Zenon DEF Fault
<1>7. ASSUME UNCHANGED patchVars PROVE TempInFlight'
  BY <1>7, TempKept, Zenon DEF patchVars
<1>8. ASSUME NEW f \in Files, Edit(f) PROVE TempInFlight'
  BY <1>8, TempKept, Zenon DEF Edit, Mishap
<1>9. CASE Crash
  BY <1>9, Zenon DEF Crash, TempInFlight
<1> QED BY <1>4, <1>5, <1>6, <1>7, <1>8, <1>9, Zenon DEF Next, vars

\* The writes of any number of threads leave no temporary file behind; only a
\* restart does.
THEOREM TempOwned == Spec => []TempInFlight
<1>1. Init => TempInFlight
  BY Zenon DEF Init, TempInFlight, NoFiles
<1> QED BY TypeInit, TypeStep, <1>1, TempStep, PTL DEF Spec

(***************************************************************************)
(* Saves of the records.                                                   *)
(***************************************************************************)

\* A call or a step leaves the locals of the other threads as they are.
LEMMA OthersKept ==
  ASSUME Typed, NEW c \in Threads, Begin(c) \/ Step(c) \/ Fault(c), NEW d \in Threads, d # c
  PROVE  /\ pc'[d] = pc[d] /\ mine'[d] = mine[d] /\ held'[d] = held[d]
         /\ next'[d] = next[d] /\ saved'[d] = saved[d]
<1>0. /\ pc \in [Threads -> Labels] /\ next \in [Threads -> 1..(Len(Plan) + 1)]
      /\ mine \in [Threads -> RunRecord] /\ held \in [Threads -> ResultRecord]
      /\ saved \in [Threads -> [Files -> Versions]]
  BY Zenon DEF Typed, TypeOK
<1> DEFINE Kept == /\ pc'[d] = pc[d] /\ mine'[d] = mine[d] /\ held'[d] = held[d]
                   /\ next'[d] = next[d] /\ saved'[d] = saved[d]
<1> USE DEF Goto, work
<1>1. Done(c) => Kept
  BY <1>0, Zenon DEF Done
<1>2. \A o, b : Undo(c, o, b) => Kept
  BY <1>0, Zenon DEF Undo
<1>3. WriteRaises(c) => Kept
  BY <1>0, <1>2, Zenon DEF WriteRaises, Except
<1>4. ASSUME Begin(c) PROVE Kept
  BY <1>0, <1>4, Zenon DEF Begin, CreateRun, Execute, Refused, Rollback, Cancel, Call
<1>5. ASSUME Fault(c) PROVE Kept
  BY <1>1, <1>2, <1>3, <1>5, Zenon
     DEF Fault, StartRaises, IOError, RecordError, AnswerRaises, Gone, StoreRaises, Except
<1>6. ASSUME \/ CreateRunGuarded(c) \/ ExecuteGuarded(c) \/ Block(c) \/ Refuse(c)
             \/ Start(c) \/ Backup(c) \/ Patch(c) \/ Stage(c)
      PROVE  Kept
  BY <1>0, <1>1, <1>6, Zenon
     DEF CreateRunGuarded, ExecuteGuarded, Block, Refused, Refuse, Start, Backup, Patch, Stage
<1>7. ASSUME \/ Check(c) \/ WriteTemp(c) \/ Replace(c) \/ Unlink(c) \/ Applied(c)
      PROVE  Kept
  BY <1>0, <1>3, <1>7, Zenon DEF Check, WriteTemp, Replace, Unlink, Applied
<1>8. ASSUME Validate(c) \/ Complete(c) \/ Report(c) \/ RollbackFetch(c) \/ UndoNext(c)
      PROVE  Kept
  BY <1>0, <1>1, <1>2, <1>8, Zenon DEF Validate, Complete, Report, RollbackFetch, UndoNext
<1>9. ASSUME UndoEnd(c) \/ UndoResult(c) \/ UndoRun(c) \/ ReportAgain(c) \/ CancelSave(c)
      PROVE  Kept
  BY <1>0, <1>1, <1>9, Zenon DEF UndoEnd, UndoResult, UndoRun, ReportAgain, CancelSave
<1> QED BY <1>4, <1>5, <1>6, <1>7, <1>8, <1>9, Zenon DEF Step

\* A step of a thread leaves the temporary files of the records alone, writes
\* one of them, or moves the one that it has written.
LEMMA Moves ==
  ASSUME AtSave, NEW c \in Threads, Begin(c) \/ Step(c)
  PROVE  \/ c \notin staged /\ UNCHANGED drafts
         \/ Stage(c)
         \/ pc[c] \in SavesRun /\ SaveRun(c)
         \/ pc[c] \in SavesResult /\ SaveResult(c)
<1> USE DEF At, records, SavesRun, SavesResult
<1>1. ASSUME pc[c] \notin SavesRun \cup SavesResult, UNCHANGED drafts
      PROVE  c \notin staged /\ UNCHANGED drafts
  BY <1>1, Zenon DEF AtSave
<1>2. CASE Begin(c)
  BY <1>1, <1>2, Zenon DEF Begin, CreateRun, Execute, Rollback, Cancel, Call
<1>3. ASSUME \/ CreateRunGuarded(c) \/ ExecuteGuarded(c) \/ Backup(c) \/ Patch(c) \/ Check(c)
             \/ WriteTemp(c) \/ Replace(c) \/ Unlink(c) \/ Applied(c) \/ Validate(c)
             \/ RollbackFetch(c) \/ UndoNext(c) \/ UndoEnd(c)
      PROVE  c \notin staged /\ UNCHANGED drafts
  BY <1>1, <1>3, Zenon DEF CreateRunGuarded, ExecuteGuarded, Backup, Patch, Check, WriteTemp,
     Replace, Unlink, Applied, Validate, RollbackFetch, UndoNext, UndoEnd
<1>4. ASSUME Block(c) \/ Start(c) \/ Complete(c) \/ UndoRun(c) \/ CancelSave(c)
      PROVE  pc[c] \in SavesRun /\ SaveRun(c)
  BY <1>4, Zenon DEF Block, Start, Complete, UndoRun, CancelSave
<1>5. ASSUME Refuse(c) \/ Report(c) \/ UndoResult(c) \/ ReportAgain(c)
      PROVE  pc[c] \in SavesResult /\ SaveResult(c)
  BY <1>5, Zenon DEF Refuse, Report, UndoResult, ReportAgain
<1> QED BY <1>2, <1>3, <1>4, <1>5, Zenon DEF Step

\* Only a thread that is about to move a temporary file has written it.
LEMMA AtSaveKept ==
  /\ Init => AtSave
  /\ Typed /\ AtSave /\ [Next]_vars => AtSave'
<1>1. Init => AtSave
  BY Zenon DEF Init, AtSave
<1>2. ASSUME Typed, AtSave, [Next]_vars PROVE AtSave'
  <2>1. ASSUME NEW c \in Threads, Begin(c) \/ Step(c) \/ Fault(c),
               \/ staged' \subseteq staged /\ c \notin staged'
               \/ Stage(c)
        PROVE  AtSave'
    <3>1. \A d \in Threads : d # c => pc'[d] = pc[d]
      BY <1>2, <2>1, OthersKept, Zenon
    <3>2. staged \subseteq Threads
      BY <1>2, Zenon DEF Typed, TypeOK
    <3> QED BY <1>2, <2>1, <3>1, <3>2, Zenon DEF AtSave, Stage
  <2>2. ASSUME NEW c \in Threads, Begin(c) \/ Step(c) PROVE AtSave'
    BY <1>2, <2>1, <2>2, Moves, Zenon DEF drafts, SaveRun, SaveResult
  <2>3. ASSUME NEW c \in Threads, Fault(c) PROVE AtSave'
    <3>1. CASE IOError(c)
      <4>1. pc[c] \notin SavesRun \cup SavesResult /\ staged' = staged
        BY <3>1, Zenon DEF IOError, records, drafts, At, SavesRun, SavesResult
      <4>2. c \notin staged
        BY <1>2, <4>1, Zenon DEF AtSave
      <4> QED BY <2>1, <2>3, <4>1, <4>2, Zenon
    <3>2. CASE StartRaises(c) \/ RecordError(c) \/ AnswerRaises(c) \/ Gone(c)
      <4>1. staged' = staged \ {c}
        BY <3>2, Zenon DEF StartRaises, RecordError, AnswerRaises, Gone, StoreRaises, SaveRun, SaveResult
      <4> QED BY <2>1, <2>3, <4>1, Zenon
    <3> QED BY <2>3, <3>1, <3>2, Zenon DEF Fault
  <2>4. ASSUME UNCHANGED <<pc, staged>> PROVE AtSave'
    BY <1>2, <2>4, Zenon DEF AtSave
  <2>5. CASE Crash
    BY <2>5, Zenon DEF Crash, AtSave
  <2> QED BY <1>2, <2>2, <2>3, <2>4, <2>5, Zenon
          DEF Next, vars, patchVars, Edit, records, drafts
<1> QED BY <1>1, <1>2, Zenon

\* What a thread holds when it is about to save a record, after each of its
\* steps.
LEMMA SavesStep ==
  ASSUME Typed, SavesWell, NEW c \in Threads, Begin(c) \/ Step(c) \/ Fault(c)
  PROVE  SavesWell'
<1>0. LocalsTyped
  BY Zenon DEF Typed, TypeOK, LocalsTyped
<1>k. \A d \in Threads : d # c => pc'[d] = pc[d] /\ mine'[d] = mine[d] /\ held'[d] = held[d]
  BY OthersKept, Zenon
<1> USE DEF work, Goto, At, Undoing
<1>l. ASSUME pc'[c] \in {"idle", "create", "guard", "backup", "patch", "check", "temp", "replace",
                         "unlink", "applied", "validate", "fetch"}
      PROVE  SavesWell'
  BY <1>k, <1>l, Zenon DEF SavesWell
<1>2. ASSUME Done(c) PROVE SavesWell'
  BY <1>0, <1>l, <1>2, Zenon DEF Done, LocalsTyped
<1>3. ASSUME NEW o, NEW b, Undo(c, o, b) PROVE SavesWell'
  <2>1. pc'[c] = "undo" /\ mine'[c].status = "rolled_back"
    BY <1>0, <1>3, Zenon DEF Undo, LocalsTyped
  <2> QED BY <1>k, <2>1, Zenon DEF SavesWell
<1>4. ASSUME WriteRaises(c) PROVE SavesWell'
  <2>1. CASE Undoing(c)
    <3>1. mine'[c].status = "rollback_failed" /\ pc'[c] = "undo"
      BY <1>0, <1>4, <2>1 DEF WriteRaises, LocalsTyped, RunRecord
    <3> QED BY <1>k, <3>1, Zenon DEF SavesWell
  <2>2. CASE ~Undoing(c)
    BY <1>3, <1>4, <2>2, Zenon DEF WriteRaises, Except
  <2> QED BY <2>1, <2>2, Zenon
<1>r. ASSUME Refused(c) PROVE SavesWell'
  <2>1. pc'[c] = "refuse" /\ held'[c] = Outcome("blocked", "none")
    BY <1>0, <1>r, Zenon DEF Refused, LocalsTyped
  <2> QED BY <1>k, <2>1, Zenon DEF SavesWell
<1>5. CASE Begin(c)
  <2>1. CASE Cancel(c)
    <3>1. mine'[c].status = "cancelled" /\ pc'[c] = "cancel"
      BY <1>0, <2>1, Zenon DEF Cancel, Call, LocalsTyped, Typed, TypeOK, RunRecord
    <3> QED BY <1>k, <3>1, Zenon DEF SavesWell
  <2>2. CASE CreateRun(c) \/ Rollback(c)
    BY <1>0, <1>l, <2>2, Zenon DEF CreateRun, Rollback, LocalsTyped
  <2>3. CASE Execute(c)
    BY <1>0, <1>l, <1>r, <2>3, Zenon DEF Execute, LocalsTyped
  <2> QED BY <1>5, <2>1, <2>2, <2>3, Zenon DEF Begin
<1>6. ASSUME \/ CreateRunGuarded(c) \/ Start(c) \/ WriteTemp(c) \/ Backup(c) \/ Patch(c)
             \/ UndoNext(c) \/ Applied(c)
      PROVE  SavesWell'
  BY <1>0, <1>l, <1>6, Zenon DEF CreateRunGuarded, Start, WriteTemp, Backup, Patch, UndoNext, Applied,
     LocalsTyped
<1>7. CASE ExecuteGuarded(c)
  <2>1. \/ pc'[c] = "start" /\ mine' = [mine EXCEPT ![c].status = "running"]
        \/ pc'[c] = "block" /\ mine' = [mine EXCEPT ![c].status = "blocked"]
    BY <1>0, <1>7, Zenon DEF ExecuteGuarded, LocalsTyped
  <2>2. ASSUME mine' = [mine EXCEPT ![c].status = "running"] PROVE mine'[c].status = "running"
    BY <1>0, <2>2, Zenon DEF LocalsTyped, RunRecord
  <2>3. ASSUME mine' = [mine EXCEPT ![c].status = "blocked"] PROVE mine'[c].status = "blocked"
    BY <1>0, <2>3, Zenon DEF LocalsTyped, RunRecord
  <2>4. \/ pc'[c] = "start" /\ mine'[c].status = "running"
        \/ pc'[c] = "block" /\ mine'[c].status = "blocked"
    BY <2>1, <2>2, <2>3, Zenon
  <2>5. ASSUME pc'[c] = "start", mine'[c].status = "running" PROVE SavesWell'
    BY <1>k, <2>5, Zenon DEF SavesWell
  <2>6. ASSUME pc'[c] = "block", mine'[c].status = "blocked" PROVE SavesWell'
    BY <1>k, <2>6, Zenon DEF SavesWell
  <2> QED BY <2>4, <2>5, <2>6, Zenon
<1>8. ASSUME Refuse(c) \/ Report(c) \/ ReportAgain(c) \/ CancelSave(c) \/ StartRaises(c)
      PROVE  SavesWell'
  BY <1>2, <1>8, Zenon DEF Refuse, Report, ReportAgain, CancelSave, StartRaises
<1>b. CASE Block(c)
  BY <1>r, <1>b, Zenon DEF Block
<1>s. CASE Stage(c)
  BY <1>s, Zenon DEF Stage, SavesWell
<1>c. CASE Complete(c)
  <2>1. pc[c] = "complete" /\ pc'[c] = "report" /\ held' = held
    BY <1>0, <1>c, Zenon DEF Complete, LocalsTyped
  <2> QED BY <1>k, <2>1, Zenon DEF SavesWell
<1>9. CASE Check(c)
  BY <1>0, <1>l, <1>4, <1>9, Zenon DEF Check, LocalsTyped
<1>10. CASE Replace(c)
  BY <1>0, <1>l, <1>4, <1>10, Zenon DEF Replace, LocalsTyped
<1>11. CASE Unlink(c)
  <2>1. CASE Undoing(c)
    <3>1. pc'[c] = "undo" /\ mine' = mine
      BY <1>0, <1>11, <2>1, Zenon DEF Unlink, LocalsTyped
    <3> QED BY <1>k, <2>1, <3>1, Zenon DEF SavesWell
  <2>2. CASE ~Undoing(c)
    BY <1>0, <1>l, <1>11, <2>2, Zenon DEF Unlink, LocalsTyped
  <2> QED BY <2>1, <2>2, Zenon
<1>12. CASE Validate(c)
  <2>1. CASE /\ Goto(c, "complete") /\ mine' = [mine EXCEPT ![c].status = "completed"]
             /\ held' = [held EXCEPT ![c] = Outcome("completed", "none")]
    <3>1. /\ mine'[c].status = "completed" /\ pc'[c] = "complete"
          /\ held'[c] = Outcome("completed", "none")
      BY <1>0, <2>1, Zenon DEF LocalsTyped, RunRecord
    <3> QED BY <1>k, <3>1, Zenon DEF SavesWell
  <2> QED BY <1>3, <1>12, <2>1, Zenon DEF Validate
<1>13. CASE RollbackFetch(c)
  BY <1>3, <1>13, Zenon DEF RollbackFetch
<1>14. CASE UndoEnd(c)
  <2>1. mine' = mine /\ Undoing(c)
    BY <1>14, Zenon DEF UndoEnd, SavesWell
  <2>2. CASE held[c] = NoResult
    <3>1. pc'[c] = "undo_run"
      BY <1>0, <1>14, <2>2, Zenon DEF UndoEnd, LocalsTyped
    <3> QED BY <1>k, <2>1, <3>1, Zenon DEF SavesWell
  <2>3. CASE held[c] # NoResult
    <3>1. held'[c].status \in {"failed_with_rollback", "rollback_failed"} /\ pc'[c] = "undo_result"
      BY <1>0, <1>14, <2>3 DEF UndoEnd, LocalsTyped, ResultRecord
    <3>2. held'[c].status # "none"
      BY <3>1, Zenon
    <3>3. held'[c] # NoResult
      BY <3>2, Blank, Zenon
    <3> QED BY <1>k, <2>1, <3>1, <3>3, Zenon DEF SavesWell
  <2> QED BY <2>2, <2>3, Zenon
<1>15. CASE UndoResult(c)
  <2>1. pc[c] = "undo_result" /\ pc'[c] = "undo_run" /\ mine' = mine
    BY <1>0, <1>15, Zenon DEF UndoResult, LocalsTyped
  <2> QED BY <1>k, <2>1, Zenon DEF SavesWell
<1>16. CASE UndoRun(c)
  <2>1. CASE Goto(c, "report_again") /\ InExcept(c) /\ UNCHANGED <<op, work>>
    <3>1. held[c] # NoResult
      BY <2>1, Blank, Zenon DEF InExcept
    <3>2. pc[c] = "undo_run" /\ pc'[c] = "report_again" /\ UNCHANGED <<mine, held>>
      BY <1>0, <1>16, <2>1, Zenon DEF UndoRun, LocalsTyped
    <3> QED BY <1>k, <3>1, <3>2, Zenon DEF SavesWell
  <2> QED BY <1>2, <1>16, <2>1, Zenon DEF UndoRun
<1>17. CASE IOError(c)
  BY <1>3, <1>4, <1>17, Zenon DEF IOError, Except
<1>18. CASE RecordError(c) \/ Gone(c)
  BY <1>2, <1>3, <1>18, Zenon DEF RecordError, Gone, StoreRaises, Except
<1>19. CASE AnswerRaises(c)
  BY <1>3, <1>19, Zenon DEF AnswerRaises, Except
<1> QED BY <1>5, <1>6, <1>7, <1>8, <1>9, <1>10, <1>11, <1>12, <1>13, <1>14, <1>15, <1>16,
           <1>17, <1>18, <1>19, <1>b, <1>c, <1>s, Zenon DEF Step, Fault

\* The copies that threads are about to save are always well-formed.
LEMMA SavesKept ==
  /\ Init => SavesWell
  /\ Typed /\ SavesWell /\ [Next]_vars => SavesWell'
<1>1. Init => SavesWell
  BY Zenon DEF Init, SavesWell
<1>2. ASSUME Typed, SavesWell, [Next]_vars PROVE SavesWell'
  <2>1. ASSUME NEW c \in Threads, Begin(c) \/ Step(c) \/ Fault(c) PROVE SavesWell'
    BY <1>2, <2>1, SavesStep, Zenon
  <2>2. ASSUME UNCHANGED <<pc, mine, held>> PROVE SavesWell'
    BY <1>2, <2>2, Zenon DEF SavesWell, Undoing
  <2>3. CASE Crash
    BY <2>3, Zenon DEF Crash, SavesWell
  <2> QED BY <1>2, <2>1, <2>2, <2>3, Zenon DEF Next, vars, patchVars, Edit, work
<1> QED BY <1>1, <1>2, Zenon

(***************************************************************************)
(* No run is left running.                                                 *)
(***************************************************************************)

\* Once two threads have come to share a temporary file, or one has lost it,
\* it stays so until one of them finds its file gone.
LEMMA ContendedStep ==
  ASSUME Typed, AtSave, Contended, NEW c \in Threads, Begin(c) \/ Step(c)
  PROVE  Contended'
<1>0. staged \subseteq Threads /\ \A d \in Threads : d # c => pc'[d] = pc[d]
  BY OthersKept, Zenon DEF Typed, TypeOK
<1>1. CASE c \notin staged /\ UNCHANGED drafts
  BY <1>0, <1>1, Zenon DEF Contended, drafts
<1>2. CASE Stage(c)
  <2>1. pc' = pc /\ staged' = staged \cup {c} /\ c \notin staged
    BY <1>2, Zenon DEF Stage
  <2>2. \/ pc[c] \in SavesRun /\ resultTemp' = resultTemp
        \/ pc[c] \in SavesResult /\ runTemp' = runTemp
    BY <1>2, Zenon DEF Stage
  <2> QED BY <2>1, <2>2, Zenon DEF Contended
<1>3. CASE pc[c] \in SavesRun /\ SaveRun(c)
  <2>1. /\ staged' = staged \ {c} /\ runTemp # NoRun /\ runTemp' = NoRun
        /\ resultTemp' = resultTemp /\ pc[c] \notin SavesResult
    BY <1>3, Zenon DEF SaveRun, SavesRun, SavesResult
  <2> QED BY <1>0, <2>1, Zenon DEF Contended
<1>4. CASE pc[c] \in SavesResult /\ SaveResult(c)
  <2>1. /\ staged' = staged \ {c} /\ resultTemp # NoResult /\ resultTemp' = NoResult
        /\ runTemp' = runTemp /\ pc[c] \notin SavesRun
    BY <1>4, Zenon DEF SaveResult, SavesRun, SavesResult
  <2> QED BY <1>0, <2>1, Zenon DEF Contended
<1> QED BY <1>1, <1>2, <1>3, <1>4, Moves, Zenon

\* As long as no temporary file is shared, each has what its thread has
\* written.
LEMMA DraftedStep ==
  ASSUME Typed, AtSave, ~Contended, \A d \in staged : Drafted(d),
         NEW c \in Threads, Begin(c) \/ Step(c)
  PROVE  Contended' \/ \A d \in staged' : Drafted(d)'
<1>0. /\ staged \subseteq Threads
      /\ \A d \in Threads : d # c => pc'[d] = pc[d] /\ mine'[d] = mine[d] /\ held'[d] = held[d]
  BY OthersKept, Zenon DEF Typed, TypeOK
<1>1. CASE c \notin staged /\ UNCHANGED drafts
  BY <1>0, <1>1, Zenon DEF Drafted, drafts
<1>2. CASE Stage(c)
  <2>1. UNCHANGED <<pc, mine, held>> /\ staged' = staged \cup {c} /\ c \notin staged
    BY <1>2, Zenon DEF Stage, work
  <2>2. \/ pc[c] \in SavesRun /\ resultTemp' = resultTemp /\ runTemp' = mine[c]
        \/ pc[c] \in SavesResult /\ runTemp' = runTemp /\ resultTemp' = held[c]
    BY <1>2, Zenon DEF Stage
  <2>3. pc[c] \notin SavesRun \/ pc[c] \notin SavesResult
    BY Zenon DEF SavesRun, SavesResult
  <2> QED BY <2>1, <2>2, <2>3, Zenon DEF Contended, Drafted
<1>3. CASE pc[c] \in SavesRun /\ SaveRun(c)
  <2>1. staged' = staged \ {c} /\ c \in staged /\ resultTemp' = resultTemp
    BY <1>3, Zenon DEF SaveRun
  <2>2. \A d \in staged' : pc'[d] \notin SavesRun
    BY <1>0, <1>3, <2>1, Zenon DEF Contended
  <2> QED BY <1>0, <2>1, <2>2, Zenon DEF Drafted
<1>4. CASE pc[c] \in SavesResult /\ SaveResult(c)
  <2>1. staged' = staged \ {c} /\ c \in staged /\ runTemp' = runTemp
    BY <1>4, Zenon DEF SaveResult
  <2>2. \A d \in staged' : pc'[d] \notin SavesResult
    BY <1>0, <1>4, <2>1, Zenon DEF Contended
  <2> QED BY <1>0, <2>1, <2>2, Zenon DEF Drafted
<1> QED BY <1>1, <1>2, <1>3, <1>4, Moves, Zenon

\* A thread that has its own record in the temporary file saves that record.
LEMMA SavesOwn ==
  ASSUME NEW c \in Threads, c \in staged => Drafted(c)
  PROVE  /\ pc[c] \in SavesRun /\ SaveRun(c) => run' = mine[c] /\ result' = result
         /\ pc[c] \in SavesResult /\ SaveResult(c) => result' = held[c] /\ run' = run
BY Zenon DEF Drafted, SaveRun, SaveResult

\* As long as nothing goes wrong a running run stays attended.
LEMMA MindedStep ==
  ASSUME Typed, SavesWell, Minded, NEW c \in Threads, c \in staged => Drafted(c),
         Begin(c) \/ Step(c)
  PROVE  Minded'
<1>0. LocalsTyped /\ FilesTyped
  BY Zenon DEF Typed, TypeOK, LocalsTyped, FilesTyped
<1>k. \A d \in Threads : d # c => pc'[d] = pc[d]
  BY OthersKept, Zenon
<1> USE DEF disk, records, Goto, At
<1>1. ASSUME UNCHANGED <<run, result>>, pc[c] \in Working => pc'[c] \in Working, pc[c] # "report"
      PROVE  Minded'
  BY <1>k, <1>1, Zenon DEF Minded
<1>3. /\ \A o, b : Undo(c, o, b) => pc'[c] = "undo"
      /\ WriteRaises(c) => pc'[c] = "undo"
  BY <1>0, Zenon DEF Undo, WriteRaises, Except, LocalsTyped
<1>5. CASE Begin(c)
  BY <1>1, <1>5, Zenon DEF Begin, CreateRun, Execute, Rollback, Cancel, Call, Working
<1>6. ASSUME ExecuteGuarded(c) \/ RollbackFetch(c) PROVE Minded'
  BY <1>1, <1>6, Zenon DEF ExecuteGuarded, RollbackFetch, Working
<1>s. CASE Stage(c)
  BY <1>s, Zenon DEF Stage, Minded
<1>8. ASSUME \/ Backup(c) \/ Patch(c) \/ Check(c) \/ WriteTemp(c) \/ Replace(c) \/ Unlink(c)
             \/ Applied(c) \/ Validate(c) \/ UndoNext(c) \/ UndoEnd(c)
      PROVE  Minded'
  <2>1. UNCHANGED <<run, result>> /\ pc[c] # "report"
    BY <1>8, Zenon DEF Backup, Patch, Check, WriteTemp, Replace, Unlink, Applied, Validate, UndoNext,
       UndoEnd
  <2>2. pc'[c] \in Working
    BY <1>0, <1>3, <1>8, Zenon DEF Backup, Patch, Check, WriteTemp, Replace, Unlink, Applied, Validate,
       UndoNext, UndoEnd, Working, LocalsTyped
  <2> QED BY <1>1, <2>1, <2>2, Zenon
<1>9. ASSUME run'.status \notin {"running", "completed"} PROVE Minded'
  BY <1>9, Zenon DEF Minded
<1>10. CASE CreateRunGuarded(c)
  <2>1. run'.status \in {"ready_to_execute", "blocked"}
    BY <1>10, Blank, Zenon DEF CreateRunGuarded, RunRecord
  <2> QED BY <1>9, <2>1, Zenon
<1>r. ASSUME pc[c] \in SavesRun, SaveRun(c) PROVE run' = mine[c]
  BY <1>r, SavesOwn, Zenon
<1>12. ASSUME Block(c) \/ CancelSave(c) \/ UndoRun(c) PROVE Minded'
  <2>1. run' = mine[c]
    BY <1>r, <1>12, Zenon DEF Block, CancelSave, UndoRun, SavesRun
  <2> QED BY <1>9, <1>12, <2>1, Zenon DEF Block, CancelSave, UndoRun, SavesWell, Undoing
<1>13. CASE Start(c)
  <2>1. run' = mine[c] /\ pc[c] = "start" /\ pc'[c] = "backup"
    BY <1>0, <1>r, <1>13, Zenon DEF Start, LocalsTyped, SavesRun
  <2>2. run'.status = "running"
    BY <2>1, Zenon DEF SavesWell
  <2> QED BY <2>1, <2>2, Zenon DEF Minded, Working
<1>14. CASE Complete(c)
  <2>1. run' = mine[c] /\ pc[c] = "complete" /\ pc'[c] = "report"
    BY <1>0, <1>r, <1>14, Zenon DEF Complete, LocalsTyped, SavesRun
  <2>2. run'.status = "completed"
    BY <2>1, Zenon DEF SavesWell
  <2> QED BY <2>1, <2>2, Zenon DEF Minded
<1>15. ASSUME run' = run, result' # NoResult, pc[c] \in Working => pc'[c] \in Working
       PROVE  Minded'
  BY <1>k, <1>15, Zenon DEF Minded
<1>16. ASSUME Refuse(c) \/ Report(c) \/ ReportAgain(c) \/ UndoResult(c) PROVE Minded'
  <2>1. pc[c] \in SavesResult /\ SaveResult(c)
    BY <1>16, Zenon DEF Refuse, Report, ReportAgain, UndoResult, SavesResult
  <2>2. run' = run /\ result' = held[c]
    BY <2>1, SavesOwn, Zenon
  <2>3. held[c] # NoResult
    <3>1. Outcome("blocked", "none") # NoResult /\ Outcome("completed", "none") # NoResult
      BY DEF Outcome, NoResult
    <3> QED BY <1>16, <3>1, Zenon DEF Refuse, Report, ReportAgain, UndoResult, SavesWell
  <2>4. pc[c] \in Working => pc'[c] \in Working
    BY <1>0, <1>16, Zenon DEF Refuse, Report, ReportAgain, UndoResult, Working, LocalsTyped
  <2> QED BY <1>15, <2>2, <2>3, <2>4, Zenon
<1> QED BY <1>5, <1>6, <1>8, <1>10, <1>12, <1>13, <1>14, <1>16, <1>s, Zenon DEF Step

\* Every step keeps the run attended, or is a mishap.
LEMMA AttendedStep ==
  Typed /\ AtSave /\ SavesWell /\ Attended /\ [Next]_vars => Attended'
<1> SUFFICES ASSUME Typed, AtSave, SavesWell, Attended, [Next]_vars PROVE Attended'
  OBVIOUS
<1>1. ASSUME mishaps' = mishaps + 1 PROVE Attended'
  <2>1. mishaps' # 0
    BY <1>1 DEF Typed, TypeOK
  <2> QED BY <2>1, Zenon DEF Attended
<1>2. ASSUME NEW c \in Threads, Begin(c) \/ Step(c) PROVE Attended'
  <2>1. mishaps' = mishaps
    <3>1. Alone => mishaps' = mishaps
      BY Zenon DEF Alone
    <3>2. Begin(c) => mishaps' = mishaps
      BY Zenon DEF Begin, CreateRun, Execute, Rollback, Cancel, Call
    <3> QED BY <1>2, <3>1, <3>2, Zenon
            DEF Step, CreateRunGuarded, ExecuteGuarded, Block, Refuse, Start, Backup, Patch, Check,
                WriteTemp, Replace, Unlink, Applied, Validate, Complete, Report, RollbackFetch,
                UndoNext, UndoEnd, UndoResult, UndoRun, ReportAgain, CancelSave, Stage
  <2>2. CASE mishaps = 0 /\ ~Contended
    <3>1. Minded /\ \A d \in staged : Drafted(d)
      BY <2>2, Zenon DEF Attended
    <3>2. Minded'
      BY <1>2, <3>1, MindedStep, Zenon
    <3>3. Contended' \/ \A d \in staged' : Drafted(d)'
      BY <1>2, <2>2, <3>1, DraftedStep, Zenon
    <3> QED BY <3>2, <3>3, Zenon DEF Attended
  <2>3. CASE Contended
    BY <1>2, <2>3, ContendedStep, Zenon DEF Attended
  <2> QED BY <2>1, <2>2, <2>3, Zenon DEF Attended
<1>3. ASSUME NEW c \in Threads, Fault(c) PROVE Attended'
  BY <1>1, <1>3, Zenon DEF Fault, StartRaises, IOError, RecordError, AnswerRaises, Gone, Mishap
<1>4. ASSUME UNCHANGED patchVars PROVE Attended'
  BY <1>4, Zenon DEF patchVars, records, drafts, work, Attended, Minded, Contended, Drafted
<1> QED BY <1>1, <1>2, <1>3, <1>4, Zenon DEF Next, vars, Edit, Mishap, Crash

\* However many calls overlap, and in whatever order, they do not leave the
\* run "running", or completed without a result, when all of them have ended:
\* only a call that meets an exception, or a restart, does.
THEOREM Settled == Spec => []NoRunLeftRunning
<1>1. Init => Attended
  BY DEF Init, Attended, Minded, NoRun, Working
<1>2. Typed /\ AtSave /\ Attended => NoRunLeftRunning
  <2> SUFFICES ASSUME Typed, AtSave, Attended, mishaps = 0, \A c \in Threads : pc[c] = "idle"
               PROVE  run.status # "running" /\ (run.status = "completed" => result # NoResult)
    BY Zenon DEF NoRunLeftRunning, At
  <2>1. ~Contended
    BY Zenon DEF Contended, AtSave, SavesRun, SavesResult, Typed, TypeOK
  <2> QED BY <2>1, Zenon DEF Attended, Minded, Working
<1> QED BY TypeInit, TypeStep, AtSaveKept, SavesKept, AttendedStep, <1>1, <1>2, PTL DEF Spec
=============================================================================
