-------------------------- MODULE PatchReportProofs --------------------------
(* As long as calls of the apply service do not overlap and none is cut    *)
(* short, one thread at most is at work.  ReportInv follows it through its *)
(* call: what the engine has written and saved so far, what a rollback has *)
(* restored so far, and what the records say when nobody is at work.  The  *)
(* beginning of a call, the engine, a rollback and the errors keep it; so  *)
(* the result of an apply run is true of the files of the workspace        *)
(* (ReportIsTrue of PatchApply).                                           *)
EXTENDS PatchSafetyProofs

\* A file as the plan has found it.
Before(f) == IF f \in New THEN Nothing ELSE "original"

Untouched == \A f \in Files : content[f] = Before(f)

AllPatched == \A f \in Files : content[f] = "patched"

Restored == \A f \in Files \ New : content[f] = "original"

\* To restore these backups is to restore the files.
Restorable(b) ==
  \A f \in Files : /\ b[f] \in {Nothing, "original"}
                   /\ f \notin New /\ b[f] = Nothing => content[f] = "original"

\* What the records say of the files when no thread has begun to change them.
RecordsTrue ==
  /\ run.status \in {"none", "ready_to_execute"} => Untouched /\ run.backups = NoFiles
  /\ result.cause # "engine" => Restorable(run.backups)
  /\ result.status = "completed" => AllPatched
  /\ result.status = "failed_with_rollback" /\ result.cause # "engine" => Restored

\* Where a call has not changed anything yet.
Entering == {"guard", "block", "refuse", "cancel", "start", "fetch"}

\* A call that has just begun has a copy of the run as it is.
EntryTrue(c) ==
  pc[c] \in Entering =>
    /\ RecordsTrue
    /\ mine[c].backups = run.backups
    /\ pc[c] \in {"guard", "block", "refuse", "start"} => result = NoResult
    /\ pc[c] \in {"guard", "start"} => Untouched /\ run.backups = NoFiles
    /\ pc[c] = "cancel" => mine[c].status = "cancelled" /\ op[c] = "cancel"

Writing == {"check", "temp", "replace", "unlink"}

\* The engine has patched the files before the current one, has their backups,
\* and has not touched those after it.
Progress(c) ==
  \A i \in 1..Len(Plan) :
    /\ i < next[c] => content[Plan[i]] = "patched" /\ saved[c][Plan[i]] = Before(Plan[i])
    /\ i = next[c] =>
         /\ content[Plan[i]] = IF pc[c] = "unlink" THEN "patched" ELSE Before(Plan[i])
         /\ pc[c] # "backup" => saved[c][Plan[i]] = Before(Plan[i])
    /\ i > next[c] => content[Plan[i]] = Before(Plan[i]) /\ saved[c][Plan[i]] = Nothing

EngineTrue(c) ==
  pc[c] \in {"backup", "patch", "applied"} \/ (pc[c] \in Writing /\ ~Undoing(c)) =>
    /\ ~Undoing(c) /\ mine[c].backups = NoFiles
    /\ Progress(c)
    /\ pc[c] \in {"check", "temp", "replace"} => text[c] = "patched"

\* After the engine the run has its backups.
EndTrue(c) ==
  pc[c] \in {"validate", "complete", "report"} =>
    /\ Restorable(mine[c].backups)
    /\ Finished(c) \/ pc[c] # "validate" => AllPatched
    /\ pc[c] = "report" => run = mine[c] /\ mine[c].status = "completed"

\* The files before the k-th of the plan are restored, those of New aside.
Passed(c, k) ==
  \A i \in 1..Len(Plan) : i < k => Plan[i] \in New \/ content[Plan[i]] = "original"

\* Unless the engine has failed, the backups of the run restore the files, ...
Sound(c) == held[c].cause # "engine" => Restorable(mine[c].backups)

\* ... it is the original of a file that is being written, ...
Originals(c) ==
  held[c].cause # "engine" /\ pc[c] \in {"check", "temp", "replace"} => text[c] = "original"

\* ... and the files before the current one are restored, if nothing has failed.
Undone(c) ==
  held[c].cause # "engine" /\ mine[c].status = "rolled_back" =>
    Passed(c, IF pc[c] = "unlink" THEN next[c] + 1 ELSE next[c])

\* How far a rollback is.
UndoTrue(c) ==
  pc[c] = "undo" \/ (pc[c] \in Writing /\ Undoing(c)) =>
    (held[c] = NoResult => result = NoResult) /\ Sound(c) /\ Originals(c) /\ Undone(c)

\* What the rollback is about to report.
UndoneTrue(c) ==
  pc[c] \in {"undo_result", "undo_run", "report_again"} =>
    /\ \/ held[c].status \in {"failed_with_rollback", "rollback_failed"}
       \/ pc[c] = "undo_run" /\ held[c] = NoResult
    /\ held[c].cause # "engine" =>
         /\ Restorable(mine[c].backups)
         /\ held[c].status = "failed_with_rollback" => Restored
    /\ pc[c] # "undo_result" => result = held[c]
    /\ pc[c] = "report_again" => run = mine[c]

\* A call begins with fresh locals.
Fresh(c) ==
  pc[c] \in {"idle", "create"} \cup Entering => next[c] = 1 /\ saved[c] = NoFiles

\* What a thread has moved to its temporary file is still there.
TempTrue(c) == pc[c] = "replace" => temp[Current(c)] = text[c]

CallTrue(c) ==
  /\ Fresh(c)
  /\ EntryTrue(c) /\ EngineTrue(c) /\ EndTrue(c) /\ UndoTrue(c) /\ UndoneTrue(c) /\ TempTrue(c)

\* At most one thread is at work, and none but the creator before there is a
\* run.
OneAtWork ==
  /\ \A c, d \in Threads : pc[c] # "idle" /\ pc[d] # "idle" => c = d
  /\ run.status = "none" => run = NoRun
  /\ \A c \in Threads : pc[c] = "create" => run = NoRun
  /\ \A c \in Threads : pc[c] \notin {"idle", "create"} => run.status # "none"

ReportInv ==
  ~disturbed =>
    /\ OneAtWork
    /\ (\A c \in Threads : pc[c] \in {"idle", "create"}) => RecordsTrue
    /\ \A c \in Threads : CallTrue(c)

\* The temporary file of a record is that of the thread that has written it.
OwnDrafts == ~disturbed => \A c \in staged : Drafted(c)

(***************************************************************************)
(* One thread at a time.                                                   *)
(***************************************************************************)

\* A step is that of a thread at work.
LEMMA StepBusy ==
  ASSUME NEW c \in Threads, Step(c)
  PROVE  pc[c] # "idle"
BY Zenon DEF Step, CreateRunGuarded, ExecuteGuarded, Block, Refuse, Start, Backup, Patch, Check,
   WriteTemp, Replace, Unlink, Applied, Validate, Complete, Report, RollbackFetch, UndoNext, UndoEnd,
   UndoResult, UndoRun, ReportAgain, CancelSave, Stage, SavesRun, SavesResult, At

\* The thread of an undisturbed step is the only one at work.
LEMMA OthersIdle ==
  ASSUME Typed, ReportInv, ~disturbed', NEW c \in Threads, Begin(c) \/ Step(c) \/ Fault(c)
  PROVE  ~disturbed /\ \A d \in Threads : d # c => pc[d] = "idle"
<1>1. ASSUME Begin(c) PROVE ~disturbed /\ \A d \in Threads : d # c => pc[d] = "idle"
  <2>1. CASE CreateRun(c)
    <3>1. ~disturbed
      BY <2>1, Zenon DEF CreateRun, noted
    <3>2. run.status = "none"
      BY <2>1, Blank, Zenon DEF CreateRun
    <3> QED BY <2>1, <3>1, <3>2, Zenon DEF CreateRun, ReportInv, OneAtWork, At
  <2>2. ASSUME NEW o, Call(c, o) PROVE ~disturbed /\ \A d \in Threads : pc[d] = "idle"
    BY <2>2, Zenon DEF Call
  <2> QED BY <1>1, <2>1, <2>2, Zenon DEF Begin, Execute, Rollback, Cancel
<1>2. ASSUME Step(c) \/ Fault(c) PROVE ~disturbed /\ pc[c] # "idle"
  <2>1. ASSUME Alone PROVE ~disturbed
    BY <2>1, Zenon DEF Alone, noted
  <2>2. ASSUME Step(c) PROVE ~disturbed
    BY <2>1, <2>2, Zenon DEF Step, CreateRunGuarded, ExecuteGuarded, Block, Refuse, Start, Backup,
       Patch, Check, WriteTemp, Replace, Unlink, Applied, Validate, Complete, Report, Stage,
       RollbackFetch, UndoNext, UndoEnd, UndoResult, UndoRun, ReportAgain, CancelSave, noted
  <2>3. ASSUME Step(c) PROVE pc[c] # "idle"
    BY <2>3, StepBusy, Zenon
  <2>4. ASSUME Fault(c) PROVE ~disturbed /\ pc[c] # "idle"
    BY <2>4, Zenon DEF Fault, StartRaises, IOError, RecordError, AnswerRaises, Gone, StoreRaises,
       SavesRun, SavesResult, At
  <2> QED BY <1>2, <2>2, <2>3, <2>4, Zenon
<1> QED BY <1>1, <1>2, Zenon DEF ReportInv, OneAtWork

\* It is enough to look at the thread that has taken the step.
LEMMA Conclude ==
  ASSUME Typed, ReportInv, ~disturbed', NEW c \in Threads, Begin(c) \/ Step(c) \/ Fault(c),
         run'.status = "none" => run' = NoRun,
         pc'[c] = "create" => run' = NoRun,
         pc'[c] \notin {"idle", "create"} => run'.status # "none",
         pc'[c] \in {"idle", "create"} => RecordsTrue',
         CallTrue(c)'
  PROVE  ReportInv'
<1>1. ~disturbed /\ \A d \in Threads : d # c => pc[d] = "idle"
  BY OthersIdle, Zenon
<1>2. \A d \in Threads : d # c =>
        pc'[d] = "idle" /\ next'[d] = next[d] /\ saved'[d] = saved[d]
  BY <1>1, OthersKept, Zenon
<1>3. ASSUME NEW d \in Threads, d # c PROVE CallTrue(d)'
  <2>1. pc'[d] = "idle"
    BY <1>2, <1>3, SMTT(30)
  <2>2. Fresh(d)'
    BY <1>1, <1>2, <1>3, Zenon DEF ReportInv, CallTrue, Fresh
  <2> QED BY <2>1, <2>2, Zenon
          DEF CallTrue, EntryTrue, Entering, EngineTrue, EndTrue, UndoTrue, UndoneTrue,
              TempTrue, Writing
<1>4. OneAtWork'
  BY <1>2, Zenon DEF OneAtWork
<1> QED BY <1>3, <1>4, Zenon DEF ReportInv

\* A thread that is alone moves the temporary file that it has written.
LEMMA DraftsKept ==
  Typed /\ AtSave /\ ReportInv /\ OwnDrafts /\ [Next]_vars => OwnDrafts'
<1> SUFFICES ASSUME Typed, AtSave, ReportInv, OwnDrafts, [Next]_vars, ~disturbed' PROVE OwnDrafts'
  BY Zenon DEF OwnDrafts
<1>1. ASSUME NEW c \in Threads, Begin(c) \/ Step(c) \/ Fault(c),
             \/ staged' \subseteq staged /\ c \notin staged'
             \/ Stage(c)
      PROVE  OwnDrafts'
  <2>1. \A d \in Threads : d # c => pc[d] = "idle"
    BY <1>1, OthersIdle, Zenon
  <2>2. staged \subseteq {c}
    BY <2>1, Zenon DEF AtSave, SavesRun, SavesResult, Typed, TypeOK
  <2>3. Stage(c) => Drafted(c)'
    <3>1. pc[c] \notin SavesRun \/ pc[c] \notin SavesResult
      BY Zenon DEF SavesRun, SavesResult
    <3> QED BY <3>1, Zenon DEF Stage, Drafted, work
  <2> QED BY <1>1, <2>2, <2>3, Zenon DEF OwnDrafts, Stage
<1>2. ASSUME NEW c \in Threads, Begin(c) \/ Step(c) PROVE OwnDrafts'
  BY <1>1, <1>2, Moves, Zenon DEF drafts, SaveRun, SaveResult
<1>3. ASSUME NEW c \in Threads, Fault(c) PROVE OwnDrafts'
  <2>1. CASE IOError(c)
    <3>1. pc[c] \notin SavesRun \cup SavesResult /\ staged' = staged
      BY <2>1, Zenon DEF IOError, records, drafts, At, SavesRun, SavesResult
    <3>2. c \notin staged
      BY <3>1, Zenon DEF AtSave
    <3> QED BY <1>1, <1>3, <3>1, <3>2, Zenon
  <2>2. CASE StartRaises(c) \/ RecordError(c) \/ AnswerRaises(c) \/ Gone(c)
    <3>1. staged' = staged \ {c}
      BY <2>2, Zenon DEF StartRaises, RecordError, AnswerRaises, Gone, StoreRaises, SaveRun, SaveResult
    <3> QED BY <1>1, <1>3, <3>1, Zenon
  <2> QED BY <1>3, <2>1, <2>2, Zenon DEF Fault
<1>4. ASSUME UNCHANGED patchVars PROVE OwnDrafts'
  BY <1>4, Zenon DEF patchVars, records, drafts, work, noted, OwnDrafts, Drafted
<1>5. ASSUME NEW f \in Files, Edit(f) PROVE OwnDrafts'
  BY <1>5, Zenon DEF Edit
<1>6. CASE Crash
  BY <1>6, Zenon DEF Crash, OwnDrafts
<1> QED BY <1>2, <1>3, <1>4, <1>5, <1>6, Zenon DEF Next, vars

\* What the save of a thread that is alone saves.
LEMMA OwnSave ==
  ASSUME OwnDrafts, ~disturbed, NEW c \in Threads
  PROVE  /\ pc[c] \in SavesRun /\ SaveRun(c) => run' = mine[c] /\ result' = result
         /\ pc[c] \in SavesResult /\ SaveResult(c) => result' = held[c] /\ run' = run
<1>1. c \in staged => Drafted(c)
  BY Zenon DEF OwnDrafts
<1> QED BY <1>1, SavesOwn, Zenon

\* A call that ends leaves true records.
LEMMA Ended ==
  ASSUME Typed, ReportInv, ~disturbed', NEW c \in Threads, Begin(c) \/ Step(c) \/ Fault(c),
         Done(c), run'.status = "none" => run' = NoRun, RecordsTrue'
  PROVE  ReportInv'
<1>1. pc'[c] = "idle" /\ next'[c] = 1 /\ saved'[c] = NoFiles
  BY Zenon DEF Typed, TypeOK, Done, Goto
<1>2. CallTrue(c)'
  BY <1>1, Zenon DEF CallTrue, Fresh, EntryTrue, Entering, EngineTrue, EndTrue, UndoTrue, UndoneTrue,
     TempTrue, Writing
<1> QED BY <1>1, <1>2, Conclude, Zenon

\* A rollback begins with backups that restore the files, unless the engine
\* has raised.
LEMMA Rolling ==
  ASSUME Typed, ReportInv, ~disturbed', NEW c \in Threads, Begin(c) \/ Step(c) \/ Fault(c),
         NEW o, NEW b, Undo(c, o, b), content' = content, run'.status # "none",
         o.cause # "engine" => Restorable(b), o = NoResult => result' = NoResult
  PROVE  ReportInv'
<1>1. pc'[c] = "undo" /\ held'[c] = o /\ next'[c] = 1 /\ mine'[c].backups = b
  BY Zenon DEF Typed, TypeOK, Undo, Goto
<1>2. o.cause # "engine" => Restorable(mine[c].backups)'
  BY <1>1, Zenon DEF Restorable
<1>3. UndoTrue(c)'
  BY <1>1, <1>2, SMTT(30) DEF UndoTrue, Writing, Sound, Originals, Undone, Passed
<1>4. CallTrue(c)'
  BY <1>1, <1>3, Zenon DEF CallTrue, Fresh, EntryTrue, Entering, EngineTrue, EndTrue, UndoneTrue,
     TempTrue, Writing
<1> QED BY <1>1, <1>4, Conclude, Zenon

(***************************************************************************)
(* The beginning of a call.                                                *)
(***************************************************************************)

\* Records that are true of the files stay so when neither changes.
LEMMA RecordsKept ==
  ASSUME RecordsTrue, content' = content, run' = run, result' = result
  PROVE  RecordsTrue'
BY Zenon DEF RecordsTrue, Untouched, Restorable, AllPatched, Restored

\* A thread that enters a call.
LEMMA BeginStep ==
  ASSUME Typed, ReportInv, ~disturbed', NEW c \in Threads, Begin(c)
  PROVE  ReportInv'
<1>0. /\ pc \in [Threads -> Labels] /\ mine \in [Threads -> RunRecord] /\ run \in RunRecord
      /\ op \in [Threads -> {"none", "execute", "rollback", "cancel"}]
  BY Zenon DEF Typed, TypeOK
<1>1. /\ ~disturbed /\ pc[c] = "idle" /\ \A d \in Threads : pc[d] = "idle"
      /\ UNCHANGED <<disk, records, next, saved>>
  BY OthersIdle, Zenon DEF Begin, CreateRun, Execute, Rollback, Cancel, Call, At, work
<1>2. RecordsTrue /\ OneAtWork /\ next[c] = 1 /\ saved[c] = NoFiles
  BY <1>1, Zenon DEF ReportInv, CallTrue, Fresh
<1>3. RecordsTrue'
  BY <1>1, <1>2, RecordsKept, Zenon DEF disk, records, drafts
<1>4. CASE CreateRun(c)
  <2>1. pc'[c] = "create" /\ run = NoRun
    BY <1>0, <1>4, SMTT(30) DEF CreateRun, Goto
  <2>2. CallTrue(c)'
    BY <1>1, <1>2, <2>1, SMTT(30) DEF CallTrue, Fresh, EntryTrue, Entering, EngineTrue, EndTrue, UndoTrue,
       UndoneTrue, TempTrue, Writing
  <2> QED BY <1>1, <1>3, <2>1, <2>2, Conclude, Zenon DEF records
<1>5. ASSUME NEW o, Call(c, o) PROVE run.status # "none"
  BY <1>2, <1>5, SMTT(30) DEF Call, OneAtWork
<1>6. ASSUME pc'[c] \in Entering, EntryTrue(c)', run.status # "none" PROVE ReportInv'
  <2>1. CallTrue(c)'
    BY <1>1, <1>2, <1>6, Zenon DEF CallTrue, Fresh, Entering, EngineTrue, EndTrue, UndoTrue,
       UndoneTrue, TempTrue, Writing
  <2>2. pc'[c] \notin {"idle", "create"}
    BY <1>6, Zenon DEF Entering
  <2> QED BY <1>1, <1>6, <2>1, <2>2, Conclude, SMTT(30) DEF records
<1>7. CASE Execute(c)
  <2>1. /\ mine'[c] = run /\ result = NoResult
        /\ \/ pc'[c] = "refuse"
           \/ pc'[c] = "guard" /\ run.status = "ready_to_execute"
    BY <1>0, <1>7, SMTT(30) DEF Execute, Refused, Goto
  <2>2. run.status = "ready_to_execute" => Untouched' /\ run'.backups = NoFiles
    BY <1>1, <1>2, SMTT(30) DEF RecordsTrue, Untouched, disk, records
  <2>3. EntryTrue(c)'
    BY <1>1, <1>3, <2>1, <2>2, Zenon DEF EntryTrue, records
  <2> QED BY <1>5, <1>6, <1>7, <2>1, <2>3, Zenon DEF Execute, Entering
<1>8. CASE Rollback(c)
  <2>1. mine'[c] = run /\ pc'[c] = "fetch"
    BY <1>0, <1>8, Zenon DEF Rollback, Goto
  <2>2. EntryTrue(c)'
    BY <1>1, <1>3, <2>1, Zenon DEF EntryTrue, records
  <2> QED BY <1>5, <1>6, <1>8, <2>1, <2>2, Zenon DEF Rollback, Entering
<1>9. CASE Cancel(c)
  <2>1. mine'[c].backups = run.backups /\ mine'[c].status = "cancelled"
        /\ pc'[c] = "cancel" /\ op'[c] = "cancel"
    BY <1>0, <1>9, Zenon DEF Cancel, Call, Goto, RunRecord
  <2>2. EntryTrue(c)'
    BY <1>1, <1>3, <2>1, ZenonT(40) DEF EntryTrue, records
  <2> QED BY <1>5, <1>6, <1>9, <2>1, <2>2, Zenon DEF Cancel, Entering
<1> QED BY <1>4, <1>7, <1>8, <1>9, Zenon DEF Begin

\* The first steps of a call, before it changes a file.
LEMMA EntryStep ==
  ASSUME Typed, SavesWell, OwnDrafts, ReportInv, ~disturbed', NEW c \in Threads, Step(c), ~Stage(c),
         pc[c] \in {"create"} \cup Entering
  PROVE  ReportInv'
<1>0. /\ pc \in [Threads -> Labels] /\ mine \in [Threads -> RunRecord] /\ run \in RunRecord
      /\ mine[c] \in RunRecord
  BY Zenon DEF Typed, TypeOK
<1>1. /\ ~disturbed /\ OneAtWork /\ EntryTrue(c) /\ next[c] = 1 /\ saved[c] = NoFiles
      /\ \A d \in Threads : d # c => pc[d] = "idle"
  BY OthersIdle, Zenon DEF ReportInv, CallTrue, Fresh
<1> USE DEF At, Goto, records, drafts, disk, work
<1>2. CASE CreateRunGuarded(c)
  <2>1. RecordsTrue /\ run = NoRun
    BY <1>1, <1>2, Zenon DEF CreateRunGuarded, ReportInv, OneAtWork
  <2>2. run'.status \in {"ready_to_execute", "blocked"} /\ run'.backups = NoFiles
    BY <1>2, Blank, Zenon DEF CreateRunGuarded, RunRecord
  <2>3. Untouched /\ NoRun.backups = NoFiles
    BY <2>1, Blank, Zenon DEF RecordsTrue
  <2>4. content' = content /\ result' = result
    BY <1>2, Zenon DEF CreateRunGuarded
  <2>5. RecordsTrue'
    BY <2>1, <2>2, <2>3, <2>4, Zenon DEF RecordsTrue, Untouched, Restorable, AllPatched, Restored
  <2>6. pc'[c] = "idle" /\ next' = next /\ saved' = saved
    BY <1>0, <1>2, Zenon DEF CreateRunGuarded
  <2>7. CallTrue(c)'
    BY <1>1, <2>6, Zenon DEF CallTrue, Fresh, EntryTrue, Entering, EngineTrue, EndTrue, UndoTrue,
       UndoneTrue, TempTrue, Writing
  <2> QED BY <2>2, <2>5, <2>6, <2>7, Conclude, Zenon
<1>3. ASSUME pc[c] \in Entering
      PROVE  /\ RecordsTrue /\ run.status # "none" /\ mine[c].backups = run.backups
             /\ pc[c] \in {"guard", "block", "refuse", "start"} => result = NoResult
             /\ pc[c] \in {"guard", "start"} => Untouched /\ run.backups = NoFiles
             /\ pc[c] = "cancel" => mine[c].status = "cancelled"
  BY <1>1, <1>3, Zenon DEF EntryTrue, OneAtWork, Entering
<1>4. ASSUME pc'[c] \in Entering, EntryTrue(c)', run'.status # "none",
             next' = next, saved' = saved
      PROVE  ReportInv'
  <2>1. CallTrue(c)'
    BY <1>1, <1>4, Zenon DEF CallTrue, Fresh, Entering, EngineTrue, EndTrue, UndoTrue,
       UndoneTrue, TempTrue, Writing
  <2>2. pc'[c] \notin {"idle", "create"}
    BY <1>4, Zenon DEF Entering
  <2> QED BY <1>4, <2>1, <2>2, Conclude, ZenonT(40)
<1>5. CASE ExecuteGuarded(c)
  <2>1. /\ pc[c] = "guard" /\ pc'[c] \in {"start", "block"}
        /\ UNCHANGED <<content, run, result, next, saved>>
        /\ \E x \in {"running", "blocked"} : mine' = [mine EXCEPT ![c].status = x]
    BY <1>0, <1>5, Zenon DEF ExecuteGuarded
  <2>2. RecordsTrue' /\ Untouched'
    BY <1>3, <2>1, RecordsKept, SMTT(30) DEF Untouched, Entering
  <2>3. mine'[c].backups = mine[c].backups
    BY <1>0, <2>1, Zenon DEF RunRecord
  <2>4. EntryTrue(c)'
    BY <1>3, <2>1, <2>2, <2>3, SMTT(30) DEF EntryTrue, Entering
  <2> QED BY <1>3, <1>4, <2>1, <2>4, Zenon DEF Entering
<1>6. CASE Block(c)
  <2>1. /\ pc[c] = "block" /\ pc'[c] = "refuse"
        /\ UNCHANGED <<content, mine, next, saved>>
    BY <1>0, <1>6, Zenon DEF Block, Refused
  <2>2. run' = mine[c] /\ result' = result
    BY <1>1, <1>6, <2>1, OwnSave, Zenon DEF Block, SavesRun
  <2>3. run'.status = "blocked" /\ run'.backups = mine[c].backups
    BY <2>1, <2>2, Zenon DEF SavesWell
  <2>4. RecordsTrue'
    BY <1>3, <2>1, <2>2, <2>3, SMTT(30) DEF Entering, RecordsTrue, Restorable, AllPatched, Restored
  <2>5. EntryTrue(c)'
    BY <1>3, <2>1, <2>2, <2>3, <2>4, SMTT(30) DEF EntryTrue, Entering
  <2> QED BY <1>4, <2>1, <2>3, <2>5, Zenon DEF Entering
<1>7. CASE Refuse(c)
  <2>1. /\ pc[c] = "refuse" /\ Done(c) /\ UNCHANGED <<content, run>>
        /\ result' = Outcome("blocked", "none")
    BY <1>1, <1>7, OwnSave, Zenon DEF Refuse, SavesResult, SavesWell
  <2>2. RecordsTrue /\ result = NoResult /\ result.cause = "none"
    BY <1>3, <2>1, Blank, Zenon DEF Entering
  <2>3. result'.status = "blocked" /\ result'.cause = "none"
    BY <2>1, Zenon DEF Outcome
  <2>4. RecordsTrue'
    BY <2>1, <2>2, <2>3, Zenon DEF RecordsTrue, Untouched, Restorable
  <2> QED BY <1>1, <2>1, <2>4, Ended, Zenon DEF OneAtWork
<1>8. CASE CancelSave(c)
  <2>1. pc[c] = "cancel" /\ Done(c) /\ UNCHANGED <<content, result>> /\ run' = mine[c]
    BY <1>1, <1>8, OwnSave, Zenon DEF CancelSave, SavesRun
  <2>2. RecordsTrue /\ run'.backups = run.backups /\ run'.status = "cancelled"
    BY <1>3, <2>1, Zenon DEF Entering
  <2>3. RecordsTrue'
    BY <2>1, <2>2, SMTT(30) DEF RecordsTrue, Restorable, AllPatched, Restored
  <2> QED BY <2>1, <2>2, <2>3, Ended, Zenon
<1>9. CASE RollbackFetch(c)
  <2>1. pc[c] = "fetch" /\ Undo(c, result, mine[c].backups) /\ UNCHANGED <<content, run, result>>
    BY <1>9, Zenon DEF RollbackFetch
  <2>2. RecordsTrue /\ run.status # "none" /\ mine[c].backups = run.backups
    BY <1>3, <2>1, Zenon DEF Entering
  <2>3. result.cause # "engine" => Restorable(mine[c].backups)
    BY <2>2, Zenon DEF RecordsTrue
  <2> QED BY <2>1, <2>2, <2>3, Rolling, SMTT(30)
<1>10. CASE Start(c)
  <2>1. /\ pc[c] = "start" /\ pc'[c] = "backup" /\ UNCHANGED <<content, mine, next, saved>>
        /\ run' = mine[c]
    BY <1>0, <1>1, <1>10, OwnSave, Zenon DEF Start, SavesRun
  <2>s. run'.status = "running" /\ mine'[c].status = "running"
    BY <2>1, Zenon DEF SavesWell
  <2>2. Untouched /\ mine[c].backups = NoFiles
    BY <1>3, <2>1, Zenon DEF Entering
  <2>3. EngineTrue(c)'
    BY <1>1, <2>1, <2>2, <2>s, PlanFacts, Blank, SMTT(30) DEF EngineTrue, Progress, Untouched, Writing, Undoing
  <2>4. CallTrue(c)'
    BY <2>1, <2>3, Zenon DEF CallTrue, Fresh, EntryTrue, Entering, EndTrue, UndoTrue,
       UndoneTrue, TempTrue, Writing
  <2> QED BY <2>1, <2>4, <2>s, Conclude, Zenon
<1> QED BY <1>2, <1>5, <1>6, <1>7, <1>8, <1>9, <1>10, ZenonT(40)
       DEF Step, Entering, Backup, Patch, Check, WriteTemp, Replace, Unlink, Applied, Validate,
           Complete, Report, UndoNext, UndoEnd, UndoResult, UndoRun, ReportAgain

(***************************************************************************)
(* The engine.                                                             *)
(***************************************************************************)

\* The plan lists every file, once.
LEMMA PlanOnce ==
  /\ \A i, j \in 1..Len(Plan) : Plan[i] = Plan[j] => i = j
  /\ \A f \in Files : \E i \in 1..Len(Plan) : Plan[i] = f
BY PlanAssumption, Zenon

\* An exception of the engine makes the result one that promises nothing.
LEMMA EngineRaises ==
  ASSUME Typed, ReportInv, ~disturbed', NEW c \in Threads, Step(c) \/ Fault(c),
         Except(c, "engine"), content' = content, run'.status # "none"
  PROVE  ReportInv'
<1>1. Undo(c, Outcome("failed", "engine"), mine[c].backups)
  BY Zenon DEF Except
<1>2. Outcome("failed", "engine").cause = "engine" /\ Outcome("failed", "engine") # NoResult
  BY SMTT(30) DEF Outcome, NoResult
<1> QED BY <1>1, <1>2, Rolling, Zenon

\* The steps of the engine, write included.
LEMMA EngineStep ==
  ASSUME Typed, ReportInv, ~disturbed', NEW c \in Threads, Step(c), ~Stage(c),
         pc[c] \in {"backup", "patch", "applied"} \/ (pc[c] \in Writing /\ ~Undoing(c))
  PROVE  ReportInv'
<1>0. LocalsTyped /\ FilesTyped
  BY Zenon DEF Typed, TypeOK, LocalsTyped, FilesTyped
<1> DEFINE n == next[c]
<1>1. /\ OneAtWork /\ ~Undoing(c) /\ mine[c].backups = NoFiles /\ Progress(c)
      /\ pc[c] \in {"check", "temp", "replace"} => text[c] = "patched"
      /\ pc[c] = "replace" => temp[Current(c)] = text[c]
      /\ run.status # "none"
  BY OthersIdle, Zenon DEF ReportInv, CallTrue, EngineTrue, TempTrue, OneAtWork, Writing
<1>2. n \in 1..(Len(Plan) + 1) /\ Len(Plan) \in Nat
  BY <1>0, PlanFacts, Zenon DEF LocalsTyped
<1> USE DEF At, Goto, records, drafts, disk, work
<1>3. ASSUME pc'[c] \in {"backup", "patch", "applied"} \cup Writing, mine' = mine, run' = run,
             Progress(c)', pc'[c] \in {"check", "temp", "replace"} => text'[c] = "patched",
             pc'[c] = "replace" => (temp[Current(c)] = text[c])'
      PROVE  ReportInv'
  <2>1. EngineTrue(c)' /\ TempTrue(c)'
    BY <1>1, <1>3, Zenon DEF EngineTrue, TempTrue, Undoing
  <2>2. CallTrue(c)'
    BY <1>1, <1>3, <2>1, Zenon DEF CallTrue, Fresh, EntryTrue, Entering, EndTrue, UndoTrue, UndoneTrue,
       Writing, Undoing
  <2>3. pc'[c] \notin {"idle", "create"}
    BY <1>3, Zenon DEF Writing
  <2> QED BY <1>1, <1>3, <2>2, <2>3, Conclude, Zenon
<1>4. CASE Backup(c)
  <2>1. CASE Finished(c)
    <3>1. pc'[c] = "applied" /\ UNCHANGED <<content, run, mine, next, saved>>
      BY <1>0, <1>4, <2>1, Zenon DEF Backup, LocalsTyped
    <3>2. Progress(c)'
      BY <1>1, <1>2, <2>1, <3>1 DEF Progress, Finished
    <3> QED BY <1>3, <3>1, <3>2, Zenon DEF Writing
  <2>2. CASE ~Finished(c)
    <3>1. pc[c] = "backup" /\ pc'[c] = "patch" /\ UNCHANGED <<content, run, mine, next>>
      BY <1>0, <1>4, <2>2, Zenon DEF Backup, LocalsTyped
    <3>2. saved'[c] = [saved[c] EXCEPT ![Plan[n]] = content[Plan[n]]]
      BY <1>0, <1>4, <2>2, Zenon DEF Backup, LocalsTyped, Current
    <3>3. n \in 1..Len(Plan) /\ content[Plan[n]] = Before(Plan[n])
      BY <1>1, <1>2, <2>2, <3>1 DEF Finished, Progress
    <3>4. saved'[c][Plan[n]] = Before(Plan[n])
      BY <1>0, <3>2, <3>3, PlanFacts, Zenon DEF LocalsTyped
    <3>5. \A i \in 1..Len(Plan) : i # n => saved'[c][Plan[i]] = saved[c][Plan[i]]
      BY <1>0, <3>2, <3>3, PlanFacts, PlanOnce, Zenon DEF LocalsTyped
    <3>6. Progress(c)'
      BY <1>1, <1>2, <3>1, <3>4, <3>5, Zenon DEF Progress
    <3> QED BY <1>3, <3>1, <3>6, Zenon DEF Writing
  <2> QED BY <2>1, <2>2, Zenon
<1>5. CASE Patch(c)
  <2>1. /\ pc[c] = "patch" /\ UNCHANGED <<content, run, mine, next, saved>>
        /\ \/ pc'[c] = "check" /\ text'[c] = Updated(Current(c), content[Current(c)])
           \/ pc'[c] = "applied"
    BY <1>0, <1>5, Zenon DEF Patch, LocalsTyped
  <2>2. n \in 1..Len(Plan)
    BY <1>0, <2>1, Zenon DEF LocalsTyped, AtFile
  <2>3. content[Current(c)] = Before(Current(c))
    BY <1>1, <2>1, <2>2, Zenon DEF Progress, Current
  <2>4. Updated(Current(c), content[Current(c)]) = "patched"
    BY <2>3, Zenon DEF Updated, Before
  <2>5. Progress(c)'
    BY <1>1, <1>2, <2>1, Zenon DEF Progress
  <2> QED BY <1>3, <2>1, <2>4, <2>5, Zenon DEF Writing
<1>6. CASE Check(c)
  <2>1. CASE temp[Current(c)] = Nothing
    <3>1. pc[c] = "check" /\ pc'[c] = "temp" /\ UNCHANGED <<content, run, mine, next, saved, text>>
      BY <1>0, <1>6, <2>1, Zenon DEF Check, LocalsTyped
    <3>2. Progress(c)'
      BY <1>1, <1>2, <3>1, Zenon DEF Progress
    <3> QED BY <1>1, <1>3, <3>1, <3>2, Zenon DEF Writing
  <2>2. CASE temp[Current(c)] # Nothing
    BY <1>1, <1>6, <2>2, EngineRaises, Zenon DEF Check, WriteRaises
  <2> QED BY <2>1, <2>2, Zenon
<1>7. CASE WriteTemp(c)
  <2>1. /\ pc[c] = "temp" /\ pc'[c] = "replace" /\ UNCHANGED <<content, run, mine, next, saved, text>>
        /\ temp' = [temp EXCEPT ![Current(c)] = text[c]]
    BY <1>0, <1>7, Zenon DEF WriteTemp, LocalsTyped
  <2>2. Progress(c)'
    BY <1>1, <1>2, <2>1, Zenon DEF Progress
  <2>3. Current(c) \in Files /\ Current(c)' = Current(c)
    BY <1>0, <2>1, PlanFacts, Zenon DEF LocalsTyped, AtFile, Current
  <2>4. (temp[Current(c)] = text[c])'
    BY <1>0, <2>1, <2>3, Zenon DEF FilesTyped
  <2> QED BY <1>1, <1>3, <2>1, <2>2, <2>4, Zenon DEF Writing
<1>8. CASE Replace(c)
  <2>1. pc[c] = "replace" /\ temp[Current(c)] = "patched"
    BY <1>1, <1>8, Zenon DEF Replace
  <2>2. /\ pc'[c] = "unlink" /\ UNCHANGED <<run, mine, next, saved>>
        /\ content' = [content EXCEPT ![Plan[n]] = "patched"]
    BY <1>0, <1>8, <2>1, Zenon DEF Replace, LocalsTyped, Current, Nothing
  <2>3. n \in 1..Len(Plan)
    BY <1>0, <2>1, Zenon DEF LocalsTyped, AtFile
  <2>4. content'[Plan[n]] = "patched"
    BY <1>0, <2>2, <2>3, PlanFacts, Zenon DEF FilesTyped
  <2>5. \A i \in 1..Len(Plan) : i # n => content'[Plan[i]] = content[Plan[i]]
    BY <1>0, <2>2, <2>3, PlanFacts, PlanOnce, Zenon DEF FilesTyped
  <2>6. Progress(c)'
    BY <1>1, <1>2, <2>1, <2>2, <2>4, <2>5, Zenon DEF Progress
  <2> QED BY <1>3, <2>2, <2>6, Zenon DEF Writing
<1>9. CASE Unlink(c)
  <2>1. /\ pc[c] = "unlink" /\ pc'[c] = "backup" /\ UNCHANGED <<content, run, mine, saved>>
        /\ next'[c] = n + 1
    BY <1>0, <1>1, <1>9, Zenon DEF Unlink, LocalsTyped
  <2>2. Progress(c)'
    BY <1>1, <1>2, <2>1 DEF Progress
  <2> QED BY <1>3, <2>1, <2>2, Zenon DEF Writing
<1>10. CASE Applied(c)
  <2>1. /\ pc[c] = "applied" /\ pc'[c] = "validate" /\ UNCHANGED <<content, run, next>>
        /\ mine'[c].backups = saved[c]
    BY <1>0, <1>10, Zenon DEF Applied, LocalsTyped, RunRecord
  <2>2. ASSUME NEW f \in Files
        PROVE  /\ saved[c][f] \in {Nothing, "original"}
               /\ f \notin New /\ saved[c][f] = Nothing => content[f] = "original"
               /\ Finished(c) => content[f] = "patched"
    <3>1. PICK i \in 1..Len(Plan) : Plan[i] = f
      BY PlanOnce, Zenon
    <3>2. /\ i < n => content[f] = "patched" /\ saved[c][f] = Before(f)
          /\ i = n => content[f] = Before(f) /\ saved[c][f] = Before(f)
          /\ i > n => content[f] = Before(f) /\ saved[c][f] = Nothing
      BY <1>1, <2>1, <3>1, Zenon DEF Progress
    <3>3. /\ Before(f) \in {Nothing, "original"}
          /\ f \notin New => Before(f) = "original" /\ Before(f) # Nothing
      BY Zenon DEF Before, Nothing
    <3>4. Finished(c) => i < n
      BY <1>2 DEF Finished
    <3> HIDE DEF n
    <3>5. i < n \/ i = n \/ i > n
      BY <1>2
    <3> QED BY <3>2, <3>3, <3>4, <3>5, Zenon
  <2>3. Restorable(mine[c].backups)' /\ (Finished(c) => AllPatched)'
    BY <2>1, <2>2, Zenon DEF Restorable, AllPatched, Finished
  <2>4. CallTrue(c)'
    BY <2>1, <2>3, Zenon DEF CallTrue, Fresh, EntryTrue, Entering, EngineTrue, EndTrue, UndoTrue,
       UndoneTrue, TempTrue, Writing
  <2> QED BY <1>1, <2>1, <2>4, Conclude, Zenon
<1> QED BY <1>4, <1>5, <1>6, <1>7, <1>8, <1>9, <1>10, Zenon
       DEF Step, CreateRunGuarded, ExecuteGuarded, Block, Refuse, Start, Validate, Complete,
           Report, RollbackFetch, UndoNext, UndoEnd, UndoResult, UndoRun, ReportAgain,
           CancelSave, Writing

(***************************************************************************)
(* Validation and the end of execute().                                    *)
(***************************************************************************)

\* The steps from the validation to the report.
LEMMA EndStep ==
  ASSUME Typed, SavesWell, OwnDrafts, ReportInv, ~disturbed', NEW c \in Threads, Step(c), ~Stage(c),
         pc[c] \in {"validate", "complete", "report"}
  PROVE  ReportInv'
<1>0. LocalsTyped /\ FilesTyped
  BY Zenon DEF Typed, TypeOK, LocalsTyped, FilesTyped
<1>1. /\ ~disturbed /\ Restorable(mine[c].backups) /\ run.status # "none"
      /\ Finished(c) \/ pc[c] # "validate" => AllPatched
      /\ pc[c] = "report" => run = mine[c] /\ mine[c].status = "completed"
  BY OthersIdle, Zenon DEF ReportInv, CallTrue, EndTrue, OneAtWork
<1> USE DEF At, Goto, records, drafts, disk, work
<1>2. ASSUME pc'[c] \in {"complete", "report"}, content' = content, AllPatched,
             mine'[c].backups = mine[c].backups, run'.status # "none",
             pc'[c] = "report" => run' = mine'[c] /\ mine'[c].status = "completed"
      PROVE  ReportInv'
  <2>1. Restorable(mine[c].backups)' /\ AllPatched'
    BY <1>1, <1>2, Zenon DEF Restorable, AllPatched
  <2>2. CallTrue(c)'
    BY <1>2, <2>1, Zenon DEF CallTrue, Fresh, EntryTrue, Entering, EngineTrue, EndTrue, UndoTrue,
       UndoneTrue, TempTrue, Writing
  <2> QED BY <1>2, <2>2, Conclude, Zenon
<1>3. CASE Validate(c)
  <2>1. pc[c] = "validate" /\ UNCHANGED <<content, run, result>>
    BY <1>3, Zenon DEF Validate
  <2>2. CASE Undo(c, Outcome("failed", "none"), mine[c].backups)
    <3>1. Outcome("failed", "none") # NoResult
      BY Zenon DEF Outcome, NoResult
    <3> QED BY <1>1, <2>1, <2>2, <3>1, Rolling, Zenon
  <2>3. CASE Passes(c) /\ Goto(c, "complete") /\ mine' = [mine EXCEPT ![c].status = "completed"]
    <3>1. pc'[c] = "complete" /\ mine'[c].backups = mine[c].backups
      BY <1>0, <2>3, Zenon DEF LocalsTyped, RunRecord
    <3> QED BY <1>1, <1>2, <2>1, <2>3, <3>1, Zenon DEF Passes
  <2> QED BY <1>3, <2>2, <2>3, Zenon DEF Validate
<1>4. CASE Complete(c)
  <2>1. pc[c] = "complete" /\ pc'[c] = "report" /\ UNCHANGED <<content, mine>> /\ run' = mine[c]
    BY <1>0, <1>1, <1>4, OwnSave, Zenon DEF Complete, LocalsTyped, SavesRun
  <2>2. mine[c].status = "completed"
    BY <2>1, Zenon DEF SavesWell
  <2> QED BY <1>1, <1>2, <2>1, <2>2, Zenon
<1>5. CASE Report(c)
  <2>1. /\ pc[c] = "report" /\ UNCHANGED <<content, run>> /\ Done(c)
        /\ result' = Outcome("completed", "none")
    BY <1>1, <1>5, OwnSave, Zenon DEF Report, SavesResult, SavesWell
  <2>2. run' = run /\ run.status = "completed" /\ Restorable(run.backups) /\ AllPatched
    BY <1>1, <2>1, Zenon
  <2>3. RecordsTrue'
    BY <2>1, <2>2, Zenon DEF RecordsTrue, Restorable, AllPatched, Outcome
  <2> QED BY <1>1, <2>1, <2>3, Ended, Zenon
<1> QED BY <1>3, <1>4, <1>5, ZenonT(40)
       DEF Step, CreateRunGuarded, ExecuteGuarded, Block, Refuse, Start, Backup, Patch, Check,
           WriteTemp, Replace, Unlink, Applied, RollbackFetch, UndoNext, UndoEnd, UndoResult,
           UndoRun, ReportAgain, CancelSave

(***************************************************************************)
(* The rollback.                                                           *)
(***************************************************************************)

\* The steps of a rollback over the files.
LEMMA UndoStep ==
  ASSUME Typed, SavesWell, ReportInv, ~disturbed', NEW c \in Threads, Step(c), ~Stage(c),
         pc[c] = "undo" \/ (pc[c] \in Writing /\ Undoing(c))
  PROVE  ReportInv'
<1>0. LocalsTyped /\ FilesTyped
  BY Zenon DEF Typed, TypeOK, LocalsTyped, FilesTyped
<1> DEFINE n == next[c]
<1>1. /\ run.status # "none" /\ Undoing(c)
      /\ held[c] = NoResult => result = NoResult
      /\ Sound(c) /\ Originals(c) /\ Undone(c) /\ TempTrue(c)
  <2>1. UndoTrue(c) /\ TempTrue(c) /\ run.status # "none"
    BY OthersIdle, Zenon DEF ReportInv, CallTrue, OneAtWork, Writing
  <2>2. Undoing(c)
    BY Zenon DEF SavesWell
  <2> QED BY <2>1, <2>2, Zenon DEF UndoTrue
<1>2. n \in 1..(Len(Plan) + 1) /\ Len(Plan) \in Nat
  BY <1>0, PlanFacts, Zenon DEF LocalsTyped
<1>3. ASSUME pc'[c] \in {"undo"} \cup Writing, Undoing(c)', UNCHANGED <<run, result, held>>,
             Sound(c)', Originals(c)', Undone(c)', TempTrue(c)'
      PROVE  ReportInv'
  <2>1. UndoTrue(c)'
    BY <1>1, <1>3, Zenon DEF UndoTrue
  <2>2. CallTrue(c)'
    BY <1>3, <2>1, Zenon DEF CallTrue, Fresh, EntryTrue, Entering, EngineTrue, EndTrue, UndoneTrue,
       Writing
  <2>3. pc'[c] \notin {"idle", "create"}
    BY <1>3, Zenon DEF Writing
  <2> QED BY <1>1, <1>3, <2>2, <2>3, Conclude, Zenon
<1>4. ASSUME WriteRaises(c), UNCHANGED <<content, run, result>> PROVE ReportInv'
  <2>1. /\ mine'[c].status = "rollback_failed" /\ mine'[c].backups = mine[c].backups
        /\ pc'[c] = "undo" /\ held' = held
    BY <1>0, <1>1, <1>4 DEF WriteRaises, LocalsTyped, RunRecord, Goto
  <2>2. Sound(c)'
    BY <1>1, <1>4, <2>1, Zenon DEF Sound, Restorable
  <2>3. Undoing(c)'
    BY <2>1, Zenon DEF Undoing
  <2>4. Originals(c)' /\ Undone(c)' /\ TempTrue(c)'
    BY <2>1, Zenon DEF Originals, Undone, TempTrue
  <2> QED BY <1>3, <1>4, <2>1, <2>2, <2>3, <2>4, Zenon
<1> USE DEF At, Goto, records, drafts, disk, work
<1>5. ASSUME UNCHANGED <<content, mine, held>> PROVE Undoing(c)' /\ Sound(c)'
  BY <1>1, <1>5, Zenon DEF Undoing, Sound, Restorable
<1>6. ASSUME UNCHANGED <<content, mine, held, next>>, pc[c] # "unlink", pc'[c] # "unlink"
      PROVE  Undone(c)'
  BY <1>1, <1>6, Zenon DEF Undone, Passed
<1>7. CASE UndoNext(c)
  <2>1. pc[c] = "undo" /\ pc'[c] = "check" /\ UNCHANGED <<content, run, result, mine, held>>
    BY <1>0, <1>7, Zenon DEF UndoNext, LocalsTyped
  <2>2. PICK i \in n..Len(Plan) :
          /\ mine[c].backups[Plan[i]] # Nothing
          /\ \A j \in n..Len(Plan) : mine[c].backups[Plan[j]] # Nothing => i <= j
          /\ next'[c] = i /\ text'[c] = mine[c].backups[Plan[i]]
    BY <1>0, <1>7, Zenon DEF UndoNext, LocalsTyped
  <2>3. i \in 1..Len(Plan) /\ Plan[i] \in Files
    BY <1>2, <2>2, PlanFacts
  <2>4. Originals(c)'
    BY <1>1, <2>1, <2>2, <2>3, Zenon DEF Originals, Sound, Restorable
  <2>5. ASSUME held[c].cause # "engine", mine[c].status = "rolled_back",
               NEW j \in 1..Len(Plan), j < i
        PROVE  Plan[j] \in New \/ content[Plan[j]] = "original"
    <3>1. CASE j < n
      BY <1>1, <2>1, <2>5, <3>1, Zenon DEF Undone, Passed
    <3>2. CASE j >= n
      <4>1. mine[c].backups[Plan[j]] = Nothing
        BY <1>2, <2>2, <2>3, <2>5, <3>2
      <4> QED BY <1>1, <2>5, <4>1, PlanFacts, Zenon DEF Sound, Restorable
    <3> QED BY <1>2, <2>5, <3>1, <3>2
  <2>6. Undone(c)'
    BY <2>1, <2>2, <2>5, Zenon DEF Undone, Passed
  <2>7. TempTrue(c)' /\ pc'[c] \in Writing
    BY <2>1, Zenon DEF TempTrue, Writing
  <2> QED BY <1>3, <1>5, <2>1, <2>4, <2>6, <2>7, Zenon
<1>8. CASE Check(c)
  <2>1. CASE temp[Current(c)] = Nothing
    <3>1. /\ pc[c] = "check" /\ pc'[c] = "temp"
          /\ UNCHANGED <<content, run, result, mine, held, next, text>>
      BY <1>0, <1>8, <2>1, Zenon DEF Check, LocalsTyped
    <3>2. Originals(c)' /\ TempTrue(c)' /\ pc'[c] \in Writing
      BY <1>1, <3>1, Zenon DEF Originals, TempTrue, Writing
    <3>3. Undone(c)'
      BY <1>6, <3>1, Zenon
    <3> QED BY <1>3, <1>5, <3>1, <3>2, <3>3, Zenon
  <2>2. CASE temp[Current(c)] # Nothing
    BY <1>4, <1>8, <2>2, Zenon DEF Check
  <2> QED BY <2>1, <2>2, Zenon
<1>9. CASE WriteTemp(c)
  <2>1. /\ pc[c] = "temp" /\ pc'[c] = "replace"
        /\ UNCHANGED <<content, run, result, mine, held, next, text>>
        /\ temp' = [temp EXCEPT ![Current(c)] = text[c]]
    BY <1>0, <1>9, Zenon DEF WriteTemp, LocalsTyped
  <2>2. Undone(c)'
    BY <1>6, <2>1, Zenon
  <2>3. Current(c) \in Files /\ Current(c)' = Current(c)
    BY <1>0, <2>1, PlanFacts, Zenon DEF LocalsTyped, AtFile, Current
  <2>4. TempTrue(c)'
    BY <1>0, <2>1, <2>3, Zenon DEF FilesTyped, TempTrue
  <2>5. Originals(c)' /\ pc'[c] \in Writing
    BY <1>1, <2>1, Zenon DEF Originals, Writing
  <2> QED BY <1>3, <1>5, <2>1, <2>2, <2>4, <2>5, Zenon
<1>10. CASE Replace(c)
  <2>1. CASE temp[Current(c)] = Nothing
    BY <1>4, <1>10, <2>1, Zenon DEF Replace
  <2>2. CASE temp[Current(c)] # Nothing
    <3>1. /\ pc[c] = "replace" /\ pc'[c] = "unlink"
          /\ UNCHANGED <<run, result, mine, held, next>>
          /\ content' = [content EXCEPT ![Plan[n]] = text[c]]
      <4>1. temp[Current(c)] = text[c]
        BY <1>1, <1>10, Zenon DEF TempTrue, Replace
      <4> QED BY <1>0, <1>10, <2>2, <4>1, Zenon DEF Replace, LocalsTyped, Current
    <3>2. n \in 1..Len(Plan) /\ Plan[n] \in Files
      BY <1>0, <3>1, PlanFacts, Zenon DEF LocalsTyped, AtFile
    <3>3. held[c].cause # "engine" =>
            /\ content'[Plan[n]] = "original"
            /\ \A f \in Files : content'[f] \in {content[f], "original"}
      <4>1. held[c].cause # "engine" => text[c] = "original"
        BY <1>1, <3>1, Zenon DEF Originals
      <4> QED BY <1>0, <3>1, <3>2, <4>1, Zenon DEF FilesTyped
    <3>4. Sound(c)'
      BY <1>1, <3>1, <3>3, Zenon DEF Sound, Restorable
    <3>5. ASSUME held[c].cause # "engine", mine[c].status = "rolled_back",
                 NEW j \in 1..Len(Plan), j < n + 1
          PROVE  Plan[j] \in New \/ content'[Plan[j]] = "original"
      <4>1. CASE j = n
        BY <3>3, <3>5, <4>1, Zenon
      <4>2. CASE j < n
        <5>1. Plan[j] \in New \/ content[Plan[j]] = "original"
          BY <1>1, <3>1, <3>5, <4>2, Zenon DEF Undone, Passed
        <5> QED BY <3>3, <3>5, <5>1, PlanFacts, Zenon
      <4> QED BY <3>2, <3>5, <4>1, <4>2
    <3>6. Undone(c)'
      BY <3>1, <3>5, Zenon DEF Undone, Passed
    <3>7. Undoing(c)' /\ Originals(c)' /\ TempTrue(c)' /\ pc'[c] \in Writing
      BY <1>1, <3>1, Zenon DEF Undoing, Originals, TempTrue, Writing
    <3> QED BY <1>3, <3>1, <3>4, <3>6, <3>7, Zenon
  <2> QED BY <2>1, <2>2, Zenon
<1>11. CASE Unlink(c)
  <2>1. /\ pc[c] = "unlink" /\ pc'[c] = "undo" /\ next'[c] = n + 1
        /\ UNCHANGED <<content, run, result, mine, held>>
    BY <1>0, <1>1, <1>11, Zenon DEF Unlink, LocalsTyped
  <2>2. Undone(c)'
    BY <1>1, <2>1, Zenon DEF Undone, Passed
  <2>3. Originals(c)' /\ TempTrue(c)'
    BY <2>1, Zenon DEF Originals, TempTrue
  <2> QED BY <1>3, <1>5, <2>1, <2>2, <2>3, Zenon
<1>12. CASE UndoEnd(c)
  <2>1. pc[c] = "undo" /\ UNCHANGED <<content, run, result, mine>>
    BY <1>12, Zenon DEF UndoEnd
  <2>2. ASSUME held[c].cause # "engine", mine[c].status = "rolled_back", NEW f \in Files \ New
        PROVE  content[f] = "original"
    <3>1. PICK i \in 1..Len(Plan) : Plan[i] = f
      BY PlanOnce, Zenon
    <3>2. CASE i < n
      BY <1>1, <2>1, <2>2, <3>1, <3>2, Zenon DEF Undone, Passed
    <3>3. CASE i >= n
      <4>1. mine[c].backups[f] = Nothing
        BY <1>2, <1>12, <3>1, <3>3 DEF UndoEnd
      <4> QED BY <1>1, <2>2, <4>1, Zenon DEF Sound, Restorable
    <3> QED BY <1>2, <3>2, <3>3
  <2>3. held[c].cause # "engine" /\ mine[c].status = "rolled_back" => Restored'
    BY <2>1, <2>2, Zenon DEF Restored
  <2>4. held[c].cause # "engine" => Restorable(mine[c].backups)'
    BY <1>1, <2>1, Zenon DEF Sound, Restorable
  <2>5. CASE held[c] = NoResult
    <3>1. pc'[c] = "undo_run" /\ held' = held
      BY <1>0, <2>5, <1>12, Zenon DEF UndoEnd, LocalsTyped
    <3>2. UndoneTrue(c)'
      BY <1>1, <2>1, <2>4, <2>5, <3>1, Blank, Zenon DEF UndoneTrue
    <3>3. CallTrue(c)'
      BY <3>1, <3>2, Zenon DEF CallTrue, Fresh, EntryTrue, Entering, EngineTrue, EndTrue, UndoTrue,
         TempTrue, Writing
    <3> QED BY <1>1, <2>1, <3>1, <3>3, Conclude, Zenon
  <2>6. CASE held[c] # NoResult
    <3>1. /\ pc'[c] = "undo_result" /\ held'[c].cause = held[c].cause
          /\ held'[c].status = IF mine[c].status = "rolled_back" THEN "failed_with_rollback"
                               ELSE "rollback_failed"
      BY <1>0, <2>6, <1>12 DEF UndoEnd, LocalsTyped, ResultRecord
    <3>2. UndoneTrue(c)'
      BY <2>1, <2>3, <2>4, <3>1, Zenon DEF UndoneTrue
    <3>3. CallTrue(c)'
      BY <3>1, <3>2, Zenon DEF CallTrue, Fresh, EntryTrue, Entering, EngineTrue, EndTrue, UndoTrue,
         TempTrue, Writing
    <3> QED BY <1>1, <2>1, <3>1, <3>3, Conclude, Zenon
  <2> QED BY <2>5, <2>6, Zenon
<1> QED BY <1>7, <1>8, <1>9, <1>10, <1>11, <1>12, ZenonT(40)
       DEF Step, CreateRunGuarded, ExecuteGuarded, Block, Refuse, Start, Backup, Patch, Applied,
           Validate, Complete, Report, RollbackFetch, UndoResult, UndoRun, ReportAgain,
           CancelSave, Writing

\* The records that a rollback saves.
LEMMA UndoneStep ==
  ASSUME Typed, SavesWell, OwnDrafts, ReportInv, ~disturbed', NEW c \in Threads, Step(c), ~Stage(c),
         pc[c] \in {"undo_result", "undo_run", "report_again"}
  PROVE  ReportInv'
<1>0. LocalsTyped /\ FilesTyped
  BY Zenon DEF Typed, TypeOK, LocalsTyped, FilesTyped
<1>1. /\ ~disturbed /\ run.status # "none" /\ Undoing(c)
      /\ \/ held[c].status \in {"failed_with_rollback", "rollback_failed"}
         \/ pc[c] = "undo_run" /\ held[c] = NoResult
      /\ held[c].cause # "engine" =>
           /\ Restorable(mine[c].backups)
           /\ held[c].status = "failed_with_rollback" => Restored
      /\ pc[c] # "undo_result" => result = held[c]
      /\ pc[c] = "report_again" => run = mine[c]
  BY OthersIdle, Zenon DEF ReportInv, CallTrue, UndoneTrue, OneAtWork, SavesWell
<1> USE DEF At, Goto, records, drafts, disk, work
<1>2. ASSUME pc'[c] \in {"undo_run", "report_again"}, UNCHANGED <<content, mine, held>>,
             held[c] # NoResult, result' = held[c], pc'[c] = "report_again" => run' = mine[c],
             run'.status # "none"
      PROVE  ReportInv'
  <2>1. UndoneTrue(c)'
    BY <1>1, <1>2, Zenon DEF UndoneTrue, Restorable, Restored
  <2>2. CallTrue(c)'
    BY <1>2, <2>1, Zenon DEF CallTrue, Fresh, EntryTrue, Entering, EngineTrue, EndTrue, UndoTrue,
       TempTrue, Writing
  <2> QED BY <1>2, <2>2, Conclude, Zenon
<1>3. ASSUME Done(c), content' = content, run' = mine[c], result' = held[c]
      PROVE  ReportInv'
  <2>1. run'.status \in {"rolled_back", "rollback_failed"}
    BY <1>1, <1>3, Zenon DEF Undoing
  <2>2. result'.status \in {"failed_with_rollback", "rollback_failed", "none"}
    BY <1>1, <1>3, Blank, Zenon
  <2>3. RecordsTrue'
    BY <1>1, <1>3, <2>1, <2>2, Zenon DEF RecordsTrue, Restorable, Restored
  <2> QED BY <1>3, <2>1, <2>3, Ended, Zenon
<1>4. CASE UndoResult(c)
  <2>1. /\ pc[c] = "undo_result" /\ pc'[c] = "undo_run" /\ result' = held[c]
        /\ UNCHANGED <<content, run, mine, held>>
    BY <1>0, <1>1, <1>4, OwnSave, Zenon DEF UndoResult, LocalsTyped, SavesResult
  <2>2. held[c] # NoResult
    BY <2>1, Zenon DEF SavesWell
  <2> QED BY <1>1, <1>2, <2>1, <2>2, Zenon
<1>5. CASE UndoRun(c)
  <2>1. pc[c] = "undo_run" /\ UNCHANGED <<content, result>> /\ run' = mine[c]
    BY <1>1, <1>5, OwnSave, Zenon DEF UndoRun, SavesRun
  <2>2. CASE InExcept(c)
    <3>1. pc'[c] = "report_again" /\ UNCHANGED <<mine, held>>
      BY <1>0, <1>5, <2>2, Zenon DEF UndoRun, LocalsTyped
    <3>2. held[c] # NoResult
      BY <2>2, Blank, Zenon DEF InExcept
    <3>3. run'.status # "none"
      BY <1>1, <2>1, Zenon DEF Undoing
    <3> QED BY <1>1, <1>2, <2>1, <3>1, <3>2, <3>3, Zenon
  <2>3. CASE ~InExcept(c)
    BY <1>1, <1>3, <1>5, <2>1, <2>3, Zenon DEF UndoRun
  <2> QED BY <2>2, <2>3, Zenon
<1>6. CASE ReportAgain(c)
  <2>1. pc[c] = "report_again" /\ Done(c) /\ content' = content /\ run' = run /\ result' = held[c]
    BY <1>1, <1>6, OwnSave, Zenon DEF ReportAgain, SavesResult
  <2> QED BY <1>1, <1>3, <2>1, Zenon
<1> QED BY <1>4, <1>5, <1>6, ZenonT(40)
       DEF Step, CreateRunGuarded, ExecuteGuarded, Block, Refuse, Start, Backup, Patch, Check,
           WriteTemp, Replace, Unlink, Applied, Validate, Complete, Report, RollbackFetch,
           UndoNext, UndoEnd, CancelSave

(***************************************************************************)
(* Errors.                                                                 *)
(***************************************************************************)

\* An error that does not cut the call short leads to the rollback.
LEMMA FaultStep ==
  ASSUME Typed, SavesWell, OwnDrafts, ReportInv, ~disturbed', NEW c \in Threads, Fault(c)
  PROVE  ReportInv'
<1>0. LocalsTyped /\ FilesTyped
  BY Zenon DEF Typed, TypeOK, LocalsTyped, FilesTyped
<1>1. ~disturbed /\ CallTrue(c) /\ OneAtWork
  BY OthersIdle, Zenon DEF ReportInv
<1> USE DEF At, Goto, records, drafts, disk, work
<1>2. ASSUME Except(c, "later"), content' = content, run'.status # "none",
             Restorable(mine[c].backups)
      PROVE  ReportInv'
  <2>1. Undo(c, Outcome("failed", "later"), mine[c].backups)
    BY <1>2, Zenon DEF Except
  <2>2. Outcome("failed", "later") # NoResult
    BY Zenon DEF Outcome, NoResult
  <2> QED BY <1>2, <2>1, <2>2, Rolling, Zenon
<1>3. ASSUME pc[c] \notin {"idle", "create"} PROVE run.status # "none"
  BY <1>1, <1>3, Zenon DEF OneAtWork
<1>4. CASE StartRaises(c)
  BY <1>4, Zenon DEF StartRaises
<1>5. CASE IOError(c)
  <2>1. pc[c] \in {"backup", "patch"} \cup Writing /\ UNCHANGED <<content, run, result>>
    BY <1>5, Zenon DEF IOError, Writing
  <2>2. run.status # "none"
    BY <1>3, <2>1, Zenon DEF Writing
  <2>3. CASE Except(c, "engine")
    BY <2>1, <2>2, <2>3, EngineRaises, Zenon
  <2>4. CASE WriteRaises(c) /\ ~Undoing(c)
    BY <2>1, <2>2, <2>4, EngineRaises, Zenon DEF WriteRaises
  <2>5. CASE WriteRaises(c) /\ Undoing(c) /\ pc[c] \in Writing
    <3>1. /\ mine'[c].status = "rollback_failed" /\ mine'[c].backups = mine[c].backups
          /\ pc'[c] = "undo" /\ held' = held
      BY <1>0, <2>5 DEF WriteRaises, LocalsTyped, RunRecord
    <3>2. UndoTrue(c)
      BY <1>1, Zenon DEF CallTrue
    <3>3. UndoTrue(c)'
      BY <2>1, <2>5, <3>1, <3>2, Zenon DEF UndoTrue, Sound, Originals, Undone, Restorable, Writing
    <3>4. CallTrue(c)'
      BY <3>1, <3>3, Zenon DEF CallTrue, Fresh, EntryTrue, Entering, EngineTrue, EndTrue, UndoneTrue,
         TempTrue, Writing
    <3> QED BY <2>1, <2>2, <3>1, <3>4, Conclude, Zenon
  <2> QED BY <1>5, <2>3, <2>4, <2>5, Zenon DEF IOError, Writing
<1>6. ASSUME \/ pc[c] \in {"validate", "complete", "report"}
             \/ /\ pc[c] \in {"undo", "undo_result", "undo_run", "report_again"}
                /\ held[c].cause # "engine"
      PROVE  Restorable(mine[c].backups) /\ run.status # "none"
  BY <1>1, <1>3, <1>6, Zenon DEF CallTrue, EndTrue, UndoTrue, Sound, UndoneTrue
<1>7. CASE RecordError(c) \/ Gone(c)
  <2>1. /\ Except(c, "later") /\ ~InExcept(c) /\ op[c] = "execute" /\ UNCHANGED <<content, run>>
        /\ pc[c] \in {"cancel", "validate", "complete", "report", "undo", "undo_result",
                      "undo_run", "report_again"}
    BY <1>7, Zenon DEF RecordError, Gone, StoreRaises, SavesRun, SavesResult
  <2>2. held[c].cause = "none"
    BY <2>1, Zenon DEF InExcept
  <2>3. pc[c] # "cancel"
    BY <1>1, <2>1, Zenon DEF CallTrue, EntryTrue, Entering
  <2> QED BY <1>2, <1>6, <2>1, <2>2, <2>3, Zenon
<1>8. CASE AnswerRaises(c)
  <2>1. /\ Except(c, "later") /\ op[c] = "execute" /\ UNCHANGED content
        /\ \/ pc[c] = "report" /\ run' = run
           \/ pc[c] = "undo_run" /\ ~InExcept(c) /\ run' = mine[c]
    BY <1>1, <1>8, OwnSave, Zenon DEF AnswerRaises, SavesRun, SavesResult
  <2>2. pc[c] = "undo_run" => held[c].cause = "none" /\ mine[c].status # "none"
    BY <2>1, Zenon DEF InExcept, SavesWell, Undoing
  <2> QED BY <1>2, <1>6, <2>1, <2>2, Zenon
<1> QED BY <1>4, <1>5, <1>7, <1>8, Zenon DEF Fault

(***************************************************************************)
(* The theorem.                                                            *)
(***************************************************************************)

\* At first nothing is touched, and nobody is at work.
LEMMA ReportInit == Init => ReportInv
<1> SUFFICES ASSUME Init PROVE ReportInv
  OBVIOUS
<1>1. /\ run = NoRun /\ result = NoResult /\ Untouched
      /\ \A c \in Threads : pc[c] = "idle" /\ next[c] = 1 /\ saved[c] = NoFiles
  BY Zenon DEF Init, Untouched, Before
<1>2. RecordsTrue
  BY <1>1, Blank, Zenon DEF RecordsTrue, Untouched, Before, Restorable
<1>3. ASSUME NEW c \in Threads PROVE CallTrue(c)
  BY <1>1, Zenon DEF CallTrue, Fresh, EntryTrue, Entering, EngineTrue, EndTrue, UndoTrue, UndoneTrue,
     TempTrue, Writing
<1> QED BY <1>1, <1>2, <1>3, Zenon DEF ReportInv, OneAtWork

\* Every step keeps the records and the locals true of the files.
LEMMA ReportStep == Typed /\ SavesWell /\ OwnDrafts /\ ReportInv /\ [Next]_vars => ReportInv'
<1> SUFFICES ASSUME Typed, SavesWell, OwnDrafts, ReportInv, [Next]_vars, ~disturbed' PROVE ReportInv'
  BY Zenon DEF ReportInv
<1>1. ASSUME NEW c \in Threads, Begin(c) PROVE ReportInv'
  BY <1>1, BeginStep, Zenon
<1>2. ASSUME NEW c \in Threads, Fault(c) PROVE ReportInv'
  BY <1>2, FaultStep, Zenon
<1>3. ASSUME NEW c \in Threads, Step(c), ~Stage(c) PROVE ReportInv'
  <2>1. pc[c] \in Labels \ {"idle"}
    BY <1>3, StepBusy, ZenonT(40) DEF Typed, TypeOK
  <2> QED BY <1>3, <2>1, EntryStep, EngineStep, EndStep, UndoStep, UndoneStep, Zenon
          DEF Labels, Entering, Writing
<1>4. ASSUME UNCHANGED <<disk, run, result, pc, op, work, disturbed>> PROVE ReportInv'
  <2> USE <1>4 DEF disk, work
  <2>1. RecordsTrue => RecordsTrue'
    BY RecordsKept, Zenon
  <2>2. ASSUME NEW c \in Threads, CallTrue(c) PROVE CallTrue(c)'
    <3>1. Fresh(c)' /\ TempTrue(c)'
      BY <2>2, Zenon DEF CallTrue, Fresh, TempTrue, Current
    <3>2. EntryTrue(c)'
      BY <2>1, <2>2, Zenon DEF CallTrue, EntryTrue, Untouched
    <3>3. EngineTrue(c)'
      BY <2>2, Zenon DEF CallTrue, EngineTrue, Progress, Undoing
    <3>4. EndTrue(c)'
      BY <2>2, Zenon DEF CallTrue, EndTrue, Restorable, Finished, AllPatched
    <3>5. UndoTrue(c)'
      BY <2>2, Zenon DEF CallTrue, UndoTrue, Sound, Restorable, Originals, Undone, Passed, Undoing
    <3>6. UndoneTrue(c)'
      BY <2>2, Zenon DEF CallTrue, UndoneTrue, Restorable, Restored
    <3> QED BY <3>1, <3>2, <3>3, <3>4, <3>5, <3>6, Zenon DEF CallTrue
  <2> QED BY <2>1, <2>2, Zenon DEF ReportInv, OneAtWork
<1>5. ASSUME NEW f \in Files, Edit(f) PROVE ReportInv'
  BY <1>5, Zenon DEF Edit
<1>6. CASE Crash
  <2>1. /\ ~disturbed /\ \A c \in Threads : pc[c] = "idle"
        /\ UNCHANGED <<content, run, result>>
        /\ \A c \in Threads : pc'[c] = "idle" /\ next'[c] = 1 /\ saved'[c] = NoFiles
    BY <1>6, Zenon DEF Crash, disk, records
  <2>2. RecordsTrue' /\ OneAtWork'
    BY <2>1, RecordsKept, Zenon DEF ReportInv, OneAtWork
  <2>3. ASSUME NEW c \in Threads PROVE CallTrue(c)'
    BY <2>1, Zenon DEF CallTrue, Fresh, EntryTrue, Entering, EngineTrue, EndTrue, UndoTrue,
       UndoneTrue, TempTrue, Writing
  <2> QED BY <2>2, <2>3, Zenon DEF ReportInv
<1>7. ASSUME NEW c \in Threads, Stage(c) PROVE ReportInv'
  BY <1>4, <1>7, Zenon DEF Stage, Alone, noted
<1> QED BY <1>1, <1>2, <1>3, <1>4, <1>5, <1>6, <1>7, Zenon DEF Next, vars, patchVars, records, noted

\* The result of an apply run is true of the files once the calls have ended,
\* for any plan that lists each file once, as long as calls do not overlap,
\* none is cut short and nobody else edits the files.
THEOREM ReportTrue == Spec => []ReportIsTrue
<1>1. ReportInv => ReportIsTrue
  BY Zenon DEF ReportInv, RecordsTrue, AllPatched, Restored, ReportIsTrue, At
<1>2. Init => OwnDrafts
  BY Zenon DEF Init, OwnDrafts
<1> QED BY TypeInit, TypeStep, AtSaveKept, SavesKept, ReportInit, ReportStep, DraftsKept, <1>1, <1>2, PTL
       DEF Spec
==============================================================================
