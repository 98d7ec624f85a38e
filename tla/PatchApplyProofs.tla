-------------------------- MODULE PatchApplyProofs --------------------------
(* Type correctness of PatchApply, composed with Approvals, and that a     *)
(* decision on the approval stands, for any threads, callers, files and    *)
(* plan.                                                                   *)
EXTENDS PatchApply, TLAPS

\* A thread that is at a file is at a position of the plan.
AtFile == \A c \in Threads :
  pc[c] \in {"patch", "check", "temp", "replace", "unlink"} => next[c] \in 1..Len(Plan)

Typed == TypeOK /\ AtFile

\* The part of Typed that is about what a thread holds in memory.
LocalsTyped ==
  /\ pc \in [Threads -> Labels]
  /\ op \in [Threads -> {"none", "execute", "rollback", "cancel"}]
  /\ mine \in [Threads -> RunRecord]
  /\ held \in [Threads -> ResultRecord]
  /\ next \in [Threads -> 1..(Len(Plan) + 1)]
  /\ text \in [Threads -> Versions]
  /\ saved \in [Threads -> [Files -> Versions]]
  /\ wrote \in [Threads -> [Files -> Versions]]
  /\ AtFile

\* The part that is about files and counters.
FilesTyped ==
  /\ content \in [Files -> Versions]
  /\ temp \in [Files -> Versions]
  /\ run \in RunRecord
  /\ result \in ResultRecord
  /\ runTemp \in RunRecord
  /\ resultTemp \in ResultRecord
  /\ staged \subseteq Threads
  /\ calls \in Nat
  /\ mishaps \in Nat
  /\ left \subseteq Files
  /\ disturbed \in BOOLEAN

\* A copy that the file has not moved away from has the file's status, or is
\* the first decision on a pending request.
CopiesCurrent ==
  ~lost => \A c \in Callers \ behind :
    /\ apc[c] = "act" => copy[c] = approval
    /\ apc[c] = "save" => approval = "pending" \/ copy[c] = approval

(***************************************************************************)
(* Type correctness.                                                       *)
(***************************************************************************)

\* The records that the service starts from.
LEMMA Blank ==
  /\ NoFiles \in [Files -> Versions] /\ \A f \in Files : NoFiles[f] = Nothing
  /\ NoRun \in RunRecord /\ NoRun.status = "none" /\ NoRun.backups = NoFiles
  /\ NoResult \in ResultRecord /\ NoResult.status = "none" /\ NoResult.cause = "none"
  /\ Nothing \in Versions
BY Zenon DEF NoFiles, Versions, NoRun, RunRecord, RunStatuses, NoResult, ResultRecord, ResultStatuses

\* The lengths and the elements of the plan.
LEMMA PlanFacts ==
  /\ Len(Plan) \in Nat
  /\ \A i \in 1..Len(Plan) : Plan[i] \in Files
BY PlanAssumption

\* The initial states have the right types.
LEMMA TypeInit == Init => Typed
<1> SUFFICES ASSUME Init PROVE Typed
  OBVIOUS
<1>1. ApprovalTypeOK
  BY Zenon DEF Init, ApprovalInit, ApprovalTypeOK, Statuses
<1>2. /\ content \in [Files -> Versions] /\ temp \in [Files -> Versions]
      /\ run \in RunRecord /\ result \in ResultRecord
      /\ runTemp \in RunRecord /\ resultTemp \in ResultRecord /\ staged \subseteq Threads
  BY Blank, Zenon DEF Init, Versions
<1>3. /\ pc \in [Threads -> Labels]
      /\ op \in [Threads -> {"none", "execute", "rollback", "cancel"}]
      /\ mine \in [Threads -> RunRecord] /\ held \in [Threads -> ResultRecord]
  BY Blank, Zenon DEF Init, Labels
<1>4. /\ next \in [Threads -> 1..(Len(Plan) + 1)] /\ text \in [Threads -> Versions]
      /\ saved \in [Threads -> [Files -> Versions]]
      /\ wrote \in [Threads -> [Files -> Versions]]
  BY Blank, PlanFacts DEF Init
<1>5. /\ calls \in Nat /\ mishaps \in Nat /\ left \subseteq Files
  BY Zenon DEF Init
<1>6. disturbed \in BOOLEAN
  BY Zenon DEF Init
<1>7. AtFile
  BY Zenon DEF Init, AtFile
<1> QED BY <1>1, <1>2, <1>3, <1>4, <1>5, <1>6, <1>7, Zenon DEF Typed, TypeOK

\* The steps of the approval service keep the types.
LEMMA ApprovalTypes ==
  ASSUME ApprovalTypeOK,
         \/ \E c \in Callers : ApprovalStep(c)
         \/ \E c \in Callers, o \in Requests \cup {"get"} :
              Ask(c, o) /\ requests' \in {requests, requests + 1}
         \/ \E c \in Callers : TakeAnswer(c)
         \/ TimePasses
         \/ UNCHANGED approvalVars
  PROVE  ApprovalTypeOK'
<1> USE DEF ApprovalTypeOK, stored, asking, Unasked, GoesTo, Asks, Acts
<1>1. ASSUME NEW c \in Callers, ApprovalStep(c) PROVE ApprovalTypeOK'
  <2> USE DEF Statuses, Terminal, Decisions
  <2>1. CASE GetApproval(c)
    BY <2>1, Zenon DEF GetApproval, SaveThen
  <2>2. CASE Got(c)
    BY <2>2, Zenon DEF Got, Answered
  <2>3. ASSUME NEW decision \in Decisions, Decide(c, decision) PROVE ApprovalTypeOK'
    BY <2>3, Zenon DEF Decide, Answered, SaveThen
  <2>4. CASE AttachRuntimeContext(c)
    BY <2>4, Zenon DEF AttachRuntimeContext, SaveThen
  <2>5. CASE RefreshPolicy(c)
    BY <2>5, Zenon DEF RefreshPolicy, Answered, SaveThen
  <2>6. CASE Save(c)
    BY <2>6, Zenon DEF Save
  <2> QED BY <1>1, <2>1, <2>2, <2>3, <2>4, <2>5, <2>6, Zenon DEF ApprovalStep
<1>2. ASSUME NEW c \in Callers, NEW o \in Requests \cup {"get"}, Ask(c, o),
             requests' \in {requests, requests + 1}
      PROVE  ApprovalTypeOK'
  BY <1>2 DEF Ask
<1>3. ASSUME NEW c \in Callers, TakeAnswer(c) PROVE ApprovalTypeOK'
  BY <1>3, Zenon DEF TakeAnswer, Statuses
<1>4. CASE TimePasses
  BY <1>4, Zenon DEF TimePasses
<1>5. CASE UNCHANGED approvalVars
  BY <1>5, Zenon DEF approvalVars
<1> QED BY <1>1, <1>2, <1>3, <1>4, <1>5, Zenon

\* A call that ends, and a rollback that begins, leave well-typed locals.
LEMMA DoneUndoTyped ==
  ASSUME LocalsTyped, NEW c \in Threads
  PROVE  /\ Done(c) => LocalsTyped'
         /\ \A o \in ResultRecord, b \in [Files -> Versions] : Undo(c, o, b) => LocalsTyped'
<1> USE DEF LocalsTyped, AtFile, Goto
<1>1. ASSUME Done(c) PROVE LocalsTyped'
  BY <1>1, Blank, PlanFacts DEF Done, Labels
<1>2. ASSUME NEW o \in ResultRecord, NEW b \in [Files -> Versions], Undo(c, o, b)
      PROVE  LocalsTyped'
  <2>1. [status |-> "rolled_back", backups |-> b] \in RunRecord
    BY Zenon DEF RunRecord, RunStatuses
  <2> QED BY <1>2, <2>1, Blank, PlanFacts DEF Undo, Labels
<1> QED BY <1>1, <1>2, Zenon

\* An exception in the engine or in a write leaves well-typed locals.
LEMMA RaiseTyped ==
  ASSUME LocalsTyped, NEW c \in Threads
  PROVE  /\ \A cause \in {"engine", "later"} : Except(c, cause) => LocalsTyped'
         /\ next[c] \in 1..Len(Plan) /\ WriteRaises(c) => LocalsTyped'
<1>1. ASSUME NEW cause \in {"engine", "later"}, Except(c, cause) PROVE LocalsTyped'
  <2>1. Outcome("failed", cause) \in ResultRecord /\ mine[c].backups \in [Files -> Versions]
    BY Zenon DEF LocalsTyped, Outcome, ResultRecord, ResultStatuses, RunRecord
  <2> QED BY <1>1, <2>1, DoneUndoTyped, Zenon DEF Except
<1>2. ASSUME next[c] \in 1..Len(Plan), WriteRaises(c), Undoing(c) PROVE LocalsTyped'
  <2>1. [mine[c] EXCEPT !.status = "rollback_failed"] \in RunRecord
    BY ZenonT(40) DEF LocalsTyped, RunRecord, RunStatuses
  <2>2. mine' = [mine EXCEPT ![c] = [mine[c] EXCEPT !.status = "rollback_failed"]]
    BY <1>2, Zenon DEF WriteRaises, LocalsTyped
  <2>3. next' = [next EXCEPT ![c] = next[c] + 1]
    BY <1>2, Zenon DEF WriteRaises, LocalsTyped
  <2>4. mine' \in [Threads -> RunRecord]
    BY <2>1, <2>2, Zenon DEF LocalsTyped
  <2>5. next' \in [Threads -> 1..(Len(Plan) + 1)]
    BY <1>2, <2>3, PlanFacts DEF LocalsTyped
  <2>6. pc' = [pc EXCEPT ![c] = "undo"] /\ text' = [text EXCEPT ![c] = Nothing]
        /\ UNCHANGED <<op, held, saved, wrote>>
    BY <1>2, Zenon DEF WriteRaises, Goto
  <2>7. pc' \in [Threads -> Labels] /\ text' \in [Threads -> Versions]
    BY <2>6, Blank, Zenon DEF LocalsTyped, Labels
  <2>8. AtFile'
    BY <2>3, <2>6, Zenon DEF LocalsTyped, AtFile
  <2> QED BY <2>4, <2>5, <2>6, <2>7, <2>8, Zenon DEF LocalsTyped
<1>3. ASSUME WriteRaises(c), ~Undoing(c) PROVE LocalsTyped'
  BY <1>1, <1>3, Zenon DEF WriteRaises
<1> QED BY <1>1, <1>2, <1>3, Zenon

\* Every step of a thread leaves well-typed locals.
LEMMA LocalsStep ==
  ASSUME Typed, NEW c \in Threads, Begin(c) \/ Step(c) \/ Fault(c)
  PROVE  LocalsTyped'
<1>0. LocalsTyped /\ FilesTyped
  BY Zenon DEF Typed, TypeOK, LocalsTyped, FilesTyped
<1> USE DEF records, drafts, work, Goto, At
<1>1. ASSUME NEW l \in Labels \ {"patch", "check", "temp", "replace", "unlink"},
             Goto(c, l), UNCHANGED <<op, work>>
      PROVE  LocalsTyped'
  BY <1>0, <1>1, Zenon DEF LocalsTyped, AtFile
<1>o. \A s \in {"failed", "blocked", "completed"} : Outcome(s, "none") \in ResultRecord
  BY Zenon DEF Outcome, ResultRecord, ResultStatuses
<1>2. CASE Begin(c)
  <2>1. CASE CreateRun(c)
    BY <1>1, <2>1, Zenon DEF CreateRun, Labels
  <2>2. CASE Execute(c)
    <3>1. mine' \in [Threads -> RunRecord] /\ held' \in [Threads -> ResultRecord]
      BY <1>0, <1>o, <2>2, Zenon DEF Execute, Refused, LocalsTyped, FilesTyped
    <3> QED BY <1>0, <2>2, <3>1, Zenon DEF Execute, Refused, Call, LocalsTyped, AtFile, Labels
  <2>3. CASE Rollback(c)
    BY <1>0, <2>3, Zenon DEF Rollback, Call, LocalsTyped, FilesTyped, AtFile, Labels
  <2>4. CASE Cancel(c)
    <3>1. [run EXCEPT !.status = "cancelled"] \in RunRecord
      BY <1>0, Zenon DEF FilesTyped, RunRecord, RunStatuses
    <3> QED BY <1>0, <2>4, <3>1, Zenon DEF Cancel, Call, LocalsTyped, AtFile, Labels
  <2> QED BY <1>2, <2>1, <2>2, <2>3, <2>4, Zenon DEF Begin
<1>3. ASSUME CreateRunGuarded(c) \/ Start(c) \/ Complete(c) \/ UndoResult(c)
      PROVE  LocalsTyped'
  BY <1>1, <1>3, Zenon DEF CreateRunGuarded, Start, Complete, UndoResult, Labels
<1>4. ASSUME Refuse(c) \/ Report(c) \/ ReportAgain(c) \/ CancelSave(c) \/ StartRaises(c)
      PROVE  LocalsTyped'
  BY <1>0, <1>4, DoneUndoTyped, Zenon DEF Refuse, Report, ReportAgain, CancelSave, StartRaises
<1>5. CASE UndoRun(c)
  BY <1>0, <1>1, <1>5, DoneUndoTyped, Zenon DEF UndoRun, Labels
<1>6. CASE RollbackFetch(c)
  <2>1. result \in ResultRecord /\ mine[c].backups \in [Files -> Versions]
    BY <1>0, Zenon DEF LocalsTyped, FilesTyped, RunRecord
  <2> QED BY <1>0, <1>6, <2>1, DoneUndoTyped, Zenon DEF RollbackFetch
<1>7. ASSUME NEW s \in RunStatuses, mine' = [mine EXCEPT ![c].status = s],
             NEW l \in Labels \ {"patch", "check", "temp", "replace", "unlink"}, Goto(c, l),
             UNCHANGED <<op, held, next, text, saved, wrote>>
      PROVE  LocalsTyped'
  <2>1. [mine[c] EXCEPT !.status = s] \in RunRecord
    BY <1>0, ZenonT(40) DEF LocalsTyped, RunRecord
  <2>2. mine' \in [Threads -> RunRecord]
    BY <1>0, <1>7, <2>1, Zenon DEF LocalsTyped
  <2> QED BY <1>0, <1>7, <2>2, Zenon DEF LocalsTyped, AtFile
<1>8. CASE ExecuteGuarded(c)
  BY <1>7, <1>8, Zenon DEF ExecuteGuarded, Labels, RunStatuses
<1>b. CASE Block(c)
  BY <1>0, <1>o, <1>b, Zenon DEF Block, Refused, LocalsTyped, AtFile, Labels
<1>s. CASE Stage(c)
  BY <1>0, <1>s, Zenon DEF Stage, LocalsTyped, AtFile
<1>9. CASE Validate(c)
  <2>1. mine[c].backups \in [Files -> Versions]
    BY <1>0, Zenon DEF LocalsTyped, RunRecord
  <2>2. CASE Undo(c, Outcome("failed", "none"), mine[c].backups)
    BY <1>0, <1>o, <2>1, <2>2, DoneUndoTyped, Zenon
  <2>3. CASE /\ mine' = [mine EXCEPT ![c].status = "completed"]
             /\ held' = [held EXCEPT ![c] = Outcome("completed", "none")]
             /\ Goto(c, "complete") /\ UNCHANGED <<op, next, text, saved, wrote>>
    <3>1. [mine[c] EXCEPT !.status = "completed"] \in RunRecord
      BY <1>0, ZenonT(40) DEF LocalsTyped, RunRecord, RunStatuses
    <3>2. mine' \in [Threads -> RunRecord] /\ held' \in [Threads -> ResultRecord]
      BY <1>0, <1>o, <2>3, <3>1, Zenon DEF LocalsTyped
    <3> QED BY <1>0, <2>3, <3>2, Zenon DEF LocalsTyped, AtFile, Labels
  <2> QED BY <1>9, <2>2, <2>3, Zenon DEF Validate
<1>10. CASE Applied(c)
  <2>1. [mine[c] EXCEPT !.backups = saved[c]] \in RunRecord
    BY <1>0, ZenonT(40) DEF LocalsTyped, RunRecord
  <2>2. mine' \in [Threads -> RunRecord]
    BY <1>0, <1>10, <2>1, Zenon DEF LocalsTyped, Applied
  <2> QED BY <1>0, <1>10, <2>2, Zenon DEF Applied, LocalsTyped, AtFile, Labels
<1>11. CASE Backup(c)
  <2>1. CASE Finished(c)
    BY <1>1, <1>11, <2>1, Zenon DEF Backup, Labels
  <2>2. CASE ~Finished(c)
    <3>1. next[c] \in 1..Len(Plan) /\ Current(c) \in Files
      BY <1>0, <2>2, PlanFacts DEF LocalsTyped, Finished, Current
    <3>2. [saved[c] EXCEPT ![Current(c)] = content[Current(c)]] \in [Files -> Versions]
      BY <1>0, <3>1, Zenon DEF LocalsTyped, FilesTyped
    <3>3. saved' \in [Threads -> [Files -> Versions]]
      BY <1>0, <1>11, <2>2, <3>2, Zenon DEF Backup, LocalsTyped
    <3> QED BY <1>0, <1>11, <2>2, <3>1, <3>3, Zenon DEF Backup, LocalsTyped, AtFile, Labels
  <2> QED BY <2>1, <2>2, Zenon
<1>12. CASE Patch(c)
  <2>1. Updated(Current(c), content[Current(c)]) \in Versions
    BY Zenon DEF Updated, Versions, Patched
  <2>2. next[c] \in 1..Len(Plan)
    BY <1>0, <1>12, Zenon DEF LocalsTyped, AtFile, Patch
  <2> QED BY <1>0, <1>12, <2>1, <2>2, ZenonT(40) DEF Patch, LocalsTyped, AtFile, Labels
<1>13. CASE Check(c)
  <2>1. next[c] \in 1..Len(Plan)
    BY <1>0, <1>13, Zenon DEF LocalsTyped, AtFile, Check
  <2>2. CASE WriteRaises(c)
    BY <1>0, <2>1, <2>2, RaiseTyped, Zenon
  <2>3. CASE Goto(c, "temp") /\ UNCHANGED <<op, work>>
    BY <1>0, <2>1, <2>3, Zenon DEF LocalsTyped, AtFile, Labels
  <2> QED BY <1>13, <2>2, <2>3, Zenon DEF Check
<1>14. CASE WriteTemp(c)
  BY <1>0, <1>14, Zenon DEF WriteTemp, LocalsTyped, AtFile, Labels
<1>15. CASE Replace(c)
  <2>1. next[c] \in 1..Len(Plan)
    BY <1>0, <1>15, Zenon DEF LocalsTyped, AtFile, Replace
  <2>2. CASE WriteRaises(c)
    BY <1>0, <2>1, <2>2, RaiseTyped, Zenon
  <2>3. CASE Goto(c, "unlink") /\ UNCHANGED <<op, work>>
    BY <1>0, <2>1, <2>3, Zenon DEF LocalsTyped, AtFile, Labels
  <2> QED BY <1>15, <2>2, <2>3, Zenon DEF Replace
<1>16. CASE Unlink(c)
  <2>1. next[c] \in 1..Len(Plan) /\ Current(c) \in Files
    BY <1>0, <1>16, PlanFacts, SMTT(30) DEF LocalsTyped, AtFile, Unlink, Current
  <2>2. next' \in [Threads -> 1..(Len(Plan) + 1)]
    BY <1>0, <1>16, <2>1, PlanFacts DEF Unlink, LocalsTyped
  <2>3. [wrote[c] EXCEPT ![Current(c)] = content[Current(c)]] \in [Files -> Versions]
    BY <1>0, <2>1, Zenon DEF LocalsTyped, FilesTyped
  <2>4. wrote' \in [Threads -> [Files -> Versions]]
    BY <1>0, <1>16, <2>3, Zenon DEF Unlink, LocalsTyped
  <2>5. /\ pc' \in [Threads -> Labels] /\ pc'[c] \in {"undo", "backup"}
        /\ \A d \in Threads : d # c => pc'[d] = pc[d] /\ next'[d] = next[d]
    BY <1>0, <1>16, Zenon DEF Unlink, LocalsTyped, Labels
  <2> QED BY <1>0, <1>16, <2>2, <2>4, <2>5, Blank, Zenon DEF Unlink, LocalsTyped, AtFile
<1>17. CASE UndoNext(c)
  <2>1. PICK i \in next[c]..Len(Plan) :
          /\ next' = [next EXCEPT ![c] = i]
          /\ text' = [text EXCEPT ![c] = mine[c].backups[Plan[i]]]
    BY <1>17, Zenon DEF UndoNext
  <2>2. i \in 1..Len(Plan) /\ Plan[i] \in Files
    BY <1>0, PlanFacts DEF LocalsTyped
  <2>3. mine[c].backups[Plan[i]] \in Versions
    BY <1>0, <2>2, Zenon DEF LocalsTyped, RunRecord
  <2> QED BY <1>0, <1>17, <2>1, <2>2, <2>3, PlanFacts DEF UndoNext, LocalsTyped, AtFile, Labels
<1>18. CASE UndoEnd(c)
  <2>1. \A s \in ResultStatuses : [held[c] EXCEPT !.status = s] \in ResultRecord
    BY <1>0, Zenon DEF LocalsTyped, ResultRecord
  <2>2. held' \in [Threads -> ResultRecord]
    BY <1>0, <1>18, <2>1, ZenonT(40) DEF UndoEnd, LocalsTyped, ResultStatuses
  <2> QED BY <1>0, <1>18, <2>2, Zenon DEF UndoEnd, LocalsTyped, AtFile, Labels
<1>19. CASE IOError(c)
  <2>1. CASE pc[c] \in {"check", "temp", "replace", "unlink"} /\ WriteRaises(c)
    BY <1>0, <2>1, RaiseTyped, Zenon DEF LocalsTyped, AtFile
  <2>2. CASE Except(c, "engine")
    BY <1>0, <2>2, RaiseTyped, Zenon
  <2> QED BY <1>19, <2>1, <2>2, Zenon DEF IOError
<1>20. ASSUME RecordError(c) \/ Gone(c) PROVE LocalsTyped'
  BY <1>0, <1>20, DoneUndoTyped, RaiseTyped, Zenon DEF RecordError, Gone, StoreRaises
<1>21. CASE AnswerRaises(c)
  BY <1>0, <1>21, RaiseTyped, Zenon DEF AnswerRaises
<1> QED BY <1>2, <1>3, <1>4, <1>5, <1>6, <1>8, <1>9, <1>10, <1>11, <1>12, <1>13, <1>14,
           <1>15, <1>16, <1>17, <1>18, <1>19, <1>20, <1>21, <1>b, <1>s, Zenon DEF Step, Fault

\* Every step of a thread leaves well-typed files, records and counters.
LEMMA FilesStep ==
  ASSUME Typed, NEW c \in Threads, Begin(c) \/ Step(c) \/ Fault(c)
  PROVE  FilesTyped'
<1>0. LocalsTyped /\ FilesTyped
  BY Zenon DEF Typed, TypeOK, LocalsTyped, FilesTyped
<1> USE DEF disk, records, drafts, work, noted, At
<1>1. /\ mine[c] \in RunRecord /\ held[c] \in ResultRecord /\ text[c] \in Versions
      /\ \A s \in RunStatuses : [NoRun EXCEPT !.status = s] \in RunRecord
  BY <1>0, Blank, Zenon DEF LocalsTyped, RunRecord
<1>2. ASSUME UNCHANGED <<disk, records>>, calls' \in {calls, calls + 1},
             mishaps' \in {mishaps, mishaps + 1}, left' = left, disturbed' \in BOOLEAN
      PROVE  FilesTyped'
  BY <1>0, <1>2 DEF FilesTyped
<1>3. ASSUME Alone, UNCHANGED <<disk, records>> PROVE FilesTyped'
  BY <1>0, <1>3, Zenon DEF Alone, FilesTyped
<1>4. CASE Begin(c)
  <2>1. CASE CreateRun(c)
    BY <1>0, <2>1, Zenon DEF CreateRun, FilesTyped
  <2>2. ASSUME NEW o, Call(c, o) PROVE FilesTyped'
    <3>1. disturbed' \in BOOLEAN
      BY <2>2, Zenon DEF Call
    <3> QED BY <1>2, <2>2, <3>1, Zenon DEF Call
  <2> QED BY <1>4, <2>1, <2>2, Zenon DEF Begin, Execute, Rollback, Cancel
<1>5. CASE ExecuteGuarded(c)
  BY <1>0, <1>5, Zenon DEF ExecuteGuarded, FilesTyped
<1>6. CASE CreateRunGuarded(c)
  BY <1>0, <1>1, <1>6, Zenon DEF CreateRunGuarded, FilesTyped, RunStatuses
<1>7. ASSUME \/ Backup(c) \/ Patch(c) \/ Check(c) \/ Applied(c) \/ Validate(c)
             \/ RollbackFetch(c) \/ UndoNext(c) \/ UndoEnd(c)
      PROVE  FilesTyped'
  BY <1>3, <1>7, Zenon DEF Backup, Patch, Check, Applied, Validate, RollbackFetch, UndoNext, UndoEnd
<1>8. ASSUME SaveRun(c) \/ SaveResult(c)
      PROVE  /\ run' \in RunRecord /\ runTemp' \in RunRecord
             /\ result' \in ResultRecord /\ resultTemp' \in ResultRecord
             /\ staged' \subseteq Threads
  BY <1>0, <1>8, Blank, Zenon DEF SaveRun, SaveResult, FilesTyped
<1>9. ASSUME Alone, SaveRun(c) \/ SaveResult(c), UNCHANGED disk PROVE FilesTyped'
  BY <1>0, <1>8, <1>9, Zenon DEF Alone, FilesTyped
<1>10. ASSUME \/ Block(c) \/ Start(c) \/ Complete(c) \/ UndoRun(c) \/ CancelSave(c)
              \/ Refuse(c) \/ Report(c) \/ UndoResult(c) \/ ReportAgain(c)
       PROVE  FilesTyped'
  BY <1>9, <1>10, Zenon DEF Block, Start, Complete, UndoRun, CancelSave, Refuse, Report, UndoResult,
     ReportAgain
<1>s. CASE Stage(c)
  BY <1>0, <1>1, <1>s, Zenon DEF Stage, Alone, FilesTyped
<1>11. CASE WriteTemp(c)
  BY <1>0, <1>1, <1>11, Zenon DEF WriteTemp, Alone, FilesTyped
<1>12. CASE Replace(c)
  <2>1. Current(c) \in Files
    BY <1>0, <1>12, PlanFacts, Zenon DEF Replace, LocalsTyped, AtFile, Current
  <2> QED BY <1>0, <1>12, <2>1, Blank, Zenon DEF Replace, Alone, FilesTyped
<1>13. CASE Unlink(c)
  BY <1>0, <1>13, Blank, Zenon DEF Unlink, Alone, FilesTyped
<1>14. CASE StartRaises(c)
  <2>1. UNCHANGED <<disk, calls, left>> /\ mishaps' = mishaps + 1 /\ SaveRun(c)
    BY <1>14, Zenon DEF StartRaises, Mishap
  <2>2. disturbed' \in BOOLEAN
    BY <1>14, Zenon DEF StartRaises
  <2>3. mishaps' \in Nat
    BY <1>0, <2>1 DEF FilesTyped
  <2> QED BY <1>0, <1>8, <2>1, <2>2, <2>3, Zenon DEF FilesTyped
<1>15. CASE IOError(c)
  <2>1. temp' \in [Files -> Versions]
    BY <1>0, <1>15, Blank, Zenon DEF IOError, FilesTyped
  <2>2. UNCHANGED <<content, records, calls, left, disturbed>> /\ mishaps' = mishaps + 1
    BY <1>15, Zenon DEF IOError, Mishap
  <2>3. mishaps' \in Nat
    BY <1>0, <2>2 DEF FilesTyped
  <2> QED BY <1>0, <2>1, <2>2, <2>3, Zenon DEF FilesTyped
<1>16. ASSUME RecordError(c) \/ Gone(c) PROVE FilesTyped'
  <2>1. disturbed' \in BOOLEAN
    BY <1>0, <1>16, ZenonT(40) DEF RecordError, Gone, StoreRaises, FilesTyped
  <2>2. UNCHANGED <<disk, run, result, runTemp, resultTemp, calls, left>>
        /\ mishaps' = mishaps + 1 /\ staged' = staged \ {c}
    BY <1>16, Zenon DEF RecordError, Gone, StoreRaises, Mishap
  <2>3. mishaps' \in Nat
    BY <1>0, <2>2 DEF FilesTyped
  <2> QED BY <1>0, <2>1, <2>2, <2>3, Zenon DEF FilesTyped
<1>17. CASE AnswerRaises(c)
  <2>1. SaveRun(c) \/ SaveResult(c)
    BY <1>17, Zenon DEF AnswerRaises
  <2>2. UNCHANGED <<content, temp, calls, left, disturbed>> /\ mishaps' = mishaps + 1
    BY <1>17, Zenon DEF AnswerRaises, Mishap
  <2>3. mishaps' \in Nat
    BY <1>0, <2>2 DEF FilesTyped
  <2> QED BY <1>0, <1>8, <2>1, <2>2, <2>3, Zenon DEF FilesTyped
<1> QED BY <1>4, <1>5, <1>6, <1>7, <1>10, <1>11, <1>12, <1>13, <1>14, <1>15, <1>16, <1>17,
          <1>s, Zenon
       DEF Step, Fault

\* A step of a thread leaves the approval service as it is, asks it or takes
\* its answer.
LEMMA ThreadAsks ==
  ASSUME NEW c \in Threads, Begin(c) \/ Step(c) \/ Fault(c)
  PROVE  \/ Ask(c, "get") /\ requests' = requests
         \/ TakeAnswer(c)
         \/ UNCHANGED approvalVars
<1>1. ASSUME Begin(c)
      PROVE  (Ask(c, "get") /\ requests' = requests) \/ UNCHANGED approvalVars
  BY <1>1, Zenon DEF Begin, CreateRun, Execute, Rollback, Cancel
<1>2. ASSUME CreateRunGuarded(c) \/ ExecuteGuarded(c) PROVE TakeAnswer(c)
  BY <1>2, Zenon DEF CreateRunGuarded, ExecuteGuarded
<1>3. ASSUME Fault(c) PROVE UNCHANGED approvalVars
  BY <1>3, Zenon DEF Fault, StartRaises, IOError, RecordError, AnswerRaises, Gone, Mishap
<1>4. ASSUME Alone PROVE UNCHANGED approvalVars
  BY <1>4, Zenon DEF Alone
<1>5. ASSUME Step(c), ~CreateRunGuarded(c), ~ExecuteGuarded(c) PROVE Alone
  BY <1>5, Zenon DEF Step, Block, Refuse, Start, Backup, Patch, Check, WriteTemp, Replace,
     Unlink, Applied, Validate, Complete, Report, RollbackFetch, UndoNext, UndoEnd,
     UndoResult, UndoRun, ReportAgain, CancelSave, Stage
<1> QED BY <1>1, <1>2, <1>3, <1>4, <1>5, Zenon

\* Every step keeps the types.
LEMMA TypeStep == Typed /\ [Next]_vars => Typed'
<1> SUFFICES ASSUME Typed, [Next]_vars PROVE Typed'
  OBVIOUS
<1>0. LocalsTyped /\ FilesTyped /\ ApprovalTypeOK
  BY Zenon DEF Typed, TypeOK, LocalsTyped, FilesTyped
<1>1. ASSUME LocalsTyped', FilesTyped', ApprovalTypeOK' PROVE Typed'
  BY <1>1, Zenon DEF Typed, TypeOK, LocalsTyped, FilesTyped
<1>2. ASSUME UNCHANGED patchVars PROVE LocalsTyped' /\ FilesTyped'
  <2>1. LocalsTyped'
    BY <1>0, <1>2, Zenon DEF patchVars, work, LocalsTyped, AtFile
  <2>2. FilesTyped'
    BY <1>0, <1>2, Zenon DEF patchVars, disk, records, drafts, noted, FilesTyped
  <2> QED BY <2>1, <2>2, Zenon
<1>3. ASSUME NEW c \in Threads, Begin(c) \/ Step(c) \/ Fault(c) PROVE Typed'
  <2>1. c \in Callers
    BY ThreadAssumption, Zenon
  <2>2. ApprovalTypeOK'
    BY <1>0, <1>3, <2>1, ThreadAsks, ApprovalTypes, Zenon
  <2> QED BY <1>1, <1>3, <2>2, LocalsStep, FilesStep, Zenon
<1>4. ASSUME NEW c \in Callers, ApprovalStep(c), UNCHANGED patchVars PROVE Typed'
  BY <1>0, <1>1, <1>2, <1>4, ApprovalTypes, Zenon
<1>5. ASSUME NEW c \in Deciders, NEW o \in Requests, Request(c, o), UNCHANGED patchVars
      PROVE  Typed'
  BY <1>0, <1>1, <1>2, <1>5, ApprovalTypes, DeciderAssumption, Zenon DEF Request
<1>6. CASE TimePasses /\ UNCHANGED patchVars
  BY <1>0, <1>1, <1>2, <1>6, ApprovalTypes, Zenon
<1>7. ASSUME NEW f \in Files, Edit(f) PROVE Typed'
  <2>1. LocalsTyped'
    BY <1>0, <1>7, Zenon DEF Edit, work, LocalsTyped, AtFile
  <2>2. ApprovalTypeOK'
    BY <1>0, <1>7, ApprovalTypes, Zenon DEF Edit, Mishap
  <2>3. disturbed' \in BOOLEAN
    BY <1>7, Zenon DEF Edit
  <2>4. content' \in [Files -> Versions]
    BY <1>0, <1>7, Zenon DEF Edit, FilesTyped, Versions, Patched
  <2>5. FilesTyped'
    BY <1>0, <1>7, <2>3, <2>4 DEF Edit, Mishap, records, drafts, FilesTyped
  <2> QED BY <1>1, <2>1, <2>2, <2>5, Zenon
<1>8. CASE Crash
  <2>1. LocalsTyped'
    BY <1>8, Blank, PlanFacts DEF Crash, LocalsTyped, AtFile, Labels
  <2>2. ApprovalTypeOK'
    BY <1>0, <1>8, Zenon DEF Crash, stored, ApprovalTypeOK, Statuses
  <2>3. disturbed' \in BOOLEAN
    BY <1>8, Zenon DEF Crash
  <2>4. FilesTyped'
    BY <1>0, <1>8, <2>3 DEF Crash, disk, FilesTyped
  <2> QED BY <1>1, <2>1, <2>2, <2>4, Zenon
<1>9. CASE UNCHANGED vars
  BY <1>0, <1>1, <1>2, <1>9, ApprovalTypes, Zenon DEF vars
<1> QED BY <1>3, <1>4, <1>5, <1>6, <1>7, <1>8, <1>9, Zenon DEF Next

\* Type correctness: no interleaving of calls, mishaps and restarts puts a
\* value into the run, the result or the approval that the enumerations of the
\* code do not have.
THEOREM TypeCorrect == Spec => []TypeOK
<1>1. Typed => TypeOK
  BY Zenon DEF Typed
<1> QED BY TypeInit, TypeStep, <1>1, PTL DEF Spec

(***************************************************************************)
(* Decisions stand.                                                        *)
(***************************************************************************)

\* A step of the whole system is a step of the approval service, a restart, or
\* leaves the service as it is.
LEMMA SeenByApprovals ==
  ASSUME [Next]_vars
  PROVE  \/ \E c \in Callers : ApprovalStep(c)
         \/ \E c \in Callers, o \in Requests \cup {"get"} : Ask(c, o)
         \/ \E c \in Callers : TakeAnswer(c)
         \/ TimePasses
         \/ Crash
         \/ UNCHANGED approvalVars
<1>1. ASSUME NEW c \in Threads, Begin(c) \/ Step(c) \/ Fault(c)
      PROVE  \/ \E d \in Callers, o \in Requests \cup {"get"} : Ask(d, o)
             \/ \E d \in Callers : TakeAnswer(d)
             \/ UNCHANGED approvalVars
  BY <1>1, ThreadAsks, ThreadAssumption, Zenon
<1>2. ASSUME NEW c \in Deciders, NEW o \in Requests, Request(c, o)
      PROVE  \E d \in Callers, q \in Requests \cup {"get"} : Ask(d, q)
  BY <1>2, DeciderAssumption, Zenon DEF Request
<1>3. ASSUME NEW f \in Files, Edit(f) PROVE UNCHANGED approvalVars
  BY <1>3, Zenon DEF Edit, Mishap
<1>4. ASSUME UNCHANGED vars PROVE UNCHANGED approvalVars
  BY <1>4, Zenon DEF vars
<1> QED BY <1>1, <1>2, <1>3, <1>4, Zenon DEF Next

\* Copies stay current: whoever saves leaves all other copies behind.
LEMMA CopiesStep == Typed /\ CopiesCurrent /\ [Next]_vars => CopiesCurrent'
<1> SUFFICES ASSUME Typed, CopiesCurrent, [Next]_vars, ~lost', NEW d \in Callers \ behind'
             PROVE  /\ apc'[d] = "act" => copy'[d] = approval'
                    /\ apc'[d] = "save" => approval' = "pending" \/ copy'[d] = approval'
  BY Zenon DEF CopiesCurrent
<1>0. ApprovalTypeOK
  BY SMTT(30) DEF Typed, TypeOK
<1> USE DEF CopiesCurrent, ApprovalTypeOK, stored, asking, Unasked, GoesTo, Asks, Acts
<1>1. ASSUME NEW c \in Callers, ApprovalStep(c)
      PROVE  /\ apc'[d] = "act" => copy'[d] = approval'
             /\ apc'[d] = "save" => approval' = "pending" \/ copy'[d] = approval'
  <2>1. CASE GetApproval(c)
    BY <1>0, <2>1 DEF GetApproval, SaveThen
  <2>2. CASE Got(c)
    BY <1>0, <2>2, Zenon DEF Got, Answered
  <2>3. CASE \E decision \in Decisions : Decide(c, decision)
    BY <1>0, <2>3 DEF Decide, Answered, SaveThen
  <2>4. CASE AttachRuntimeContext(c)
    BY <1>0, <2>4, Zenon DEF AttachRuntimeContext, SaveThen
  <2>5. CASE RefreshPolicy(c)
    BY <1>0, <2>5, ZenonT(30) DEF RefreshPolicy, Answered, SaveThen
  <2>6. CASE Save(c)
    BY <1>0, <2>6 DEF Save
  <2> QED BY <1>1, <2>1, <2>2, <2>3, <2>4, <2>5, <2>6, Zenon DEF ApprovalStep
<1>2. ASSUME NEW c \in Callers, NEW o, Ask(c, o)
      PROVE  /\ apc'[d] = "act" => copy'[d] = approval'
             /\ apc'[d] = "save" => approval' = "pending" \/ copy'[d] = approval'
  BY <1>0, <1>2, Zenon DEF Ask
<1>3. ASSUME NEW c \in Callers, TakeAnswer(c)
      PROVE  /\ apc'[d] = "act" => copy'[d] = approval'
             /\ apc'[d] = "save" => approval' = "pending" \/ copy'[d] = approval'
  BY <1>0, <1>3, Zenon DEF TakeAnswer
<1>4. CASE TimePasses
  BY <1>0, <1>4, SMTT(30) DEF TimePasses
<1>5. CASE Crash
  BY <1>5, Zenon DEF Crash
<1>6. CASE UNCHANGED approvalVars
  BY <1>6, Zenon DEF approvalVars
<1> QED BY <1>1, <1>2, <1>3, <1>4, <1>5, <1>6, SeenByApprovals, SMTT(30)

\* The file changes only in a save, and a save of a current copy does not
\* change a decision.
LEMMA StandsStep ==
  Typed /\ CopiesCurrent /\ [Next]_vars =>
    [(approval \in Terminal /\ ~lost') => (approval' = approval)]_approvalVars
<1> SUFFICES ASSUME Typed, CopiesCurrent, [Next]_vars, approval \in Terminal, ~lost'
             PROVE  approval' = approval
  OBVIOUS
<1>0. ApprovalTypeOK
  BY Zenon DEF Typed, TypeOK
<1>1. ASSUME NEW c \in Callers, Save(c) PROVE approval' = approval
  <2>1. c \notin behind /\ ~lost
    BY <1>0, <1>1, Zenon DEF Save, ApprovalTypeOK
  <2>2. approval # "pending"
    BY Zenon DEF Terminal, Decisions
  <2>3. copy[c] = approval
    BY <1>1, <2>1, <2>2, Zenon DEF Save, Asks, CopiesCurrent
  <2> QED BY <1>1, <2>3, Zenon DEF Save
<1>2. ASSUME NEW c \in Callers, ApprovalStep(c), ~Save(c) PROVE approval' = approval
  BY <1>2, Zenon DEF ApprovalStep, GetApproval, Got, Decide, AttachRuntimeContext, RefreshPolicy,
     Answered, stored
<1>3. ASSUME \/ \E c \in Callers, o \in Requests \cup {"get"} : Ask(c, o)
             \/ \E c \in Callers : TakeAnswer(c)
             \/ TimePasses
             \/ Crash
             \/ UNCHANGED approvalVars
      PROVE  approval' = approval
  BY <1>3, Zenon DEF Ask, TakeAnswer, TimePasses, Crash, approvalVars, stored
<1> QED BY <1>1, <1>2, <1>3, SeenByApprovals, Zenon

\* The first state has no copies.
LEMMA CopiesInit == Init => CopiesCurrent
BY Zenon DEF Init, ApprovalInit, CopiesCurrent

\* A decision on the approval stands, for any number of callers of the
\* endpoints, the task runtime and the patch service, unless a copy older than
\* the file is saved over it.
THEOREM Stands == Spec => DecisionStands
<1>1. Spec => [](Typed /\ CopiesCurrent)
  BY TypeInit, TypeStep, CopiesInit, CopiesStep, PTL DEF Spec
<1> QED BY <1>1, StandsStep, PTL DEF Spec, DecisionStands
=============================================================================
