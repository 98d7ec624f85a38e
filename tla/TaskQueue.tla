------------------------------ MODULE TaskQueue ------------------------------
(* The task queue: several TaskRuns, the reconciliation that every create, *)
(* cancel and queue call performs (TaskQueueService.reconcile), the        *)
(* maintenance loop that starts the head of the queue                      *)
(* (TaskRuntimeService.process_queue), and clients.  A run is one record   *)
(* here: TaskRuntime has the files and the loop in detail.  What matters   *)
(* is that reconcile works on a list of copies that it read before, and    *)
(* that its lock keeps out other reconciliations only.                     *)
EXTENDS Naturals, Sequences, FiniteSets, FiniteSetsExt

CONSTANTS
  Maintainers,  \* threads that process the queue
  Clients,      \* threads that create, start or cancel runs
  NoThread,     \* nobody holds a lock
  NRuns,        \* runs, numbered in the order of their created_at
  Governed,     \* the runs that need an approval
  NFound,       \* the runs that are in the queue when the process starts
  MaxPending,   \* max_pending_tasks
  ListLimit,    \* the limit of list_queue_runs
  MaxCalls      \* bound: calls of the clients

ASSUME ThreadAssumption ==
  Maintainers \cap Clients = {} /\ NoThread \notin Maintainers \cup Clients
ASSUME BoundAssumption ==
  /\ NRuns \in Nat \ {0} /\ Governed \subseteq 1..NRuns /\ NFound \in 0..NRuns
  /\ MaxPending \in Nat \ {0} /\ ListLimit \in Nat \ {0} /\ MaxCalls \in Nat

Threads == Maintainers \cup Clients
Runs == 1..NRuns
NoRun == 0

VARIABLES
  run,          \* run.json of each run, "absent" before it is created
  result,       \* the run has a result.json
  approval,     \* status of the approval linked to the run, or "none"
  old,          \* the run is older than max_wait_seconds
  recLock,      \* _reconcile_lock
  procLock,     \* _queue_process_lock
  pc, stack,    \* per thread: next step, and the steps to return to
  mem,          \* per thread: its copy of the run it works on
  cur,          \* per thread: the run it works on
  list,         \* per thread: the runs it listed, with their copies
  todo,         \* per thread: the listed runs it still has to handle
  head,         \* per thread: the run the snapshot lets the queue start
  calls         \* calls of the clients so far

files == <<run, result, approval, old>>
locals == <<mem, cur, list, todo, head>>
vars == <<files, recLock, procLock, pc, stack, locals, calls>>

Pending == {"waiting_input", "queued", "created"}
Active == {"running"}

\* The queue tells no terminal status from another: they are all "ended".
Run == [status : Pending \cup Active \cup {"ended", "absent"}, auto : BOOLEAN]

Absent == [status |-> "absent", auto |-> FALSE]

\* An approval is withdrawn when it was cancelled, has expired, was
\* invalidated by a change of policy, or cannot be found.
Approvals == {"none", "pending", "approved", "rejected", "withdrawn"}

\* Copies of some of the runs.
Copies == UNION {[listed -> Run] : listed \in SUBSET Runs}

\* Where a thread can be: in cancel(), in reconcile(), which holds the lock,
\* in start(), or at a step of its own call.
Cancelling == {"cancel", "cancel_write", "cancel_approval"}
Reconciling == {"approvals", "write_copy", "expire", "overflow", "drain", "snapshot"}
Starting == {"start", "start_test", "begin", "finish", "save_result", "start_return"}
Labels == Cancelling \cup Reconciling \cup Starting
            \cup {"idle", "reconcile", "decide", "process_done", "create_write"}

(* Every variable has its type; in particular the queue takes a run only   *)
(* to the states that the rest of the runtime knows.                       *)
TypeOK ==
  /\ run \in [Runs -> Run]
  /\ result \in [Runs -> BOOLEAN]
  /\ approval \in [Runs -> Approvals]
  /\ old \in [Runs -> BOOLEAN]
  /\ recLock \in Threads \cup {NoThread} /\ procLock \in Maintainers \cup {NoThread}
  /\ pc \in [Threads -> Labels] /\ stack \in [Threads -> Seq(Labels)]
  /\ mem \in [Threads -> Run] /\ cur \in [Threads -> Runs \cup {NoRun}]
  /\ list \in [Threads -> Copies]
  /\ todo \in [Threads -> SUBSET Runs]
  /\ head \in [Threads -> Runs \cup {NoRun}]
  /\ calls \in 0..MaxCalls

\* The runs that an earlier process left in the queue are as create_run
\* leaves them.
Init ==
  /\ \E auto \in [Runs -> BOOLEAN] :
       run = [r \in Runs |->
                IF r > NFound THEN Absent
                ELSE [status |-> CASE r \in Governed -> "waiting_input"
                                   [] r \notin Governed /\ auto[r] -> "queued"
                                   [] OTHER -> "created",
                      auto |-> auto[r]]]
  /\ result = [r \in Runs |-> FALSE]
  /\ approval = [r \in Runs |-> IF r \in Governed /\ r <= NFound THEN "pending" ELSE "none"]
  /\ old = [r \in Runs |-> FALSE]
  /\ recLock = NoThread /\ procLock = NoThread
  /\ pc = [t \in Threads |-> "idle"] /\ stack = [t \in Threads |-> <<>>]
  /\ mem = [t \in Threads |-> Absent] /\ cur = [t \in Threads |-> NoRun]
  /\ list = [t \in Threads |-> <<>>] /\ todo = [t \in Threads |-> {}]
  /\ head = [t \in Threads |-> NoRun]
  /\ calls = 0

----------------------------------------------------------------------------
(* Control.                                                                *)
At(t, label) == pc[t] = label

Goto(t, label) == pc' = [pc EXCEPT ![t] = label] /\ UNCHANGED stack

\* Run the calls one after the other, then go on at the label given last.
Then(t, labels) == /\ pc' = [pc EXCEPT ![t] = Head(labels)]
                   /\ stack' = [stack EXCEPT ![t] = Tail(labels) \o @]

Return(t) == /\ pc' = [pc EXCEPT ![t] = Head(stack[t])]
             /\ stack' = [stack EXCEPT ![t] = Tail(@)]

KeepLocks == UNCHANGED <<recLock, procLock, calls>>

----------------------------------------------------------------------------
(* TaskRunCancellationService.cancel, and the linked approval after it:    *)
(* reconcile (_cancel_run) looks at the approval even of a run that has    *)
(* ended meanwhile, a client's cancel does not.                            *)
CancelRead(t) ==
  /\ At(t, "cancel")
  /\ LET copy == run[cur[t]] IN
     IF copy.status = "ended"
     THEN /\ IF recLock = t
             THEN Goto(t, "cancel_approval") /\ UNCHANGED cur
             ELSE Return(t) /\ cur' = [cur EXCEPT ![t] = NoRun]
          /\ UNCHANGED mem
     ELSE /\ mem' = [mem EXCEPT ![t] =
                       [copy EXCEPT !.status = IF @ \in Pending THEN "ended" ELSE @]]
          /\ Goto(t, "cancel_write")
          /\ UNCHANGED cur
  /\ UNCHANGED <<files, list, todo, head>> /\ KeepLocks

CancelWrite(t) ==
  /\ At(t, "cancel_write")
  /\ run' = [run EXCEPT ![cur[t]] = mem[t]]
  /\ Goto(t, "cancel_approval")
  /\ UNCHANGED <<result, approval, old, locals>> /\ KeepLocks

CancelApproval(t) ==
  /\ At(t, "cancel_approval")
  /\ approval' = [approval EXCEPT ![cur[t]] = IF @ = "pending" THEN "withdrawn" ELSE @]
  /\ mem' = [mem EXCEPT ![t] = Absent] /\ cur' = [cur EXCEPT ![t] = NoRun]
  /\ Return(t)
  /\ UNCHANGED <<run, result, old, list, todo, head>> /\ KeepLocks

CancelStep(t) == CancelRead(t) \/ CancelWrite(t) \/ CancelApproval(t)

----------------------------------------------------------------------------
(* TaskQueueService.reconcile.                                             *)

\* The n newest of some runs.
Newest(runs, n) == {r \in runs : Cardinality({s \in runs : s > r}) < n}

\* list_queue_runs
Listed == Newest({r \in Runs : run[r].status \in Pending \cup Active}, ListLimit)

ReconcileList(t) ==
  /\ At(t, "reconcile")
  /\ recLock = NoThread
  /\ recLock' = t
  /\ list' = [list EXCEPT ![t] = [r \in Listed |-> run[r]]]
  /\ todo' = [todo EXCEPT ![t] = {r \in Listed : approval[r] # "none"}]
  /\ Goto(t, "approvals")
  /\ UNCHANGED <<files, procLock, mem, cur, head, calls>>

\* Mutant: the approval's status becomes the status of the run.
ApprovalOutcomeCopied(copy, status) ==
  IF status = "approved" THEN [copy EXCEPT !.auto = TRUE, !.status = status] ELSE copy

\* Mutant: only a run that still waits for its approval is blocked.
ApprovalOutcomeWaitingOnly(copy, status) ==
  CASE status = "pending" ->
         IF copy.status \in {"created", "queued"}
         THEN [copy EXCEPT !.status = "waiting_input"] ELSE copy
    [] status = "approved" ->
         [copy EXCEPT !.auto = TRUE, !.status = IF @ = "created" THEN "queued" ELSE @]
    [] status = "rejected" ->
         IF copy.status = "waiting_input" THEN [copy EXCEPT !.status = "ended"] ELSE copy
    [] OTHER -> copy

(* What _reconcile_approval_states makes of a listed copy: pending makes   *)
(* the run wait, approved releases it (_resume_approved_approval),         *)
(* rejected blocks it (_cancel_denied_approval).                           *)
ApprovalOutcome(copy, status) ==
  CASE status = "pending" ->
         IF copy.status \in {"created", "queued"}
         THEN [copy EXCEPT !.status = "waiting_input"] ELSE copy
    [] status = "approved" ->
         [copy EXCEPT !.auto = TRUE, !.status = IF @ = "created" THEN "queued" ELSE @]
    [] status = "rejected" -> [copy EXCEPT !.status = "ended"]
    [] OTHER -> copy

\* The approvals of the listed runs are read, the newest run first; a
\* withdrawn one cancels the run, a pending one is left alone when the run
\* already waits.
ReadApproval(t) ==
  /\ At(t, "approvals") /\ todo[t] # {}
  /\ LET r == Max(todo[t])
         copy == list[t][r]
         new == ApprovalOutcome(copy, approval[r]) IN
     /\ CASE approval[r] = "withdrawn" ->
               /\ cur' = [cur EXCEPT ![t] = r]
               /\ Then(t, <<"cancel", "approvals">>) /\ UNCHANGED <<mem, list>>
          [] approval[r] = "pending" /\ new = copy ->
               UNCHANGED <<pc, stack, cur, mem, list>>
          [] OTHER ->
               /\ cur' = [cur EXCEPT ![t] = r]
               /\ mem' = [mem EXCEPT ![t] = new]
               /\ list' = [list EXCEPT ![t][r] = new]
               /\ Goto(t, "write_copy")
     /\ todo' = [todo EXCEPT ![t] = @ \ {r}]
  /\ UNCHANGED <<files, head>> /\ KeepLocks

\* store.update_run of the listed copy, whatever the run has become since.
WriteCopy(t) ==
  /\ At(t, "write_copy")
  /\ run' = [run EXCEPT ![cur[t]] = mem[t]]
  /\ mem' = [mem EXCEPT ![t] = Absent] /\ cur' = [cur EXCEPT ![t] = NoRun]
  /\ Goto(t, "approvals")
  /\ UNCHANGED <<result, approval, old, list, todo, head>> /\ KeepLocks

(* _reconcile_artifact_creation_terminality_gaps: of the runs listed as    *)
(* active, those without a result whose artifact creation has stalled are  *)
(* blocked, with a result.                                                 *)
StallGaps(t) ==
  /\ At(t, "approvals") /\ todo[t] = {}
  /\ \E stalled \in SUBSET {r \in DOMAIN list[t] :
                              /\ list[t][r].status \in Active
                              /\ ~result[r]
                              /\ run[r].status = "running"} :
       /\ run' = [r \in Runs |-> IF r \in stalled THEN [run[r] EXCEPT !.status = "ended"]
                                                  ELSE run[r]]
       /\ result' = [r \in Runs |-> IF r \in stalled THEN TRUE ELSE result[r]]
  /\ list' = [list EXCEPT ![t] = <<>>]
  /\ Goto(t, "expire")
  /\ UNCHANGED <<approval, old, mem, cur, todo, head>> /\ KeepLocks

\* Cancel the runs that were picked, the oldest first, then go on.
Drain(t) ==
  /\ At(t, "drain")
  /\ \/ /\ todo[t] = {}
        /\ Return(t)
        /\ UNCHANGED <<cur, todo>>
     \/ /\ todo[t] # {}
        /\ cur' = [cur EXCEPT ![t] = Min(todo[t])]
        /\ todo' = [todo EXCEPT ![t] = @ \ {Min(@)}]
        /\ Then(t, <<"cancel", "drain">>)
  /\ UNCHANGED <<files, mem, list, head>> /\ KeepLocks

\* Mutant: a run that waits for a decision is not expired.
ExpiredUnlessWaiting == {r \in Listed : run[r].status \in Pending \ {"waiting_input"} /\ old[r]}

Expired == {r \in Listed : run[r].status \in Pending /\ old[r]}

Expire(t) ==
  /\ At(t, "expire")
  /\ todo' = [todo EXCEPT ![t] = Expired]
  /\ Then(t, <<"drain", "overflow">>)
  /\ UNCHANGED <<files, mem, cur, list, head>> /\ KeepLocks

\* Mutant: one run too few is cancelled.
OverflowOneLess(pending) == pending \ Newest(pending, MaxPending + 1)

\* sorted(pending)[:overflow]
Overflow(pending) == pending \ Newest(pending, MaxPending)

CancelOverflow(t) ==
  /\ At(t, "overflow")
  /\ list' = [list EXCEPT ![t] = [r \in Listed |-> run[r]]]
  /\ todo' = [todo EXCEPT ![t] = Overflow({r \in Listed : run[r].status \in Pending})]
  /\ Then(t, <<"drain", "snapshot">>)
  /\ UNCHANGED <<files, mem, cur, head>> /\ KeepLocks

\* state_priority; among equals the newest comes first.
Priority(status) ==
  CASE status = "running" -> 0 [] status = "waiting_input" -> 1
    [] status = "queued" -> 2 [] OTHER -> 3

Before(r, s) == \/ Priority(run[r].status) < Priority(run[s].status)
                \/ Priority(run[r].status) = Priority(run[s].status) /\ r > s

RequiresDecision(r) ==
  \/ approval[r] = "pending"
  \/ run[r].status = "waiting_input" /\ approval[r] = "none"

\* The head, if the snapshot shows no active run and the head needs no
\* decision and was requested to run by itself.
Startable ==
  {r \in Listed : /\ \A s \in Listed : run[s].status \notin Active
                  /\ \A s \in Listed \ {r} : Before(r, s)
                  /\ ~RequiresDecision(r)
                  /\ run[r].auto}

Snapshot(t) ==
  /\ At(t, "snapshot")
  /\ head' = [head EXCEPT ![t] = IF t \in Maintainers /\ Startable # {}
                                 THEN CHOOSE r \in Startable : TRUE ELSE NoRun]
  /\ recLock' = NoThread
  /\ list' = [list EXCEPT ![t] = <<>>]
  /\ cur' = [cur EXCEPT ![t] = NoRun]
  /\ Return(t)
  /\ UNCHANGED <<files, procLock, mem, todo, calls>>

ReconcileStep(t) ==
  \/ ReconcileList(t) \/ ReadApproval(t) \/ WriteCopy(t) \/ StallGaps(t)
  \/ Expire(t) \/ CancelOverflow(t) \/ Drain(t) \/ Snapshot(t)

----------------------------------------------------------------------------
(* TaskRuntimeService.start, at the grain of this module.                  *)

\* The copy is read before get_result, and does not learn what that repairs.
StartRead(t) ==
  /\ At(t, "start")
  /\ mem' = [mem EXCEPT ![t] = run[cur[t]]]
  /\ Goto(t, "start_test")
  /\ UNCHANGED <<files, cur, list, todo, head>> /\ KeepLocks

\* store.get_result: a result is projected onto the run, and a run that has
\* ended without one is given one.
GetResult(r) ==
  /\ run' = [run EXCEPT ![r].status = IF result[r] THEN "ended" ELSE @]
  /\ result' = [result EXCEPT ![r] = @ \/ run[r].status = "ended"]

\* A copy that is running or ended is written back; else the guard refuses
\* the run, or it is started.
StartTest(t) ==
  /\ At(t, "start_test")
  /\ \/ /\ mem[t].status \notin Pending
        /\ Goto(t, "start_return") /\ UNCHANGED mem
     \/ /\ mem[t].status \in Pending
        /\ mem' = [mem EXCEPT ![t].status = "ended"]
        /\ Goto(t, "finish")
     \/ /\ mem[t].status \in Pending
        /\ mem' = [mem EXCEPT ![t].status = "running"]
        /\ Goto(t, "begin")
  /\ GetResult(cur[t])
  /\ UNCHANGED <<approval, old, cur, list, todo, head>> /\ KeepLocks

\* The run is written as running; the steps of its plan end it, with
\* whatever outcome.
Begin(t) ==
  /\ At(t, "begin")
  /\ run' = [run EXCEPT ![cur[t]] = mem[t]]
  /\ mem' = [mem EXCEPT ![t].status = "ended"]
  /\ Goto(t, "finish")
  /\ UNCHANGED <<result, approval, old, cur, list, todo, head>> /\ KeepLocks

\* The end of the loop: the run, then its result.
FinishRun(t) ==
  /\ At(t, "finish")
  /\ run' = [run EXCEPT ![cur[t]] = mem[t]]
  /\ Goto(t, "save_result")
  /\ UNCHANGED <<result, approval, old, locals>> /\ KeepLocks

SaveResult(t) ==
  /\ At(t, "save_result")
  /\ result' = [result EXCEPT ![cur[t]] = TRUE]
  /\ run' = [run EXCEPT ![cur[t]].status = "ended"]
  /\ Goto(t, "start_return")
  /\ UNCHANGED <<approval, old, locals>> /\ KeepLocks

\* start() writes its copy back once more.
StartReturn(t) ==
  /\ At(t, "start_return")
  /\ run' = [run EXCEPT ![cur[t]] = mem[t]]
  /\ mem' = [mem EXCEPT ![t] = Absent] /\ cur' = [cur EXCEPT ![t] = NoRun]
  /\ Return(t)
  /\ UNCHANGED <<result, approval, old, list, todo, head>> /\ KeepLocks

StartStep(t) ==
  \/ StartRead(t) \/ StartTest(t) \/ Begin(t)
  \/ FinishRun(t) \/ SaveResult(t) \/ StartReturn(t)

----------------------------------------------------------------------------
(* TaskRuntimeService.process_queue, under its own lock: reconcile, start  *)
(* the head if the snapshot allows it and the run still is pending, and    *)
(* reconcile again.                                                        *)
ProcessQueue(t) ==
  /\ At(t, "idle")
  /\ procLock = NoThread
  /\ procLock' = t
  /\ Then(t, <<"reconcile", "decide">>)
  /\ UNCHANGED <<files, recLock, locals, calls>>

Decide(t) ==
  /\ At(t, "decide")
  /\ IF head[t] # NoRun /\ run[head[t]].status \in Pending
     THEN /\ cur' = [cur EXCEPT ![t] = head[t]]
          /\ Then(t, <<"start", "reconcile", "process_done">>)
     ELSE Goto(t, "process_done") /\ UNCHANGED cur
  /\ head' = [head EXCEPT ![t] = NoRun]
  /\ UNCHANGED <<files, mem, list, todo>> /\ KeepLocks

ProcessDone(t) ==
  /\ At(t, "process_done")
  /\ procLock' = NoThread
  /\ head' = [head EXCEPT ![t] = NoRun]
  /\ Goto(t, "idle")
  /\ UNCHANGED <<files, recLock, mem, cur, list, todo, calls>>

----------------------------------------------------------------------------
(* Clients: create_run, start and cancel of TaskRuntimeService.            *)
Call(t, r, labels) ==
  /\ At(t, "idle") /\ calls < MaxCalls
  /\ calls' = calls + 1
  /\ cur' = [cur EXCEPT ![t] = r]
  /\ Then(t, labels)
  /\ UNCHANGED <<result, old, recLock, procLock, list, todo, head>>

\* store.create_run: the run is in the queue's sight from here on.
Create(t) ==
  \E r \in Runs, auto \in BOOLEAN :
    /\ run[r].status = "absent" /\ \A s \in 1..(r - 1) : run[s].status # "absent"
    /\ run' = [run EXCEPT ![r] = [status |-> "created", auto |-> auto]]
    /\ approval' = [approval EXCEPT ![r] = IF r \in Governed THEN "pending" ELSE "none"]
    /\ mem' = [mem EXCEPT ![t] = run'[r]]
    /\ Call(t, r, <<"create_write", "reconcile", "idle">>)

\* The guard's decision: the run is blocked, waits for its approval, is
\* queued to run by itself, or stays as it was created, for a manual start.
CreateWrite(t) ==
  /\ At(t, "create_write")
  /\ LET r == cur[t]
         waits == approval[r] \notin {"none", "approved"}
         status == CASE waits -> "waiting_input"
                     [] ~waits /\ mem[t].auto -> "queued"
                     [] OTHER -> "created" IN
     \/ run' = [run EXCEPT ![r] = [mem[t] EXCEPT !.status = "ended"]]
     \/ run' = IF status = "created" THEN run
               ELSE [run EXCEPT ![r] = [mem[t] EXCEPT !.status = status]]
  /\ mem' = [mem EXCEPT ![t] = Absent]
  /\ Return(t)
  /\ UNCHANGED <<result, approval, old, cur, list, todo, head>> /\ KeepLocks

Start(t) ==
  \E r \in Runs : /\ run[r].status # "absent"
                  /\ Call(t, r, <<"start", "idle">>)
                  /\ UNCHANGED <<run, approval, mem>>

Cancel(t) ==
  \E r \in Runs : /\ run[r].status # "absent"
                  /\ Call(t, r, <<"cancel", "reconcile", "idle">>)
                  /\ UNCHANGED <<run, approval, mem>>

\* A person decides, or the approval expires.
DecideApproval(r) ==
  /\ approval[r] = "pending"
  /\ \E status \in {"approved", "rejected", "withdrawn"} :
       approval' = [approval EXCEPT ![r] = status]
  /\ UNCHANGED <<run, result, old, recLock, procLock, pc, stack, locals, calls>>

\* The run has waited for max_wait_seconds.
Age(r) ==
  /\ run[r].status \in Pending /\ ~old[r]
  /\ old' = [old EXCEPT ![r] = TRUE]
  /\ UNCHANGED <<run, result, approval, recLock, procLock, pc, stack, locals, calls>>

Continue(t) == \/ CancelStep(t) \/ ReconcileStep(t) \/ StartStep(t)
               \/ Decide(t) \/ ProcessDone(t) \/ CreateWrite(t)

Next == \/ \E t \in Maintainers : ProcessQueue(t)
        \/ \E t \in Clients : Create(t) \/ Start(t) \/ Cancel(t)
        \/ \E t \in Threads : Continue(t)
        \/ \E r \in Runs : DecideApproval(r) \/ Age(r)

Spec == Init /\ [][Next]_vars

(* A thread in a call is run, the maintenance loop processes the queue     *)
(* again and again, and time passes; nobody has to decide an approval.     *)
FairSpec ==
  /\ Spec
  /\ \A t \in Threads : WF_vars(Continue(t))
  /\ \A t \in Maintainers : WF_vars(ProcessQueue(t))
  /\ \A r \in Runs : WF_vars(Age(r))

----------------------------------------------------------------------------
\* Runs whose create_run has not come to its own reconciliation.
Creating == {cur[t] : t \in {u \in Threads : pc[u] \in {"create_write", "reconcile"}}}

(* The limit holds when reconcile takes its snapshot: of the runs it       *)
(* listed, no more than max_pending_tasks are pending, although clients    *)
(* start and cancel them meanwhile.  A run still being created may exceed  *)
(* it: its creator may write it back after it was cancelled, and then      *)
(* reconciles once more.                                                   *)
PendingWithinLimit ==
  \A t \in Threads : At(t, "snapshot") =>
    Cardinality({r \in DOMAIN list[t] \ Creating : run[r].status \in Pending}) <= MaxPending

(* No run stays in the queue for ever: behind a head that waits for a      *)
(* decision, or one nobody starts, it is cancelled when it has waited for  *)
(* max_wait_seconds.                                                       *)
NoPendingForever ==
  \A r \in Runs : run[r].status \in Pending ~> run[r].status \notin Pending

(* A run whose approval was rejected ends, wherever the decision finds it: *)
(* waiting, starting or running.                                           *)
DeniedRunEnds ==
  \A r \in Runs : approval[r] = "rejected" ~> run[r].status = "ended"

(* Reconciliation leaves the history alone: the copy it writes does not    *)
(* bring a run that has ended back into the queue.                         *)
TerminalHistoryPreserved ==
  [][\A t \in Threads :
       WriteCopy(t) /\ run[cur[t]].status = "ended"
         => run'[cur[t]].status = "ended"]_vars
=============================================================================
