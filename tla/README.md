# AIpinho: a TLA+ model of the task runtime, of grants and of approved patches

AIpinho is a local server that turns requests into *TaskRuns*: plans whose steps
are executed under guards, with every decision recorded in a timeline. Requests
are served by threads of one process; runs live in files under the data
directory and survive a restart. So do the approvals and grants that people
give, and the patches that the system applies to a workspace. This project
models the parts of the system where that combination is hard to test: records
in files, and the threads that read, decide and write them back.

Paths below are relative to `src/aipinho/` of the repository unless they begin
with `config/`, `reports/` or `tests/`. `store` is
`services/runtime/task_run_store.py`, `loop` is
`services/runtime/supervised_execution_loop.py`, `artifact runtime` is
`services/governance/runtime/readonly_analysis_artifact_runtime_service.py`.

## The system's parts

| part | where | modelled |
|---|---|---|
| event log of a run (`events.json`, store lock) | store | `EventJournal`, `RunEventLog`, `RunEventLogProofs` |
| run, index and result files, repair on read | store | `TaskRuntime`, `TaskRuntimeProofs`, `TaskRuntimeSafety` |
| lifecycle of a run | `services/runtime/task_run_lifecycle_service.py`, `config/runtime/task_run_lifecycle_policy.yaml` | `TaskRunLifecycle` |
| supervised loop, `start()` | loop, `services/runtime/task_runtime_service.py` | `TaskRuntime` |
| cancellation | `services/runtime/task_run_cancellation_service.py` | `TaskRuntime` |
| runtime budget guard, artifact stall guard | store | `TaskRuntime` |
| accepted artifact worker and its guard thread | artifact runtime | `TaskRuntime` |
| task queue and its maintenance loop | `services/runtime/task_queue_service.py`, `services/runtime/task_queue_maintenance_service.py` | `TaskQueue`, `TaskQueueProofs` |
| authority grants | `services/policy_kernel/authority_grant_service.py` | `GrantLedger`, `AuthorityGrant`, `AuthorityGrantProofs` |
| approvals | `services/approvals/` | `Approvals` |
| patch apply, backup, rollback | `services/patching/apply/` | `PatchApply` (with `Approvals`), `PatchApplyProofs`, `PatchSafetyProofs`, `PatchReportProofs` |
| missions and workflows | `services/runtime/mission_phase_coordinator_service.py` | no, see below |
| workspace locks | `services/agents/workspace_lock_service.py` | no, see below |
| chat, semantics, retrieval, models, artifact rendering, reports, view models, API routing | the other packages | no: data transformation and I/O, without state that several threads share |

`PROJECT.json` lists the parts one by one, and the hazards of the code with the
line where each one bites.

How they interact: the API, the queue or a chat service calls `start()`, which
runs the whole plan in the caller's thread. Meanwhile other requests cancel the
run, read its result or its session, and the queue's maintenance loop inspects
it. They share nothing but files. Each file is replaced atomically
(`store._write`), but `update_run`, `save_result` and `get_result` take no lock,
and each thread carries its own copy of the run from a read to a later write.
Only `append_event` and the two `terminalize_if_...` guards use the class-level
re-entrant lock `_terminal_event_lock`.

Grants, approvals and apply runs follow the same pattern without any lock. The
endpoints are plain `def` functions, which the server runs in a pool of threads,
so two calls on one record do overlap. An approval and an apply run are replaced
through a temporary file; a grant is written in place. An apply run consults the
approval of its plan twice, when it is created and when it is executed, and
every such consultation may itself expire the approval.

## Modules

**`EventJournal`** is the abstract specification of `append_event`: a journal
that grows by one event at a time, numbered 1, 2, 3, ..., with one terminal
event and at most one store-made marker per reason. A marker that the artifact
runtime creates itself (`_emit_terminal_event`) is a separate type (`noted`),
because that code does not look for an earlier one.

**`RunEventLog`** is the code: threads build an event with a sequence number
guessed outside the lock (`TaskRunEventService.create`), enter the re-entrant
lock, check for a terminal event, read the file, renumber, write, leave. The
guards hold the lock around their own check and their appends. A write can be
refused (`_write` raises after five attempts) and the process can stop anywhere.
A guard that finds a terminal event may also leave without a marker: the stall
guard does, and so does a caller that asks for none
(`record_ignored_attempt=False`).

| state | code |
|---|---|
| `events` | `events.json` |
| `owner`, `depth` | `_terminal_event_lock` (an `RLock`) |
| `cur`, `buf`, `todo`, `decided` | locals of `append_event` and of the guards |

**`TaskRunLifecycle`** holds the states of a run and the maps between run
status, result status and terminal event.

**`TaskRuntime`** is one run and all the threads that work on it. A thread has a
program counter and a stack of labels to return to, so that `update_run`,
`save_result`, `get_result` and `ensure_terminal_result` are written once and
called from everywhere; each step reads or writes at most one shared file.

| state | code |
|---|---|
| `runJson`, `index`, `result` | `run.json` (status, cancellation flag), `run_index.json`, `result.json` |
| `term`, `started`, `artifact` | what the threads ask of the event log: its terminal event, whether the run was started, whether an artifact creation is open |
| `lock` | `_terminal_event_lock` held by a guard |
| `mem`, `data`, `res` | a thread's copy of the run, of the raw file, of the result |
| `overBudget` | whether the runtime budget has passed |
| `executed`, `succeeded`, `cancelAcked`, `cancels`, `crashes` | history, read only by properties and bounds |

Abstractions: guard decisions, step outcomes and the completion and validation
gates are nondeterministic within what the code allows. Events that nobody asks
about are only the step that needs the lock. Identical consecutive
`update_run` calls inside an artifact step are one write. The approval
cancellation and the queue reconciliation at the end of
`TaskRuntimeService.cancel` are represented by the stall guard, which may run at
any time; the continuation of a mission after `start()` is not modelled. One
constant may play several roles (one thread that cancels, then supervises): this
only orders calls of a client and keeps the instances small.

A worker, its guard and the request may meet an exception at any step; the end
of such a thread is `"raised"`, the end of a call that ran to its return
`"done"`. The worker catches one exception and looks for a gap to fill
(`WorkerRaises`); a second one, inside the repair, ends it. The guard returns
when its first event is refused (`Watch`), and nothing catches what its loop or
the request raises (`GuardRaises`).

**`TaskQueue`** is several runs and the threads that keep them in a queue:
`reconcile` under its lock (list, approvals, stalled artifacts, expiry,
overflow, snapshot), `process_queue` under its own, and clients that create,
start and cancel without either. It is written in the style of `TaskRuntime` at
a coarser grain: a run and its index are one record, a listing is one step, and
all terminal statuses are `"ended"`, because the queue does not tell them apart.

| state | code |
|---|---|
| `run`, `result`, `approval` | status and `auto_run_requested` of each run, whether it has a result, the status of its approval |
| `old` | the run has waited for `max_wait_seconds` |
| `recLock`, `procLock` | `_reconcile_lock`, `_queue_process_lock` |
| `list`, `todo`, `mem`, `cur` | the copies `reconcile` listed, the runs it has still to handle, a thread's copy of the run in hand, and which run that is |
| `head` | the run that the snapshot lets `process_queue` start |

The runtime guard may refuse or allow any start, and a cancellation request
left on a running run changes nothing the queue sees, so the flag is left out.
Approvals are external here: one is decided, withdrawn or left pending at any
time. Missing files, unreadable approvals and invalid dates are left out. Runs
are numbered in the order of their `created_at`, so a sorted list is a set here:
`reconcile` reads the approvals of the newest run first (`Max`), cancels the
oldest first (`Drain`, a loop over the runs it picked), and a listing holds the
`ListLimit` newest (`limit=1000` in the code).

**`GrantLedger`** is the abstract specification of an authority grant: one
record that changes in single steps, is decided once, is used only while it is
approved and never more often than its limit. The promise is void from the
moment somebody saves a copy over a version they had not read (`spoiled`),
because the code does nothing to prevent that.

**`AuthorityGrant`** is the code: `approve`, `deny`, `revoke`, `list_grants`,
`is_effective`, `consume` and `ensure_mission_grant` for one grant. A save
empties the file and then fills it (`write_text`), so that a reader in between,
or a stop in between, meets a file that cannot be parsed.

| state | code |
|---|---|
| `grant` | the grant's file: a record, `Absent`, or `Torn` |
| `kind`, `limit`, `due` | mission or session grant, `max_uses`, whether `expires_at` has passed |
| `pc`, `op`, `mem`, `after` | a caller's position, method, copy of the grant, and what follows its save |
| `last`, `stale`, `overwritten`, `uses` | history: the last complete record, whose copy is old, whether one was saved, the uses answered `grant_consumed` |

Whether a use is in scope is nondeterministic. Two callers that have the file
open at once may leave a mixture of their records behind, and it may last: the
one that writes later does not cut off the longer record of the other
(`Fill`).

**`Approvals`** is one approval request: `approve`, `reject`, `cancel`,
`refresh_policy`, `attach_runtime_context` and `get_approval`, each of which
reads the file, expires it when it is overdue, and saves its copy later.
`approval` is the status in the file; `apc`, `request`, `copy`, `then` are a
caller's position and locals; `consented`, `behind`, `lost` are history. The
save is one step: that two saves share the name of their temporary file is left
out. A get through the endpoint is not a call of its own, because a decision
that comes too late does the same.

**`PatchApply`** extends `Approvals` with one plan and its apply run: creation,
guard, `execute`, the engine, the atomic write, validation, `rollback`,
`cancel`. The guard of a thread asks for the approval through the actions of
`Approvals`; the people who decide it are other callers of the same actions.

| state | code |
|---|---|
| `content`, `temp` | each affected file and its temporary file, as versions (`original`, `edited`, `patched`, ...) |
| `run`, `result` | the records of the run (status, backups) and of its result (status, what caused it) |
| `runTemp`, `resultTemp`, `staged` | the temporary files of the two records, and the threads that have written one and not yet moved it |
| `pc`, `op`, `mine`, `held`, `next`, `text`, `saved`, `wrote` | a thread's position, method, copies of the records, file in hand, text to write, backups and reports of its engine |
| `calls`, `mishaps` | counters for the bound |
| `left`, `disturbed` | history: temporary files left by a restart; whether calls overlapped, one was cut short or somebody edited a file |

Errors are actions: an I/O error in the engine or in a write (`IOError`), a
record that cannot be saved or read (`RecordError`), an answer that cannot be
read back once it is saved (`AnswerRaises`), an exception between the start and
the `try` (`StartRaises`), a restart (`Crash`), an edit by somebody else
(`Edit`). Versions replace hashes. Hunks that meet a file that was patched
already may match once more and no further. The other reasons of the guard
(quality, confirmation, scope, policy) may block at any time. `execute` reads
the result and the run in one step, which loses nothing, since a result never
disappears.

A record is saved in two steps, as `PatchApplyStore._write` does: `Stage` writes
the temporary file, and the action that the save belongs to moves it into place
(`SaveRun`, `SaveResult`). All threads share the name of that file. So a thread
may move what another one wrote, and a thread whose file is gone raises
(`Gone`), into the `except` of `execute` or out of the call. Such a collision
counts as a mishap, like the collision of two writers of the events file, which
`StartRaises` and `RecordError` stand for. A write of a temporary file is one
step: of two threads that write it at once, one finds it gone in any case. The
first save of a run has a fresh name and is one step. A plan lists each file once, as `dict.fromkeys` in the resolver
of affected files does.

## Runs

| run | instance | shows |
|---|---|---|
| `event_log` | 2 threads, 2 reasons, no new call after 3 events, 1 restart | the log is contiguous, append-only, ended once; guards decide for good; it implements `EventJournal`; the lock is released |
| `runtime_reads` | a start, a cancel, a reader | an ended run has its terminal event and gets a result; `run.json` agrees with the result in the end |
| `runtime_restart` | a start with an artifact step, one thread that cancels and runs both guards, 1 restart | no false success, no step executed twice, an abandoned run is ended |
| `runtime_worker` | an artifact worker, its guard and the request, each of which may raise | no false success; worker and guard leave a terminal event or a result, unless exceptions ended both |
| `queue` | 2 runs, 1 with an approval, 1 already queued, limit 1, the maintenance loop, 2 client calls | the limit holds at each snapshot, no run is pending for ever, a denied run ends |
| `grants` | 2 callers, limits 0, 1, 2 and none, 4 calls, 1 restart | recorded uses stay within the limit, and are exact until a stale copy is saved; a half-written file fails closed; the calls implement `GrantLedger` |
| `approved_patch` | 2 threads, 2 deciders, 2 files of which 1 is new, 4 calls and mishaps together | nothing is written without an approval; a decision stands; the report is true of the files; no temporary file and no running run is left behind |
| `queue_history` | the same as `queue` | **violated**: `reconcile` brings an ended run back |
| `cancel_race` | a start and a cancel | **violated**: the check before a step misses a recorded cancellation |
| `two_starts` | two starts | **violated**: both execute the plan |
| `lost_result` | a start, a reader, the budget guard, 1 restart | **violated**: an ended run never gets its result |
| `guard_race` | an artifact worker and its guard | **violated**: the guard overwrites a result |

The exact constants are in the `.cfg` files. The bounds are chosen by case, not
by size: between the runs, one or two steps are enough for a failing, a skipped
and a succeeding step; one cancel and one restart reach every pair of program points, because the
threads are otherwise free to interleave; three events are enough for a terminal
event, a marker and a colliding guess, and calls in progress still go beyond the
bound. In `queue`, a limit of 1 makes a second run overflow, and the run found
in the queue leaves both client calls free to race with the maintenance loop.
`ListLimit` is the number of runs there: a queue that the listing cuts short is
left to the proofs, which hold for any limit.
In `grants`, four calls are an approval, two uses and a revocation, or a use
that races with each of them; a limit of 2 tells the last use from the first,
and a limit of 0 is a grant that is spent from the start. In `approved_patch`,
the second file lets the engine fail after the first was written, the new file
has no backup, and four events are a decision, an execution and two of: another
execution, a rollback, a cancellation, another decision, an error, an edit, a
restart. A request of a decider, and the expiry, are never the last of the four
events (`Early`): after it there is still a call or a mishap to come, and the
calls in progress. Collisions are not bounded. The threads and the deciders are
symmetric: no definition names one of them, and no property of the run is a
liveness property. This is the largest run, with 2.5 million distinct states;
`runtime_worker` has 1.7 million.
Deadlock checking is off because every instance may come to rest: nobody
is obliged to call again.

The five violated properties each state a sentence of the repository, quoted
under `findings` in `PROJECT.json`:

* `CancelSeenBeforeStep`: `config/runtime/task_cancellation_policy.yaml:6`
  (`check_before_each_step: true`). The loop writes its own copy of the run over
  the flag that `cancel()` wrote.
* `StepsRunOnce` with two starts: `config/runtime/task_run_lifecycle_policy.yaml:22`
  (`duplicate_start_behavior: return_existing_state`). The test of the status and
  the write of `running` are separate steps.
* `TerminalRunGetsResult` with a restart:
  `reports/runtime_consolidation/firetest5_h1c0_r2_3_result_finalization_summary.md:11`.
  The terminal event is written before `run.json`, and the repairs look at
  `run.json`.
* `GuardKeepsResult`:
  `reports/runtime_consolidation/firetest5_h1c0_r2_7_artifact_worker_terminalization_guard_summary.md:131`.
  The guard's check and its save are not one locked section.

* `TerminalHistoryPreserved`: `config/runtime/task_queue_policy.yaml:32`
  (`preserve_terminal_history: true`). `reconcile` stores the copy it listed when
  it finds the approval approved, over a run that was cancelled meanwhile.

`PendingWithinLimit` leaves out a run that is still being created: its creator
writes it again after the guard's decision, and may undo a cancellation by
overflow; the reconciliation at the end of `create_run` then applies the limit
anew.

`AbandonedRunEnds` has a premise: the restart finds `run.json` and the index
both in a state the budget guard acts on. Without it TLC finds a run whose index
is terminal while `run.json` is running (two interleaved `update_run` calls and
a stop between them), which nothing ends. No document promises more, so it is a
premise and a listed hazard rather than a finding.

The properties of grants and patches have premises too. What lies outside them
is what the code leaves open, and TLC finds an example of each:

* Two uses of a single-use grant are both answered `grant_consumed`, and a
  revoked grant comes back, when one caller saves a copy that is older than the
  file (`overwritten`). The same holds of a decision on an approval (`lost`).
* Overlapping calls on one apply run can make its result false of the files, and
  can leave a run `rolled_back` beside a result `completed`.
* When the engine raises after it has written a file, the run has not yet
  received the backups (`patch_apply_service.py` assigns `backup_ids` after
  `apply` returns). The rollback restores nothing, and the result is
  `failed_with_rollback` while the file stays patched, although
  `config/patching/apply/patch_apply_backup_policy.yaml:16` sets
  `automatic_restore_on_apply_failure: true`. `ReportIsTrue` excludes this
  cause, and the hazard list names it.
* A restart, or an exception between the start and the `try`, leaves the run
  `running`, and no later call resumes it. The exception may come from another
  call on the same run, which has moved the temporary file of the record away:
  of two executions that both save `running` at once, one ends with
  `FileNotFoundError`, and the status that remains is what the other saves. A restart between the write and the
  replacement of a temporary file leaves that file, and from then on every write
  of its target raises, the rollback's included.

## Fairness

`RunEventLog`: weak fairness of each thread's steps inside a call; nothing
obliges anyone to call. `TaskRuntime`: weak fairness of the steps inside a call
(threads of the operating system are scheduled), of the reader's next call
(clients poll the result), and of the passing of time. The budget guard has
strong fairness: clients poll the task session, which blocks on the store lock
until it is free, and locked sections are finite. `TaskQueue`: weak fairness of
the steps inside a call, of the maintenance loop's next `process_queue`
(`run_forever` calls it every few seconds, whatever it raises), and of the
passing of time; nobody has to decide an approval. No fairness is assumed for
starting or cancelling a run. `AuthorityGrant` and `PatchApply` have no
fairness: what they promise is safety, and nothing in the code makes a caller
come back.

## Proofs

Eight modules hold theorems. Each theorem is for any sets of threads, callers,
runs and files and any bounds, from the assumptions named in the component's
module. Every inductive invariant was checked by TLC before it was proved.

**`RunEventLogProofs`** assumes that `NoThread` is not a thread, that there is a
reason and that the bounds are naturals, and proves

* `TypeCorrect`, `SequencesNeverCollide`, `TerminalizedAtMostOnce`,
  `GuardsDecideForGood`: the safety invariants of the run `event_log`;
* `LogIsAppendOnly`: its action property;
* `Refinement`: `RunEventLog` implements `EventJournal`.

None of the invariants is inductive alone. The inductive invariant (`Invariance`)
adds the lock discipline: only the owner is inside a locked section, and the
lock is free exactly when its depth is zero; what a section has established
so far (the buffer equals the file at the write, a terminal event in hand means
none is in the file, a marker in hand has no equal in the file); and that a
guard which decided to block still finds no terminal event. Each action
preserves it in a lemma of its own, and the refinement needs only the write.

**`AuthorityGrantProofs`** assumes that limits are naturals, that `NoLimit` is
not, and that `Absent` and `Torn` are no records, and proves

* `TypeCorrect`, `LimitRecorded`, `UsesCounted`: the invariants of the run
  `grants`;
* `TornStays`: a half-written record is never used, decided or replaced;
* `Refinement`: `AuthorityGrant` implements `GrantLedger`.

There is no lock to reason from. The inductive invariant (`IndInv`) speaks of
the copies instead: every copy, and the last complete record, respects the
limit (`CopiesWithin`), so that whoever saves one does no harm to the limit,
stale or not; and as long as no stale copy was saved, a copy that is not stale
equals the last record, or is one decision ahead of it, with the uses counted
so far (`Exact`). The refinement maps the abstract step to `Fill`, where the
record appears; while the file is torn the ledger still shows the record before.

**`PatchApplyProofs`, `PatchSafetyProofs` and `PatchReportProofs`** assume that
deciders and threads are distinct callers and that the plan lists every file,
once, and prove

* `TypeCorrect`, `Approved` (`AppliedOnlyIfApproved`), `TempOwned`
  (`TempInFlight`), `Settled` (`NoRunLeftRunning`), `ReportTrue`
  (`ReportIsTrue`): the invariants of the run `approved_patch`;
* `Stands` (`DecisionStands`): its action property.

Each has its own strengthening over the common types (`Typed`). `Stands` needs
that a copy which is not behind agrees with the file (`CopiesCurrent`).
`Approved` needs two things: an answer "approved" in anybody's hands implies
that the file has said so (`Consent`), and while nobody has consented no thread
is past the guard with anything patched in its text, its backups, a temporary
file or the record (`NothingPatched`). `Settled` needs that, while nothing has
gone wrong, a running run has a thread at work that will save it again
(`Minded`), that what a thread is about to save has the status its label implies
(`SavesWell`), and that the temporary file it moves is the one it wrote
(`Drafted`). The last is false as soon as two threads have written the same one.
But then one of them is bound to find it gone (`Contended`), no step of another
thread changes that, and the calls cannot all end without a mishap; until they
do, nothing is claimed of the records (`Attended`).

`ReportTrue` speaks of the moments when nobody is at work, so its inductive
invariant (`ReportInv`, in `PatchReportProofs`) follows one undisturbed call
through all its labels. At most one thread is at work (`OneAtWork`), and what it has staged is its own
copy (`OwnDrafts`). The engine
has patched and saved the files before the current one and touched none after
it (`Progress`). At the end of `execute` the backups restore the files
(`Restorable`). A rollback has restored the files before the current one unless
a write failed (`Undone`), and when the engine raised nothing is claimed
(`Sound`). When nobody is at work the records say what the files are
(`RecordsTrue`). There is a lemma for the beginning of a call, for the engine and
the end of `execute`, for the rollback and for the errors. That the plan lists
each file once is used here: a second visit would back up the patched text.

**`TaskRuntimeProofs`** and **`TaskRuntimeSafety`** assume that `NoThread` is not
a thread, that workers are starts, that the required and the artifact steps are
steps of the plan, that the outcomes are those of the step runners and that a
run is found in no terminal state, and prove

* `TypeCorrect`: the type invariant of the run `runtime_restart`;
* `EarnedSuccess` (`SuccessIsEarned`), without any further premise;
* `EndsAreAnnounced` (`TerminalRunHasEvent`), while the process has not stopped
  and there is no worker, guard or request that can raise (`NobodyRaises`);
* `ExecutedOnce` (`StepsRunOnce`), with one `start()` at a time and no waiting
  request (`OneStart`);
* `SentenceLeft` (`WorkerLeavesSentence`), when worker, guard and request are
  threads of their own and nobody cancels the run (`OwnThreads`).

All rest on the control (`ControlInv`, in `TaskRuntimeProofs`). A thread's stack
holds operations of the store and, at its bottom, one step of the thread's own
call (`Nested`); what that step relies on is true when the store returns to it
(`Ready`), such as a position within the plan or a terminal status in the copy
it will announce. `EarnedInv` adds that the word "completed" is in no file and
no thread's copy before a start has completed the required steps: the loop's
outcome is its only source, all the rest copies it. `EventInv` says that once
any file or copy shows the end, the terminal event exists or some thread still
owes it. `OnceInv` says that a copy which `start()` would take up is written
back only before anything was executed. `SentenceInv` says that a worker or
a guard comes to its end, other than by an exception, only after it has met or
made a terminal event or a result; so either of them is enough, whatever became
of the other.

The premises are what the code needs: TLC finds a counterexample to each property
without its premise. A guard writes the run and the result first and the
terminal event last, so that a restart in between leaves an ended run without
its event; so does an exception in a worker or guard that fills a gap. Two starts
execute a step twice (the violated run `two_starts`), and after a restart so
does a new start when `_mark_accepted_running` has written back a copy that it
had read earlier. The guard of a worker does nothing for a run whose
cancellation was requested, so that a worker which raises then leaves no
sentence. An exception in the worker and another one in the guard leave none
either, nor does an exception in the worker when the request has returned
without starting a guard: the budget guard remains for these.

**`TaskQueueProofs`** assumes that maintainers and clients are distinct threads
and that the limits are positive, and proves

* `QueueTypeCorrect`: the type invariant of the run `queue`;
* `LimitKept` (`PendingWithinLimit`).

`ControlInv` is the counterpart of the one above: where a call stands
(`Nested`), that a thread has a copy of each run whose approval it will read,
that only `create_run` and `reconcile` write a pending copy, and that the lock
is held all through `reconcile` (`Ready`). The limit is no consequence of the
lock, which clients do not take. `LimitInv` therefore begins when the overflow
is picked. From then on the listed runs that are pending, not picked and not
being created are at most `MaxPending`: `Newest` keeps that many (`NewestFew`),
and no step adds one. A run leaves the picked ones only when it has ended
(`CancelLimits`). Another thread makes a run pending only by creating it, and a
run does not cease to be "being created" while another thread reconciles
(`NoneRevived`, `StillCreating`). At the snapshot nothing picked is left.

Only model-checked: every liveness property (`LockReleased`, `NoPendingForever`,
`DeniedRunEnds`, `TerminalRunGetsResult`, `ResultProjected`,
`AbandonedRunEnds`), which the prover does not reach, and the properties of the
violated runs, which do not hold.

## Not modelled

The implementation has some 211,000 lines in 2,600 files, and the definitions
here stand for a small share of them, between one and two percent. The rest was
surveyed package by package (`PROJECT.json`, `components`) and is of three
kinds.

* Most of it computes a value from a value: classification and rendering of
  text, schemas, view models, reports, retrieval scores, prompt assembly,
  artifact validation, plan and diagnosis rules. It has no state from one call
  to the next that a second thread could meet. A model would have to restate
  its string rules, which the repository's unit tests exercise directly.
* A part is pure I/O: model providers, bridges to other agents, HTTP routing.
  What it returns appears in the models as a nondeterministic outcome.
* Some has state worth modelling and is left out:
  * the continuation of missions after `start()`, whose decisions depend on the
    contents of plans and contracts, and whose runs are those of `TaskRuntime`;
  * workspace locks: one file per lock, without a test before the write, so
    that two overlapping locks can be active is plain from the code;
  * of the approvals, the effect of an approval on a task run (in `TaskQueue` an
    approval is decided from outside) and the refresh of a preview, since the
    approval of a patch has none;
  * of the policy kernel, the evaluation of policies and scopes, which is a
    nondeterministic answer here;
  * the files of other stores (artifacts, memory, sessions), which repeat the
    read, decide, save pattern of `Approvals` and `AuthorityGrant` without a
    protocol of their own.

## Plan

1. Missions: the chaining of runs and its repair after a restart.
2. Approvals composed with `TaskQueue` in place of its external approvals.
3. Proofs: an abstract queue that `TaskQueue` implements, and the two-phase
   end of a run (event, run, result) as a refinement of one step.
