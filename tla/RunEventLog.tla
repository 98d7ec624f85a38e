----------------------------- MODULE RunEventLog -----------------------------
(* TaskRunStore.append_event and its callers, for the events.json of one   *)
(* run: the threads of the process that create events                      *)
(* (TaskRunEventService.create) and the guards that terminalize a run       *)
(* under the store lock (terminalize_if_runtime_budget_exceeded,           *)
(* terminalize_if_artifact_creation_stalled).  The lock is the class-level *)
(* RLock _terminal_event_lock: re-entrant, because append_event calls      *)
(* itself to record an ignored terminalization and because the guards call *)
(* append_event while they hold it.  A file is read in one step and        *)
(* replaced in another; the replacement itself is atomic (_write).         *)
EXTENDS Naturals, Sequences

CONSTANTS
  Threads,      \* request and maintenance threads of the process
  Reasons,      \* reason codes carried by the events
  NoThread,     \* nobody holds the lock
  MaxEvents,    \* bound: no new request once the journal has this length
  MaxCrashes    \* bound: restarts of the process

ASSUME ThreadAssumption == NoThread \notin Threads
ASSUME BoundAssumption == MaxEvents \in Nat /\ MaxCrashes \in Nat
ASSUME ReasonAssumption == Reasons # {}

VARIABLES
  events,       \* contents of events.json
  owner,        \* holder of _terminal_event_lock, or NoThread
  depth,        \* how many times the holder has entered it
  pc,           \* next step of each thread
  cur,          \* event each thread is appending, with its pre-computed seq
  buf,          \* events.json as the thread read it (get_events)
  todo,         \* events a guard still has to append in its locked section
  decided,      \* the guard found no terminal event and goes on to block
  crashes       \* restarts so far

vars == <<events, owner, depth, pc, cur, buf, todo, decided, crashes>>

Journal == INSTANCE EventJournal WITH events <- events, Reasons <- Reasons

Labels == {"idle", "acquire", "guard_acquire", "guard_check", "check",
           "read", "write", "release"}

NewEvent(seq, type, reason, of) ==
  [seq |-> seq, type |-> type, reason |-> reason, of |-> of]

NoEvent == NewEvent(0, "plain", CHOOSE r \in Reasons : TRUE, 0)

\* len(get_events) + 1, read without the lock: a guess that may be stale by
\* the time the lock is taken.
GuessedSequence == Len(events) + 1

SequenceNumbers(evs) == {evs[i].seq : i \in DOMAIN evs}

HighestSequence(evs) ==
  CHOOSE m \in SequenceNumbers(evs) : \A n \in SequenceNumbers(evs) : n <= m

\* max((item.sequence for item in events), default=0) + 1
NextSequence(evs) == IF evs = <<>> THEN 1 ELSE HighestSequence(evs) + 1

\* The terminal event with the smallest sequence number.
FirstTerminal(evs) ==
  CHOOSE i \in Journal!TerminalAt(evs) :
    \A j \in Journal!TerminalAt(evs) : evs[i].seq <= evs[j].seq

Init ==
  /\ events = <<>>
  /\ owner = NoThread
  /\ depth = 0
  /\ pc = [t \in Threads |-> "idle"]
  /\ cur = [t \in Threads |-> NoEvent]
  /\ buf = [t \in Threads |-> <<>>]
  /\ todo = [t \in Threads |-> <<>>]
  /\ decided = [t \in Threads |-> FALSE]
  /\ crashes = 0

----------------------------------------------------------------------------
(* TaskRunEventService.create: the event is built, with its guessed        *)
(* sequence number, before append_event takes the lock.                    *)
Create(t) ==
  /\ pc[t] = "idle"
  /\ Len(events) < MaxEvents
  /\ \E type \in {"plain", "terminal"}, reason \in Reasons :
       cur' = [cur EXCEPT ![t] = NewEvent(GuessedSequence, type, reason, 0)]
  /\ pc' = [pc EXCEPT ![t] = "acquire"]
  /\ UNCHANGED <<events, owner, depth, buf, todo, decided, crashes>>

(* _emit_terminal_event of the artifact runtime: it looks for a terminal   *)
(* event without the lock; when there is one it creates the marker itself, *)
(* else it creates its terminal event (Create).                            *)
EmitNoted(t) ==
  /\ pc[t] = "idle"
  /\ Len(events) < MaxEvents
  /\ Journal!HasTerminal(events)
  /\ \E reason \in Reasons :
       cur' = [cur EXCEPT ![t] = NewEvent(GuessedSequence, "noted", reason,
                                          events[FirstTerminal(events)].seq)]
  /\ pc' = [pc EXCEPT ![t] = "acquire"]
  /\ UNCHANGED <<events, owner, depth, buf, todo, decided, crashes>>

(* A guard is called: it takes the lock around its whole body.             *)
CallGuard(t) ==
  /\ pc[t] = "idle"
  /\ Len(events) < MaxEvents
  /\ \E reason \in Reasons :
       cur' = [cur EXCEPT ![t] = NewEvent(0, "terminal", reason, 0)]
  /\ pc' = [pc EXCEPT ![t] = "guard_acquire"]
  /\ UNCHANGED <<events, owner, depth, buf, todo, decided, crashes>>

\* Mutants of the lock: a lock that is not re-entrant, and no lock at all.
LockNotReentrant(t) == owner = NoThread
LockMissing(t) == TRUE

(* with self._terminal_event_lock                                          *)
MayEnter(t) == owner \in {NoThread, t}

Acquire(t) ==
  /\ pc[t] \in {"acquire", "guard_acquire"}
  /\ MayEnter(t)
  /\ owner' = t
  /\ depth' = depth + 1
  /\ pc' = [pc EXCEPT ![t] = IF @ = "acquire" THEN "check" ELSE "guard_check"]
  /\ UNCHANGED <<events, cur, buf, todo, decided, crashes>>

\* Mutant: a marker is appended without looking for an earlier one.
IgnoreWithoutDedupe(t) ==
  /\ cur' = [cur EXCEPT ![t] = NewEvent(GuessedSequence, "ignored", @.reason,
                                        events[FirstTerminal(events)].seq)]
  /\ pc' = [pc EXCEPT ![t] = "acquire"]

(* _append_terminalization_ignored: return if there already is a marker    *)
(* for this terminal event and reason, else append one; the nested         *)
(* append_event enters the lock again.                                     *)
IgnoreTerminalization(t) ==
  LET of == events[FirstTerminal(events)].seq IN
  IF Journal!HasMarker(events, of, cur[t].reason)
  THEN /\ pc' = [pc EXCEPT ![t] = "release"]
       /\ UNCHANGED cur
  ELSE /\ cur' = [cur EXCEPT ![t] =
                    NewEvent(GuessedSequence, "ignored", @.reason, of)]
       /\ pc' = [pc EXCEPT ![t] = "acquire"]

\* Mutant: terminal events are not checked for at the store boundary.
CheckNothing(t) ==
  /\ pc[t] = "check"
  /\ pc' = [pc EXCEPT ![t] = "read"]
  /\ UNCHANGED <<events, owner, depth, cur, buf, todo, decided, crashes>>

(* The head of append_event: a terminal event after the first one is       *)
(* turned into an ignored terminalization.                                 *)
Check(t) ==
  /\ pc[t] = "check"
  /\ IF cur[t].type = "terminal" /\ Journal!HasTerminal(events)
     THEN IgnoreTerminalization(t)
     ELSE /\ pc' = [pc EXCEPT ![t] = "read"]
          /\ UNCHANGED cur
  /\ UNCHANGED <<events, owner, depth, buf, todo, decided, crashes>>

\* Mutant: the guard blocks the run without looking for a terminal event.
GuardBlocksAnyway(t) ==
  /\ pc[t] = "guard_check"
  /\ decided' = [decided EXCEPT ![t] = TRUE]
  /\ pc' = [pc EXCEPT ![t] = "acquire"]
  /\ cur' = [cur EXCEPT ![t].seq = GuessedSequence]
  /\ UNCHANGED <<events, owner, depth, buf, todo, crashes>>

(* The guards' own check, at the head of their locked section.  A guard    *)
(* may return without a word: it finds nothing to do, or it finds the run  *)
(* ended and is the stall guard, or was asked not to record the attempt.   *)
(* Else, with a terminal event already there, the attempt is recorded as   *)
(* ignored; without one the run is blocked: the stall guard first records  *)
(* artifact_failed, both append run_blocked last.                          *)
GuardCheck(t) ==
  /\ pc[t] = "guard_check"
  /\ \/ /\ Journal!HasTerminal(events)
        /\ IgnoreTerminalization(t)
        /\ UNCHANGED <<todo, decided>>
     \/ /\ pc' = [pc EXCEPT ![t] = "release"]
        /\ UNCHANGED <<cur, todo, decided>>
     \/ /\ ~Journal!HasTerminal(events)
        /\ decided' = [decided EXCEPT ![t] = TRUE]
        /\ pc' = [pc EXCEPT ![t] = "acquire"]
        /\ \/ /\ cur' = [cur EXCEPT ![t] =
                           NewEvent(GuessedSequence, "terminal", @.reason, 0)]
              /\ UNCHANGED todo
           \/ /\ cur' = [cur EXCEPT ![t] =
                           NewEvent(GuessedSequence, "plain", @.reason, 0)]
              /\ todo' = [todo EXCEPT ![t] = <<cur[t]>>]
  /\ UNCHANGED <<events, owner, depth, buf, crashes>>

(* events = self.get_events(run_id)                                        *)
Read(t) ==
  /\ pc[t] = "read"
  /\ buf' = [buf EXCEPT ![t] = events]
  /\ pc' = [pc EXCEPT ![t] = "write"]
  /\ UNCHANGED <<events, owner, depth, cur, todo, decided, crashes>>

\* Mutant: the caller's pre-computed sequence number is trusted.
StoredAsGuessed(t) == cur[t]

(* The event as it is stored: renumbered under the lock.                   *)
Stored(t) == [cur[t] EXCEPT !.seq = NextSequence(buf[t])]

Write(t) ==
  /\ pc[t] = "write"
  /\ events' = Append(buf[t], Stored(t))
  /\ pc' = [pc EXCEPT ![t] = "release"]
  /\ UNCHANGED <<owner, depth, cur, buf, todo, decided, crashes>>

\* The locals of a call that ends.
ForgetCall(t) ==
  /\ pc' = [pc EXCEPT ![t] = "idle"]
  /\ cur' = [cur EXCEPT ![t] = NoEvent]
  /\ buf' = [buf EXCEPT ![t] = <<>>]
  /\ todo' = [todo EXCEPT ![t] = <<>>]
  /\ decided' = [decided EXCEPT ![t] = FALSE]

(* The replace of the file is refused five times: _write raises, every     *)
(* enclosing with statement is left and the call ends.                     *)
WriteFails(t) ==
  /\ pc[t] = "write"
  /\ owner' = NoThread
  /\ depth' = 0
  /\ ForgetCall(t)
  /\ UNCHANGED <<events, crashes>>

\* Mutant: the lock is released explicitly inside the with statement as well.
ReleaseTwice(t) ==
  /\ pc[t] = "release"
  /\ depth' = depth - 2
  /\ owner' = NoThread
  /\ ForgetCall(t)
  /\ UNCHANGED <<events, crashes>>

(* Leave one with statement.  A guard that still has an event to append    *)
(* goes on with it, computing its guess again.                             *)
Release(t) ==
  /\ pc[t] = "release"
  /\ depth' = depth - 1
  /\ IF depth = 1
     THEN /\ owner' = NoThread
          /\ ForgetCall(t)
     ELSE /\ UNCHANGED <<owner, buf, decided>>
          /\ IF todo[t] = <<>>
             THEN /\ pc' = [pc EXCEPT ![t] = "release"]
                  /\ UNCHANGED <<cur, todo>>
             ELSE /\ pc' = [pc EXCEPT ![t] = "acquire"]
                  /\ cur' = [cur EXCEPT ![t] =
                               [Head(todo[t]) EXCEPT !.seq = GuessedSequence]]
                  /\ todo' = [todo EXCEPT ![t] = Tail(@)]
  /\ UNCHANGED <<events, crashes>>

(* The process stops and is started again: the threads and the lock are    *)
(* gone, the file is as the last completed replace left it.                *)
Crash ==
  /\ crashes < MaxCrashes
  /\ crashes' = crashes + 1
  /\ owner' = NoThread
  /\ depth' = 0
  /\ pc' = [t \in Threads |-> "idle"]
  /\ cur' = [t \in Threads |-> NoEvent]
  /\ buf' = [t \in Threads |-> <<>>]
  /\ todo' = [t \in Threads |-> <<>>]
  /\ decided' = [t \in Threads |-> FALSE]
  /\ UNCHANGED events

Step(t) == \/ Acquire(t) \/ Check(t) \/ GuardCheck(t) \/ Read(t)
           \/ Write(t) \/ WriteFails(t) \/ Release(t)

Next == \/ \E t \in Threads : Create(t) \/ EmitNoted(t) \/ CallGuard(t) \/ Step(t)
        \/ Crash

Spec == Init /\ [][Next]_vars

\* A thread that can run is eventually run; nothing obliges a client to call.
FairSpec == Spec /\ \A t \in Threads : WF_vars(Step(t))

----------------------------------------------------------------------------
(* Every value has its type; in particular the lock is never left more     *)
(* often than it was entered (append_event nests inside the guards).       *)
TypeOK ==
  /\ events \in Seq(Journal!Event)
  /\ owner \in Threads \cup {NoThread}
  /\ depth \in Nat
  /\ pc \in [Threads -> Labels]
  /\ cur \in [Threads -> Journal!Event]
  /\ buf \in [Threads -> Seq(Journal!Event)]
  /\ todo \in [Threads -> Seq(Journal!Event)]
  /\ decided \in [Threads -> BOOLEAN]
  /\ crashes \in Nat

(* Sequence numbers have no gap and no duplicate, in file order, whatever  *)
(* the callers pre-computed: the loop refuses to start a run for which     *)
(* this fails (event_sequence_not_contiguous).                             *)
SequenceContiguous ==
  \A i \in DOMAIN events : events[i].seq = i

(* append_event records at most one terminal event for a run, and at most  *)
(* one marker of its own for each reason a later terminalization gave.     *)
TerminalRecordedOnce ==
  \A i, j \in DOMAIN events :
    \/ i = j
    \/ events[i].type # events[j].type
    \/ /\ events[i].type # "terminal"
       /\ events[i].type = "ignored" => events[i].reason # events[j].reason

(* A guard that found no terminal event under the lock and decided to      *)
(* block the run has the terminal event it appends at the end recorded as  *)
(* such: nobody terminalizes the run between its check and its append.     *)
GuardDecisionStands ==
  \A t \in Threads : decided[t] => cur[t].type # "ignored"

(* The log is append-only: no step, not even a crash or a failed write,    *)
(* drops, reorders or rewrites a recorded event.                           *)
AppendOnly ==
  [][ /\ Len(events) <= Len(events')
      /\ \A i \in DOMAIN events : events'[i] = events[i] ]_vars

(* The threads' interleaved reads and writes of events.json implement the  *)
(* atomic journal.                                                         *)
ImplementsJournal == Journal!Spec

(* The lock does not stay taken: a thread that entered it, however deep it *)
(* is nested, leaves it again.                                             *)
LockReleased == owner # NoThread ~> owner = NoThread
=============================================================================
