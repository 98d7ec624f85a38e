-------------------------- MODULE RunEventLogProofs --------------------------
(* Proofs about RunEventLog, for every set of threads and reason codes and *)
(* every bound: the event log of a run is contiguous and terminalized at   *)
(* most once, a guard's decision stands, the log is append-only, and the   *)
(* threads implement the atomic EventJournal.                              *)
EXTENDS RunEventLog, SequenceTheorems, TLAPS

\* Labels at which a thread is inside the lock.
Inside == {"check", "guard_check", "read", "write", "release"}

\* Labels between the decision to append cur[t] and its write.
Appending == {"acquire", "check", "read", "write"}

(* Mutual exclusion.                                                       *)
LockInv ==
  /\ depth = 0 <=> owner = NoThread
  /\ \A t \in Threads : pc[t] \in Inside => owner = t
  /\ \A t \in Threads : pc[t] \in {"idle", "guard_acquire"} => owner # t

(* A marker refers to the terminal event, so that one marker for each      *)
(* (terminal event, reason) is one for each reason.                        *)
MarkerInv ==
  \A i \in DOMAIN events : events[i].type = "ignored" =>
    \E j \in Journal!TerminalAt(events) : events[i].of = events[j].seq

(* What the locked section of append_event has established when it writes. *)
AppendOf(t) ==
  /\ pc[t] = "write" => buf[t] = events
  /\ pc[t] \in {"read", "write"} /\ cur[t].type = "terminal"
       => ~Journal!HasTerminal(events)
  /\ cur[t].type \notin {"ignored", "noted"} => cur[t].of = 0
  /\ cur[t].type = "noted" =>
       \E j \in Journal!TerminalAt(events) : cur[t].of = events[j].seq
  /\ cur[t].type = "ignored" => owner = t
  /\ cur[t].type = "ignored" /\ pc[t] \in Appending =>
       /\ ~Journal!HasMarker(events, cur[t].of, cur[t].reason)
       /\ \E j \in Journal!TerminalAt(events) : cur[t].of = events[j].seq

AppendInv == \A t \in Threads : AppendOf(t)

(* What a guard relies on between its check and its last append.           *)
GuardInv ==
  \A t \in Threads :
    /\ decided[t] => owner = t /\ cur[t].type # "ignored"
    /\ pc[t] \in {"guard_acquire", "guard_check"} =>
         ~decided[t] /\ cur[t].type = "terminal"
    /\ decided[t] /\ (todo[t] # <<>> \/ (cur[t].type = "terminal" /\ pc[t] \in Appending))
         => ~Journal!HasTerminal(events)
    /\ todo[t] # <<>> =>
         decided[t] /\ cur[t].type = "plain" /\ Len(todo[t]) = 1
           /\ todo[t][1].type = "terminal" /\ todo[t][1].of = 0

IndInv ==
  /\ TypeOK
  /\ SequenceContiguous
  /\ TerminalRecordedOnce
  /\ MarkerInv
  /\ LockInv
  /\ AppendInv
  /\ GuardInv

----------------------------------------------------------------------------
(* Lemmas about the operators of append_event.                             *)

(* Under the lock the renumbering of append_event, max + 1, is the length  *)
(* of a contiguous log plus one.                                           *)
LEMMA NextSequenceIsLength ==
  ASSUME TypeOK, SequenceContiguous
  PROVE  NextSequence(events) = Len(events) + 1
<1>1. Len(events) \in Nat /\ DOMAIN events = 1..Len(events)
  BY DEF TypeOK
<1>2. CASE events = <<>>
  BY <1>2 DEF NextSequence
<1>3. CASE events # <<>>
  <2>1. Len(events) # 0
    BY <1>3 DEF TypeOK
  <2>2. Len(events) \in SequenceNumbers(events)
    BY <1>1, <2>1 DEF SequenceNumbers, SequenceContiguous
  <2>3. \A n \in SequenceNumbers(events) : n \in Nat /\ n <= Len(events)
    BY <1>1 DEF SequenceNumbers, SequenceContiguous
  <2>4. \A m \in SequenceNumbers(events) :
          (\A n \in SequenceNumbers(events) : n <= m) <=> m = Len(events)
    BY <1>1, <2>2, <2>3
  <2>5. HighestSequence(events) = Len(events)
    BY <2>2, <2>4, Zenon DEF HighestSequence
  <2> QED
    BY <1>1, <1>3, <2>5, Zenon DEF NextSequence
<1> QED
  BY <1>2, <1>3, Zenon

(* _first_terminal_event returns a terminal event when there is one.       *)
LEMMA FirstTerminalIsTerminal ==
  ASSUME TypeOK, TerminalRecordedOnce, Journal!HasTerminal(events)
  PROVE  FirstTerminal(events) \in Journal!TerminalAt(events)
<1>1. PICK i \in Journal!TerminalAt(events) : TRUE
  BY Zenon DEF Journal!HasTerminal
<1>2. \A j \in Journal!TerminalAt(events) : j = i
  BY <1>1, Zenon DEF Journal!TerminalAt, TerminalRecordedOnce
<1>3. events[i].seq \in Nat
  <2>1. i \in DOMAIN events
    BY <1>1, Zenon DEF Journal!TerminalAt
  <2>2. events[i] \in Journal!Event
    BY <2>1 DEF TypeOK
  <2> QED
    BY <2>2, Zenon DEF Journal!Event
<1>4. \A j \in Journal!TerminalAt(events) : events[i].seq <= events[j].seq
  BY <1>2, <1>3
<1> QED
  BY <1>1, <1>4, Zenon DEF FirstTerminal

----------------------------------------------------------------------------
(* The inductive invariant holds initially, and every action preserves it. *)

LEMMA NoEventType == NoEvent \in Journal!Event /\ NoEvent.type = "plain" /\ NoEvent.of = 0
BY ReasonAssumption, Zenon DEF NoEvent, NewEvent, Journal!Event, Journal!EventTypes

LEMMA InitEstablishes == Init => IndInv
<1> SUFFICES ASSUME Init PROVE IndInv
  OBVIOUS
<1>1. TypeOK
  BY NoEventType DEF Init, TypeOK, Labels
<1>2. SequenceContiguous /\ TerminalRecordedOnce /\ MarkerInv
  BY DEF Init, SequenceContiguous, TerminalRecordedOnce, MarkerInv
<1>3. LockInv
  BY ThreadAssumption, Zenon DEF Init, LockInv, Inside
<1>4. AppendInv /\ GuardInv
  BY NoEventType, Zenon DEF Init, AppendInv, AppendOf, GuardInv, Appending
<1> QED
  BY <1>1, <1>2, <1>3, <1>4, Zenon DEF IndInv

(* A step that leaves events.json alone keeps what is said of it alone.    *)
LEMMA LogUntouched ==
  ASSUME IndInv, UNCHANGED events
  PROVE  SequenceContiguous' /\ TerminalRecordedOnce' /\ MarkerInv'
BY DEF IndInv, SequenceContiguous, TerminalRecordedOnce, MarkerInv, Journal!TerminalAt

LEMMA CreatePreserves ==
  ASSUME IndInv, NEW t \in Threads, Create(t)
  PROVE  IndInv'
<1>0. SequenceContiguous' /\ TerminalRecordedOnce' /\ MarkerInv'
  BY LogUntouched, Zenon DEF Create
<1>1. PICK type \in {"plain", "terminal"}, reason \in Reasons :
        cur' = [cur EXCEPT ![t] = NewEvent(GuessedSequence, type, reason, 0)]
  BY Zenon DEF Create
<1>2. NewEvent(GuessedSequence, type, reason, 0) \in Journal!Event
  BY DEF IndInv, TypeOK, NewEvent, GuessedSequence, Journal!Event, Journal!EventTypes
<1>3. TypeOK'
  BY <1>1, <1>2, Zenon DEF IndInv, TypeOK, Create, Labels
<1>4. LockInv'
  BY Zenon DEF IndInv, TypeOK, LockInv, Inside, Create
<1>5. AppendInv'
  BY <1>1 DEF IndInv, TypeOK, AppendInv, AppendOf, Appending, Create, NewEvent,
              Journal!HasTerminal, Journal!TerminalAt, Journal!HasMarker
<1>6. owner # t
  BY Zenon DEF IndInv, LockInv, Create
<1>7. GuardInv'
  BY <1>1, <1>6 DEF IndInv, TypeOK, GuardInv, Appending, Create, NewEvent,
              Journal!HasTerminal, Journal!TerminalAt
<1> QED
  BY <1>0, <1>3, <1>4, <1>5, <1>7, Zenon DEF IndInv

(* The terminal event a caller's own marker refers to stays in the log.    *)
LEMMA EmitNotedPreserves ==
  ASSUME IndInv, NEW t \in Threads, EmitNoted(t)
  PROVE  IndInv'
<1>0. SequenceContiguous' /\ TerminalRecordedOnce' /\ MarkerInv'
  BY LogUntouched, Zenon DEF EmitNoted
<1> DEFINE of == events[FirstTerminal(events)].seq
<1>1. PICK reason \in Reasons :
        cur' = [cur EXCEPT ![t] = NewEvent(GuessedSequence, "noted", reason, of)]
  BY Zenon DEF EmitNoted
<1>2. FirstTerminal(events) \in Journal!TerminalAt(events)
  BY FirstTerminalIsTerminal, Zenon DEF IndInv, EmitNoted
<1>3. events[FirstTerminal(events)] \in Journal!Event
  BY <1>2 DEF IndInv, TypeOK, Journal!TerminalAt
<1> DEFINE ev == NewEvent(GuessedSequence, "noted", reason, of)
<1>4. ev \in Journal!Event /\ ev.type = "noted" /\ ev.of = of
  <2>1. of \in Nat
    BY <1>3, Zenon DEF Journal!Event
  <2>2. GuessedSequence \in Nat
    BY DEF IndInv, TypeOK, GuessedSequence
  <2> HIDE DEF of
  <2> QED BY <2>1, <2>2, Zenon DEF NewEvent, Journal!Event, Journal!EventTypes
<1>5. cur' = [cur EXCEPT ![t] = ev]
  BY <1>1, Zenon
<1> HIDE DEF ev
<1>6. TypeOK'
  BY <1>4, <1>5, Zenon DEF IndInv, TypeOK, EmitNoted, Labels
<1>7. LockInv'
  BY Zenon DEF IndInv, TypeOK, LockInv, Inside, EmitNoted
<1>8. AppendInv'
  BY <1>2, <1>4, <1>5 DEF IndInv, TypeOK, AppendInv, AppendOf, Appending, EmitNoted,
              Journal!HasTerminal, Journal!TerminalAt, Journal!HasMarker
<1>9. owner # t
  BY Zenon DEF IndInv, LockInv, EmitNoted
<1>10. GuardInv'
  BY <1>4, <1>5, <1>9, Zenon DEF IndInv, TypeOK, GuardInv, Appending, EmitNoted,
              Journal!HasTerminal, Journal!TerminalAt
<1> QED
  BY <1>0, <1>6, <1>7, <1>8, <1>10, Zenon DEF IndInv

LEMMA CallGuardPreserves ==
  ASSUME IndInv, NEW t \in Threads, CallGuard(t)
  PROVE  IndInv'
<1>0. SequenceContiguous' /\ TerminalRecordedOnce' /\ MarkerInv'
  BY LogUntouched, Zenon DEF CallGuard
<1>1. PICK reason \in Reasons :
        cur' = [cur EXCEPT ![t] = NewEvent(0, "terminal", reason, 0)]
  BY Zenon DEF CallGuard
<1>2. NewEvent(0, "terminal", reason, 0) \in Journal!Event
  BY Zenon DEF NewEvent, Journal!Event, Journal!EventTypes
<1>3. TypeOK'
  BY <1>1, <1>2, Zenon DEF IndInv, TypeOK, CallGuard, Labels
<1>4. LockInv'
  BY Zenon DEF IndInv, TypeOK, LockInv, Inside, CallGuard
<1>5. AppendInv'
  BY <1>1 DEF IndInv, TypeOK, AppendInv, AppendOf, Appending, CallGuard, NewEvent,
              Journal!HasTerminal, Journal!TerminalAt, Journal!HasMarker
<1>6. ~decided[t]
  BY Zenon DEF IndInv, LockInv, GuardInv, CallGuard
<1>7. GuardInv'
  BY <1>1, <1>6, Zenon DEF IndInv, TypeOK, GuardInv, Appending, CallGuard, NewEvent,
              Journal!HasTerminal, Journal!TerminalAt
<1> QED
  BY <1>0, <1>3, <1>4, <1>5, <1>7, Zenon DEF IndInv

LEMMA AcquirePreserves ==
  ASSUME IndInv, NEW t \in Threads, Acquire(t)
  PROVE  IndInv'
<1>0. SequenceContiguous' /\ TerminalRecordedOnce' /\ MarkerInv'
  BY LogUntouched, Zenon DEF Acquire
<1>1. TypeOK'
  BY DEF IndInv, TypeOK, Acquire, Labels
<1>2. LockInv'
  BY ThreadAssumption DEF IndInv, TypeOK, LockInv, Inside, Acquire, MayEnter
<1>3. \A u \in Threads : owner = u => owner' = u
  BY ThreadAssumption, Zenon DEF Acquire, MayEnter
<1>4. AppendInv'
  BY <1>3 DEF IndInv, TypeOK, AppendInv, AppendOf, Appending, Acquire,
              Journal!HasTerminal, Journal!TerminalAt, Journal!HasMarker
<1>5. GuardInv'
  BY <1>3, Zenon DEF IndInv, TypeOK, GuardInv, Appending, Acquire,
              Journal!HasTerminal, Journal!TerminalAt
<1> QED
  BY <1>0, <1>1, <1>2, <1>4, <1>5, Zenon DEF IndInv

(* The nested append of a marker starts from a log without that marker.    *)
LEMMA IgnorePreserves ==
  ASSUME IndInv, NEW t \in Threads, owner = t, Journal!HasTerminal(events),
         ~decided[t],
         IgnoreTerminalization(t),
         UNCHANGED <<events, owner, depth, buf, todo, decided, crashes>>
  PROVE  IndInv'
<1> DEFINE of == events[FirstTerminal(events)].seq
           marker == NewEvent(GuessedSequence, "ignored", cur[t].reason, of)
<1>0. SequenceContiguous' /\ TerminalRecordedOnce' /\ MarkerInv'
  BY LogUntouched, Zenon
<1>1. FirstTerminal(events) \in Journal!TerminalAt(events)
  BY FirstTerminalIsTerminal, Zenon DEF IndInv
<1>2. todo[t] = <<>>
  BY Zenon DEF IndInv, GuardInv
<1>3. CASE Journal!HasMarker(events, of, cur[t].reason)
  <2>1. pc' = [pc EXCEPT ![t] = "release"] /\ UNCHANGED cur
    BY <1>3, Zenon DEF IgnoreTerminalization
  <2>2. TypeOK' /\ LockInv'
    BY <2>1, Zenon DEF IndInv, TypeOK, LockInv, Inside, Labels
  <2>3. AppendInv'
    BY <2>1 DEF IndInv, TypeOK, AppendInv, AppendOf, Appending,
                Journal!HasTerminal, Journal!TerminalAt, Journal!HasMarker
  <2>4. GuardInv'
    BY <2>1, Zenon DEF IndInv, TypeOK, GuardInv, Appending,
                Journal!HasTerminal, Journal!TerminalAt
  <2> QED
    BY <1>0, <2>2, <2>3, <2>4, Zenon DEF IndInv
<1>4. CASE ~Journal!HasMarker(events, of, cur[t].reason)
  <2>1. cur' = [cur EXCEPT ![t] = marker] /\ pc' = [pc EXCEPT ![t] = "acquire"]
    BY <1>4, Zenon DEF IgnoreTerminalization
  <2>2. events[FirstTerminal(events)] \in Journal!Event
    BY <1>1 DEF IndInv, TypeOK, Journal!TerminalAt
  <2>3. marker \in Journal!Event
    BY <2>2, SMTT(30) DEF IndInv, TypeOK, NewEvent, GuessedSequence, Journal!Event, Journal!EventTypes
  <2>4. /\ marker.type = "ignored"
        /\ marker.of = of
        /\ marker.reason = cur[t].reason
    BY Zenon DEF NewEvent
  <2>5. TypeOK'
    BY <2>1, <2>3, Zenon DEF IndInv, TypeOK, Labels
  <2>6. LockInv'
    BY <2>1, Zenon DEF IndInv, TypeOK, LockInv, Inside
  <2> HIDE DEF marker
  <2>7. AppendInv'
    BY <1>1, <1>4, <2>1, <2>4 DEF IndInv, TypeOK, AppendInv, AppendOf, Appending,
                Journal!HasTerminal, Journal!TerminalAt, Journal!HasMarker
  <2>8. GuardInv'
    BY <1>2, <2>1, <2>4, Zenon DEF IndInv, TypeOK, GuardInv, Appending,
                Journal!HasTerminal, Journal!TerminalAt
  <2> QED
    BY <1>0, <2>5, <2>6, <2>7, <2>8, Zenon DEF IndInv
<1> QED
  BY <1>3, <1>4, Zenon

LEMMA CheckPreserves ==
  ASSUME IndInv, NEW t \in Threads, Check(t)
  PROVE  IndInv'
<1>1. owner = t
  BY Zenon DEF IndInv, LockInv, Inside, Check
<1>2. CASE cur[t].type = "terminal" /\ Journal!HasTerminal(events)
  <2>1. ~decided[t]
    BY <1>2, Zenon DEF IndInv, GuardInv, Appending, Check
  <2> QED
    BY <1>1, <1>2, <2>1, IgnorePreserves, Zenon DEF Check
<1>3. CASE ~(cur[t].type = "terminal" /\ Journal!HasTerminal(events))
  <2>0. SequenceContiguous' /\ TerminalRecordedOnce' /\ MarkerInv'
    BY LogUntouched, Zenon DEF Check
  <2>1. pc' = [pc EXCEPT ![t] = "read"] /\ UNCHANGED cur
    BY <1>3, Zenon DEF Check
  <2>2. TypeOK' /\ LockInv'
    BY <1>1, <2>1, Zenon DEF IndInv, TypeOK, LockInv, Inside, Labels, Check
  <2>3. AppendInv'
    <3>1. SUFFICES ASSUME NEW u \in Threads PROVE AppendOf(u)'
      BY Zenon DEF AppendInv
    <3>2. AppendOf(u) /\ UNCHANGED <<events, cur, buf, owner>>
      BY <2>1, Zenon DEF IndInv, AppendInv, Check
    <3>3. CASE u = t
      BY <1>3, <2>1, <3>2, <3>3, Zenon DEF IndInv, TypeOK, AppendOf, Appending, Check,
                Journal!HasTerminal, Journal!TerminalAt, Journal!HasMarker
    <3>4. CASE u # t
      BY <2>1, <3>2, <3>4, Zenon DEF IndInv, TypeOK, AppendOf, Appending,
                Journal!HasTerminal, Journal!TerminalAt, Journal!HasMarker
    <3> QED
      BY <3>3, <3>4, Zenon
  <2>4. GuardInv'
    BY <2>1, Zenon DEF IndInv, TypeOK, GuardInv, Appending, Check,
                Journal!HasTerminal, Journal!TerminalAt
  <2> QED
    BY <2>0, <2>2, <2>3, <2>4, Zenon DEF IndInv
<1> QED
  BY <1>2, <1>3, Zenon

LEMMA GuardCheckPreserves ==
  ASSUME IndInv, NEW t \in Threads, GuardCheck(t)
  PROVE  IndInv'
<1>1. owner = t /\ ~decided[t] /\ cur[t].type = "terminal" /\ cur[t].of = 0
  BY Zenon DEF IndInv, LockInv, Inside, GuardInv, AppendInv, AppendOf, GuardCheck
<1>2. todo[t] = <<>>
  BY <1>1, Zenon DEF IndInv, GuardInv
<1>3. SequenceContiguous' /\ TerminalRecordedOnce' /\ MarkerInv'
  BY LogUntouched, Zenon DEF GuardCheck
<1>4. CASE Journal!HasTerminal(events) /\ IgnoreTerminalization(t) /\ UNCHANGED <<todo, decided>>
  BY <1>1, <1>4, IgnorePreserves, Zenon DEF GuardCheck
<1>5. CASE /\ pc' = [pc EXCEPT ![t] = "release"]
           /\ UNCHANGED <<cur, todo, decided>>
  <2>1. TypeOK' /\ LockInv'
    BY <1>1, <1>5, Zenon DEF IndInv, TypeOK, LockInv, Inside, Labels, GuardCheck
  <2>2. AppendInv'
    BY <1>5 DEF IndInv, TypeOK, AppendInv, AppendOf, Appending, GuardCheck,
                Journal!HasTerminal, Journal!TerminalAt, Journal!HasMarker
  <2>3. GuardInv'
    BY <1>5, Zenon DEF IndInv, TypeOK, GuardInv, Appending, GuardCheck,
                Journal!HasTerminal, Journal!TerminalAt
  <2> QED
    BY <1>3, <2>1, <2>2, <2>3, Zenon DEF IndInv
<1>6. CASE /\ ~Journal!HasTerminal(events)
           /\ decided' = [decided EXCEPT ![t] = TRUE]
           /\ pc' = [pc EXCEPT ![t] = "acquire"]
           /\ \/ /\ cur' = [cur EXCEPT ![t] =
                         NewEvent(GuessedSequence, "terminal", @.reason, 0)]
                 /\ UNCHANGED todo
              \/ /\ cur' = [cur EXCEPT ![t] =
                         NewEvent(GuessedSequence, "plain", @.reason, 0)]
                 /\ todo' = [todo EXCEPT ![t] = <<cur[t]>>]
  <2>1. PICK type \in {"plain", "terminal"} :
          /\ cur' = [cur EXCEPT ![t] =
                        NewEvent(GuessedSequence, type, cur[t].reason, 0)]
          /\ todo' = [todo EXCEPT ![t] = IF type = "plain" THEN <<cur[t]>> ELSE <<>>]
    BY <1>2, <1>6, Zenon DEF IndInv, TypeOK
  <2> DEFINE ev == NewEvent(GuessedSequence, type, cur[t].reason, 0)
  <2>2. ev \in Journal!Event /\ ev.type = type /\ ev.of = 0
    BY DEF IndInv, TypeOK, NewEvent, GuessedSequence, Journal!Event, Journal!EventTypes
  <2> HIDE DEF ev
  <2>3. <<cur[t]>> \in Seq(Journal!Event) /\ Len(<<cur[t]>>) = 1 /\ <<cur[t]>>[1] = cur[t]
    BY DEF IndInv, TypeOK
  <2>4. TypeOK' /\ LockInv'
    BY <1>1, <1>6, <2>1, <2>2, <2>3, SMTT(30)
       DEF IndInv, TypeOK, LockInv, Inside, Labels, GuardCheck, ev
  <2>5. AppendInv'
    BY <1>6, <2>1, <2>2, SMTT(30) DEF IndInv, TypeOK, AppendInv, AppendOf, Appending, GuardCheck, ev,
                Journal!HasTerminal, Journal!TerminalAt, Journal!HasMarker
  <2>6. GuardInv'
    BY <1>1, <1>6, <2>1, <2>2, <2>3 DEF IndInv, TypeOK, GuardInv, Appending, GuardCheck, ev,
                Journal!HasTerminal, Journal!TerminalAt
  <2> QED
    BY <1>3, <2>4, <2>5, <2>6, Zenon DEF IndInv
<1> QED
  BY <1>4, <1>5, <1>6, Zenon DEF GuardCheck

LEMMA ReadPreserves ==
  ASSUME IndInv, NEW t \in Threads, Read(t)
  PROVE  IndInv'
<1>0. SequenceContiguous' /\ TerminalRecordedOnce' /\ MarkerInv'
  BY LogUntouched, Zenon DEF Read
<1>1. TypeOK' /\ LockInv'
  BY Zenon DEF IndInv, TypeOK, LockInv, Inside, Labels, Read
<1>2. AppendInv'
  <2>1. SUFFICES ASSUME NEW u \in Threads PROVE AppendOf(u)'
    BY Zenon DEF AppendInv
  <2>2. AppendOf(u) /\ UNCHANGED <<events, cur, owner>>
    BY Zenon DEF IndInv, AppendInv, Read
  <2>3. CASE u = t
    BY <2>2, <2>3, Zenon DEF IndInv, TypeOK, AppendOf, Appending, Read,
         Journal!HasTerminal, Journal!TerminalAt, Journal!HasMarker
  <2>4. CASE u # t
    BY <2>2, <2>4, Zenon DEF IndInv, TypeOK, AppendOf, Appending, Read,
         Journal!HasTerminal, Journal!TerminalAt, Journal!HasMarker
  <2> QED
    BY <2>3, <2>4, Zenon
<1>3. GuardInv'
  BY Zenon DEF IndInv, TypeOK, GuardInv, Appending, Read,
         Journal!HasTerminal, Journal!TerminalAt
<1> QED
  BY <1>0, <1>1, <1>2, <1>3, Zenon DEF IndInv

(* Under the lock, the write of append_event appends one numbered event to *)
(* the current log.                                                        *)
LEMMA WriteAppends ==
  ASSUME IndInv, NEW t \in Threads, Write(t)
  PROVE  /\ Stored(t) = [cur[t] EXCEPT !.seq = Len(events) + 1]
         /\ events' = Append(events, Stored(t))
         /\ Stored(t) \in Journal!Event
         /\ Stored(t).seq = Len(events) + 1
         /\ Stored(t).type = cur[t].type
         /\ Stored(t).reason = cur[t].reason
         /\ Stored(t).of = cur[t].of
<1>1. buf[t] = events
  BY Zenon DEF IndInv, AppendInv, AppendOf, Write
<1>2. NextSequence(buf[t]) = Len(events) + 1
  BY <1>1, NextSequenceIsLength, Zenon DEF IndInv
<1>3. cur[t] \in Journal!Event /\ Len(events) \in Nat
  BY DEF IndInv, TypeOK
<1> QED
  BY <1>1, <1>2, <1>3 DEF Stored, Write, Journal!Event

LEMMA WritePreserves ==
  ASSUME IndInv, NEW t \in Threads, Write(t)
  PROVE  IndInv'
<1> DEFINE ev == Stored(t)
<1>1. /\ events' = Append(events, ev)
      /\ ev \in Journal!Event
      /\ ev.seq = Len(events) + 1 /\ ev.type = cur[t].type
      /\ ev.reason = cur[t].reason /\ ev.of = cur[t].of
  BY WriteAppends, Zenon
<1> HIDE DEF ev
<1>2. /\ Len(events) \in Nat /\ DOMAIN events = 1..Len(events)
      /\ DOMAIN events' = 1..(Len(events) + 1)
      /\ events'[Len(events) + 1] = ev
      /\ \A i \in 1..Len(events) : events'[i] = events[i]
  BY <1>1 DEF IndInv, TypeOK
<1>3. owner = t
  BY Zenon DEF IndInv, LockInv, Inside, Write
<1>4. \A u \in Threads : u # t => pc[u] \notin Inside /\ cur[u].type # "ignored" /\ ~decided[u]
  BY <1>3, Zenon DEF IndInv, LockInv, AppendInv, AppendOf, GuardInv
<1>5. TypeOK'
  BY <1>1 DEF IndInv, TypeOK, Write, Labels
<1>6. SequenceContiguous'
  BY <1>1, <1>2 DEF IndInv, SequenceContiguous
<1>7. MarkerInv'
  <2>1. \A j \in Journal!TerminalAt(events) :
          j \in Journal!TerminalAt(events') /\ events'[j].seq = events[j].seq
    BY <1>2 DEF Journal!TerminalAt
  <2>2. SUFFICES ASSUME NEW i \in DOMAIN events', events'[i].type = "ignored"
                 PROVE  \E j \in Journal!TerminalAt(events) : events'[i].of = events[j].seq
    BY <2>1, <1>2 DEF MarkerInv, Journal!TerminalAt
  <2>3. CASE i \in DOMAIN events
    BY <1>2, <2>2, <2>3, Zenon DEF IndInv, MarkerInv
  <2>4. CASE i = Len(events) + 1
    BY <1>1, <1>2, <2>2, <2>4, Zenon DEF IndInv, AppendInv, AppendOf, Appending, Write
  <2> QED
    BY <1>2, <2>3, <2>4
<1>8. TerminalRecordedOnce'
  <2>1. SUFFICES ASSUME NEW i \in DOMAIN events,
                        events[i].type = ev.type
                 PROVE  /\ ev.type # "terminal"
                        /\ ev.type = "ignored" => events[i].reason # ev.reason
    BY <1>2 DEF IndInv, TerminalRecordedOnce
  <2>2. ev.type # "terminal"
    BY <1>1, <2>1, Zenon DEF IndInv, AppendInv, AppendOf, Write, Journal!HasTerminal, Journal!TerminalAt
  <2>3. ASSUME ev.type = "ignored" PROVE events[i].reason # ev.reason
    <3>1. PICK j \in Journal!TerminalAt(events) : ev.of = events[j].seq
      BY <1>1, <2>3, Zenon DEF IndInv, AppendInv, AppendOf, Appending, Write
    <3>2. PICK k \in Journal!TerminalAt(events) : events[i].of = events[k].seq
      BY <2>1, <2>3, Zenon DEF IndInv, MarkerInv
    <3>3. j = k
      BY Zenon DEF IndInv, TerminalRecordedOnce, Journal!TerminalAt
    <3>4. ~Journal!HasMarker(events, ev.of, ev.reason)
      BY <1>1, <2>3, Zenon DEF IndInv, AppendInv, AppendOf, Appending, Write
    <3> QED
      BY <2>1, <2>3, <3>1, <3>2, <3>3, <3>4, Zenon DEF Journal!HasMarker
  <2> QED
    BY <2>2, <2>3, Zenon
<1>9. LockInv'
  BY <1>3, Zenon DEF IndInv, TypeOK, LockInv, Inside, Write
<1>10. AppendInv'
  <2>1. \A n \in Nat : (\E j \in Journal!TerminalAt(events) : n = events[j].seq)
                       => \E j \in Journal!TerminalAt(events') : n = events'[j].seq
    BY <1>2 DEF Journal!TerminalAt
  <2>2. \A u \in Threads : cur[u].of \in Nat
    BY Zenon DEF IndInv, TypeOK, Journal!Event
  <2> QED
    BY <1>4, <2>1, <2>2, ZenonT(40) DEF IndInv, TypeOK, AppendInv, AppendOf, Appending, Write, Inside
<1>11. GuardInv'
  <2>1. ~Journal!HasTerminal(events) /\ cur[t].type = "plain"
          => ~Journal!HasTerminal(events')
    BY <1>1, <1>2 DEF Journal!HasTerminal, Journal!TerminalAt
  <2> QED
    BY <1>4, <2>1, Zenon DEF IndInv, TypeOK, GuardInv, Appending, Write, Inside
<1> QED
  BY <1>5, <1>6, <1>7, <1>8, <1>9, <1>10, <1>11, Zenon DEF IndInv

(* A call that ends leaves the lock: nobody is inside, and what it knew of *)
(* the log is forgotten.                                                   *)
LEMMA EndOfCallPreserves ==
  ASSUME IndInv, NEW t \in Threads, owner = t, owner' = NoThread, depth' = 0,
         ForgetCall(t), UNCHANGED <<events, crashes>>
  PROVE  IndInv'
<1>0. SequenceContiguous' /\ TerminalRecordedOnce' /\ MarkerInv'
  BY LogUntouched, Zenon
<1>1. TypeOK'
  BY NoEventType DEF IndInv, TypeOK, ForgetCall, Labels
<1>2. LockInv'
  BY ThreadAssumption, Zenon DEF IndInv, TypeOK, LockInv, Inside, ForgetCall
<1>3. AppendInv'
  BY NoEventType DEF IndInv, TypeOK, AppendInv, AppendOf, Appending, ForgetCall,
         Journal!HasTerminal, Journal!TerminalAt, Journal!HasMarker
<1>4. GuardInv'
  BY NoEventType, Zenon DEF IndInv, TypeOK, GuardInv, Appending, ForgetCall,
         Journal!HasTerminal, Journal!TerminalAt
<1> QED
  BY <1>0, <1>1, <1>2, <1>3, <1>4, Zenon DEF IndInv

LEMMA WriteFailsPreserves ==
  ASSUME IndInv, NEW t \in Threads, WriteFails(t)
  PROVE  IndInv'
<1>1. owner = t
  BY Zenon DEF IndInv, LockInv, Inside, WriteFails
<1> QED
  BY <1>1, EndOfCallPreserves, Zenon DEF WriteFails

LEMMA ReleasePreserves ==
  ASSUME IndInv, NEW t \in Threads, Release(t)
  PROVE  IndInv'
<1>1. owner = t /\ depth \in Nat /\ depth # 0
  BY ThreadAssumption, Zenon DEF IndInv, TypeOK, LockInv, Inside, Release
<1>2. CASE depth = 1
  BY <1>1, <1>2, EndOfCallPreserves DEF Release
<1>3. CASE depth # 1 /\ todo[t] = <<>>
  <2>0. SequenceContiguous' /\ TerminalRecordedOnce' /\ MarkerInv'
    BY LogUntouched, Zenon DEF Release
  <2>1. /\ depth' = depth - 1 /\ pc' = [pc EXCEPT ![t] = "release"]
        /\ UNCHANGED <<events, owner, cur, buf, todo, decided, crashes>>
    BY <1>3, Zenon DEF Release
  <2>2. TypeOK' /\ LockInv'
    BY <1>1, <1>3, <2>1, ThreadAssumption DEF IndInv, TypeOK, LockInv, Inside, Labels
  <2>3. AppendInv'
    BY <2>1 DEF IndInv, TypeOK, AppendInv, AppendOf, Appending,
           Journal!HasTerminal, Journal!TerminalAt, Journal!HasMarker
  <2>4. GuardInv'
    BY <2>1, Zenon DEF IndInv, TypeOK, GuardInv, Appending,
           Journal!HasTerminal, Journal!TerminalAt
  <2> QED
    BY <2>0, <2>2, <2>3, <2>4, Zenon DEF IndInv
<1>4. CASE depth # 1 /\ todo[t] # <<>>
  <2>0. SequenceContiguous' /\ TerminalRecordedOnce' /\ MarkerInv'
    BY LogUntouched, Zenon DEF Release
  <2> DEFINE ev == [Head(todo[t]) EXCEPT !.seq = GuessedSequence]
  <2>1. /\ depth' = depth - 1 /\ pc' = [pc EXCEPT ![t] = "acquire"]
        /\ cur' = [cur EXCEPT ![t] = ev]
        /\ todo' = [todo EXCEPT ![t] = Tail(todo[t])]
        /\ UNCHANGED <<events, owner, buf, decided, crashes>>
    BY <1>4, Zenon DEF Release
  <2>2. /\ todo[t] \in Seq(Journal!Event) /\ Len(todo[t]) = 1
        /\ todo[t][1].type = "terminal" /\ todo[t][1].of = 0 /\ decided[t]
        /\ ~Journal!HasTerminal(events)
    BY <1>4, Zenon DEF IndInv, TypeOK, GuardInv
  <2>3. /\ Tail(todo[t]) = <<>> /\ Tail(todo[t]) \in Seq(Journal!Event)
        /\ Head(todo[t]) = todo[t][1] /\ Head(todo[t]) \in Journal!Event
    <3>1. /\ Head(todo[t]) \in Journal!Event
          /\ Tail(todo[t]) \in Seq(Journal!Event)
          /\ Len(Tail(todo[t])) = 0
      BY <1>4, <2>2, HeadTailProperties
    <3>2. Tail(todo[t]) = <<>>
      BY <3>1, EmptySeq, Zenon
    <3>3. Head(todo[t]) = todo[t][1]
      BY <2>2
    <3> QED
      BY <3>1, <3>2, <3>3, Zenon
  <2>4. ev \in Journal!Event /\ ev.type = "terminal" /\ ev.of = 0
    <3>1. GuessedSequence \in Nat
      BY DEF GuessedSequence, IndInv, TypeOK
    <3> QED
      BY <2>2, <2>3, <3>1, SMTT(30) DEF Journal!Event
  <2> HIDE DEF ev
  <2>5. TypeOK' /\ LockInv'
    BY <1>1, <1>4, <2>1, <2>3, <2>4, ThreadAssumption
       DEF IndInv, TypeOK, LockInv, Inside, Labels
  <2>6. AppendInv'
    BY <2>1, <2>4, SMTT(30) DEF IndInv, TypeOK, AppendInv, AppendOf, Appending,
           Journal!HasTerminal, Journal!TerminalAt, Journal!HasMarker
  <2>7. GuardInv'
    BY <1>1, <2>1, <2>2, <2>3, <2>4 DEF IndInv, TypeOK, GuardInv, Appending,
           Journal!HasTerminal, Journal!TerminalAt
  <2> QED
    BY <2>0, <2>5, <2>6, <2>7, Zenon DEF IndInv
<1> QED
  BY <1>2, <1>3, <1>4, Zenon

LEMMA CrashPreserves ==
  ASSUME IndInv, Crash
  PROVE  IndInv'
<1>0. SequenceContiguous' /\ TerminalRecordedOnce' /\ MarkerInv'
  BY LogUntouched, Zenon DEF Crash
<1>1. TypeOK'
  BY NoEventType DEF IndInv, TypeOK, Crash, Labels
<1>2. LockInv' /\ AppendInv' /\ GuardInv'
  BY NoEventType, ThreadAssumption, Zenon DEF LockInv, Inside, AppendInv, AppendOf, GuardInv, Appending, Crash
<1> QED
  BY <1>0, <1>1, <1>2, Zenon DEF IndInv

----------------------------------------------------------------------------
(* The theorems.                                                           *)

(* The inductive invariant: the lock discipline of append_event and of the *)
(* guards, with what each locked section has established.                  *)
THEOREM Invariance == Spec => []IndInv
<1>1. Init => IndInv
  BY InitEstablishes, Zenon
<1>2. IndInv /\ [Next]_vars => IndInv'
  <2> SUFFICES ASSUME IndInv, [Next]_vars PROVE IndInv'
    OBVIOUS
  <2>1. ASSUME NEW t \in Threads, Create(t) PROVE IndInv'
    BY <2>1, CreatePreserves, Zenon
  <2>2. ASSUME NEW t \in Threads, CallGuard(t) PROVE IndInv'
    BY <2>2, CallGuardPreserves, Zenon
  <2>6. ASSUME NEW t \in Threads, EmitNoted(t) PROVE IndInv'
    BY <2>6, EmitNotedPreserves, Zenon
  <2>3. ASSUME NEW t \in Threads, Step(t) PROVE IndInv'
    BY <2>3, AcquirePreserves, CheckPreserves, GuardCheckPreserves, ReadPreserves,
       WritePreserves, WriteFailsPreserves, ReleasePreserves, Zenon DEF Step
  <2>4. CASE Crash
    BY <2>4, CrashPreserves, Zenon
  <2>5. CASE UNCHANGED vars
    <3>0. UNCHANGED events
      BY <2>5, Zenon DEF vars
    <3>1. SequenceContiguous' /\ TerminalRecordedOnce' /\ MarkerInv'
      BY <3>0, LogUntouched, Zenon
    <3>2. TypeOK'
      BY <2>5, Zenon DEF vars, IndInv, TypeOK
    <3>3. LockInv'
      BY <2>5, Zenon DEF vars, IndInv, LockInv
    <3>4. AppendInv'
      BY <2>5, Zenon DEF vars, IndInv, AppendInv, AppendOf, Journal!HasTerminal,
                  Journal!TerminalAt, Journal!HasMarker
    <3>5. GuardInv'
      BY <2>5, Zenon DEF vars, IndInv, GuardInv, Journal!HasTerminal, Journal!TerminalAt
    <3> QED
      BY <3>1, <3>2, <3>3, <3>4, <3>5, Zenon DEF IndInv
  <2> QED
    BY <2>1, <2>2, <2>3, <2>4, <2>5, <2>6, Zenon DEF Next
<1> QED
  BY <1>1, <1>2, PTL DEF Spec

(* Every value the threads handle has its type; in particular the lock is  *)
(* never released more often than it was entered.                          *)
THEOREM TypeCorrect == Spec => []TypeOK
<1>1. IndInv => TypeOK
  BY Zenon DEF IndInv
<1> QED
  BY <1>1, Invariance, PTL

(* The sequence numbers of a run's events have no gap and no duplicate,    *)
(* however the callers' pre-computed numbers race.                         *)
THEOREM SequencesNeverCollide == Spec => []SequenceContiguous
<1>1. IndInv => SequenceContiguous
  BY Zenon DEF IndInv
<1> QED
  BY <1>1, Invariance, PTL

(* A run is terminalized at most once in its log, and each further attempt *)
(* is recorded at most once for its reason.                                *)
THEOREM TerminalizedAtMostOnce == Spec => []TerminalRecordedOnce
<1>1. IndInv => TerminalRecordedOnce
  BY Zenon DEF IndInv
<1> QED
  BY <1>1, Invariance, PTL

(* A guard that decided to block a run has its terminal event recorded.    *)
THEOREM GuardsDecideForGood == Spec => []GuardDecisionStands
<1>1. IndInv => GuardDecisionStands
  BY Zenon DEF IndInv, GuardInv, GuardDecisionStands
<1> QED
  BY <1>1, Invariance, PTL

(* Only the write of append_event changes the file, and it appends.        *)
LEMMA OnlyWriteTouchesLog ==
  ASSUME IndInv, [Next]_vars
  PROVE  UNCHANGED events \/ \E t \in Threads : Write(t)
BY Zenon DEF Next, vars, Step, Create, EmitNoted, CallGuard, Acquire, Check, GuardCheck, Read,
       WriteFails, Release, Crash

(* No step drops, reorders or rewrites a recorded event.                   *)
THEOREM LogIsAppendOnly == Spec => AppendOnly
<1> DEFINE Grows == /\ Len(events) <= Len(events')
                    /\ \A i \in DOMAIN events : events'[i] = events[i]
<1>1. IndInv /\ [Next]_vars => [Grows]_vars
  <2> SUFFICES ASSUME IndInv, [Next]_vars PROVE Grows
    OBVIOUS
  <2>0. events \in Seq(Journal!Event)
    BY Zenon DEF IndInv, TypeOK
  <2>1. CASE UNCHANGED events
    BY <2>0, <2>1
  <2>2. ASSUME NEW t \in Threads, Write(t) PROVE Grows
    <3>1. events' = Append(events, Stored(t)) /\ Stored(t) \in Journal!Event
      BY <2>2, WriteAppends, Zenon
    <3> HIDE DEF Grows
    <3> QED
      BY <2>0, <3>1 DEF Grows
  <2> QED
    BY <2>1, <2>2, OnlyWriteTouchesLog, Zenon
<1> QED
  BY <1>1, Invariance, PTL DEF Spec, AppendOnly

(* The interleaved reads and writes of events.json implement the atomic    *)
(* journal: every step is one journal append or changes nothing.           *)
THEOREM Refinement == Spec => ImplementsJournal
<1>1. Init => Journal!Init
  BY Zenon DEF Init, Journal!Init
<1>2. IndInv /\ [Next]_vars => [Journal!Next]_events
  <2> SUFFICES ASSUME IndInv, [Next]_vars, ~UNCHANGED events PROVE Journal!Next
    OBVIOUS
  <2>1. PICK t \in Threads : Write(t)
    BY OnlyWriteTouchesLog, Zenon
  <2>2. /\ events' = Append(events, Stored(t))
        /\ Stored(t) = [cur[t] EXCEPT !.seq = Len(events) + 1]
    BY <2>1, WriteAppends, Zenon
  <2>3. cur[t] \in Journal!Event
    BY Zenon DEF IndInv, TypeOK
  <2>4. Stored(t) = [seq |-> Len(events) + 1, type |-> cur[t].type,
                     reason |-> cur[t].reason, of |-> cur[t].of]
    BY <2>2, <2>3, Zenon DEF Journal!Event
  <2>5. cur[t].reason \in Reasons /\ cur[t].type \in Journal!EventTypes
    BY <2>3, Zenon DEF Journal!Event
  <2>6. CASE cur[t].type = "plain"
    <3>1. cur[t].of = 0
      BY <2>6, Zenon DEF IndInv, AppendInv, AppendOf
    <3> QED
      BY <2>2, <2>4, <2>5, <2>6, <3>1, Zenon
         DEF Journal!Next, Journal!AppendPlain, Journal!AppendNumbered
  <2>7. CASE cur[t].type = "terminal"
    <3>1. cur[t].of = 0 /\ ~Journal!HasTerminal(events)
      BY <2>1, <2>7, Zenon DEF IndInv, AppendInv, AppendOf, Write
    <3> QED
      BY <2>2, <2>4, <2>5, <2>7, <3>1, Zenon
         DEF Journal!Next, Journal!AppendTerminal, Journal!AppendNumbered
  <2>8. CASE cur[t].type = "ignored"
    <3>1. /\ ~Journal!HasMarker(events, cur[t].of, cur[t].reason)
          /\ \E j \in Journal!TerminalAt(events) : cur[t].of = events[j].seq
      BY <2>1, <2>8, Zenon DEF IndInv, AppendInv, AppendOf, Appending, Write
    <3> QED
      BY <2>2, <2>4, <2>5, <2>8, <3>1, Zenon
         DEF Journal!Next, Journal!AppendIgnored, Journal!AppendNumbered
  <2>9. CASE cur[t].type = "noted"
    <3>1. \E j \in Journal!TerminalAt(events) : cur[t].of = events[j].seq
      BY <2>9, Zenon DEF IndInv, AppendInv, AppendOf
    <3> QED
      BY <2>2, <2>4, <2>5, <2>9, <3>1, SMTT(30)
         DEF Journal!Next, Journal!AppendNoted, Journal!AppendNumbered
  <2> QED
    BY <2>5, <2>6, <2>7, <2>8, <2>9, Zenon DEF Journal!EventTypes
<1> QED
  BY <1>1, <1>2, Invariance, PTL DEF Spec, ImplementsJournal, Journal!Spec
=============================================================================
