---------------------------- MODULE EventJournal ----------------------------
(* What TaskRunStore.append_event promises about one run's events.json,    *)
(* whatever the callers do: the journal only grows, one event at a time,   *)
(* the sequence numbers are 1, 2, 3, ..., the first terminal event is the  *)
(* only one, and a later attempt to terminalize makes the store leave at   *)
(* most one "terminalization_already_applied" marker for each reason code. *)
EXTENDS Naturals, Sequences

CONSTANT Reasons        \* reason codes carried by the events

VARIABLE events         \* the journal, oldest event first

\* "terminal" stands for the five types of _terminal_event_types; "ignored"
\* is a terminalization_already_applied marker the store appends, "noted" one
\* that a caller creates itself; every other type is "plain".
EventTypes == {"plain", "terminal", "ignored", "noted"}

\* of is, for a marker, the terminal event it refers to (terminal_event_id,
\* represented by the event's sequence number), and 0 for any other event.
Event == [seq : Nat, type : EventTypes, reason : Reasons, of : Nat]

TerminalAt(evs) == {i \in DOMAIN evs : evs[i].type = "terminal"}

HasTerminal(evs) == TerminalAt(evs) # {}

\* The marker that _append_terminalization_ignored looks for before it
\* appends one.
HasMarker(evs, of, reason) ==
  \E i \in DOMAIN evs : /\ evs[i].type \in {"ignored", "noted"}
                        /\ evs[i].of = of
                        /\ evs[i].reason = reason

AppendNumbered(type, reason, of) ==
  events' = Append(events, [seq |-> Len(events) + 1, type |-> type,
                            reason |-> reason, of |-> of])

AppendPlain(reason) == AppendNumbered("plain", reason, 0)

AppendTerminal(reason) ==
  /\ ~HasTerminal(events)
  /\ AppendNumbered("terminal", reason, 0)

AppendIgnored(reason) ==
  \E i \in TerminalAt(events) :
    /\ ~HasMarker(events, events[i].seq, reason)
    /\ AppendNumbered("ignored", reason, events[i].seq)

\* A caller that saw the terminal event records its own attempt, without
\* looking for an earlier marker.
AppendNoted(reason) ==
  \E i \in TerminalAt(events) : AppendNumbered("noted", reason, events[i].seq)

Init == events = <<>>

Next == \E reason \in Reasons : \/ AppendPlain(reason)
                                \/ AppendTerminal(reason)
                                \/ AppendIgnored(reason)
                                \/ AppendNoted(reason)

Spec == Init /\ [][Next]_events
=============================================================================
