------------------------- MODULE TaskRuntimeProofs -------------------------
(* Type correctness of TaskRuntime, for any threads, plan and bounds.  The *)
(* types rest on the control: where a thread is in its call, which         *)
(* operations of the store it is in, and what the steps ahead of it rely   *)
(* on (ControlInv).                                                        *)
EXTENDS TaskRuntime, SequenceTheorems, TLAPS

\* The step of its own call that a thread is at, or will come back to, and the
\* steps of the store that come before it.
HomeOf(p, s) == IF s = <<>> THEN p ELSE s[Len(s)]

Home(t) == HomeOf(pc[t], stack[t])

\* A thread is at a step of its own call, or in an operation of the store that
\* will return to one, at most two more operations later.
NestedOf(p, s) ==
  \/ s = <<>> /\ p \in Tops
  \/ \E h \in Tops : s = <<h>> /\ p \in Callees
  \/ /\ p \in Callees \ Lookups
     /\ \/ \E h \in Tops, a \in Callees \ Lookups : s = <<a, h>>
        \/ \E h \in Tops, a, b \in Callees \ Lookups : s = <<b, a, h>>

Nested(t) == NestedOf(pc[t], stack[t])

\* What the steps ahead of a thread rely on.
Ready(t) ==
  /\ Home(t) \in OfStart => t \in Starters
  /\ Home(t) \in InPlanStep => step[t] <= NSteps
  /\ Home(t) \in InPlanStep \ {"step_decide", "execute"} => <<t, step[t]>> \in executed
  /\ Home(t) \notin Loop \cup {"finish"} => step[t] = 1
  /\ Home(t) = "finalize" => mem[t].status \in ResultStatuses
  /\ out[t] # "expired"
  /\ Calls(t) \cap Saves # {} => res[t] # "none"
  /\ Home(t) = "gap_reload" => pc[t] \notin Lookups /\ res[t] # "none"

\* The control of every thread.
ControlInv == \A t \in Threads : Nested(t) /\ Ready(t)

----------------------------------------------------------------------------
(* Control.                                                                *)

\* The types of the control, one half of the type invariant.
ControlTyped == pc \in [Threads -> Labels] /\ stack \in [Threads -> Seq(Labels)]

\* What a thread has to return to.
BehindOf(s) == {s[i] : i \in DOMAIN s}

Behind(t) == BehindOf(stack[t])

\* Another thread is where it was.
Elsewhere(t) == \A u \in Threads \ {t} : pc'[u] = pc[u] /\ stack'[u] = stack[u]

\* No label is both a step of a thread's own call and a step of the store.
LEMMA LabelsApart ==
  /\ Tops \cap Callees = {}
  /\ Tops \subseteq Labels /\ Callees \subseteq Labels
  /\ Lookups \cap Saves = {}
BY Zenon DEF Labels, Tops, OfStart, Loop, InPlanStep, Callees, Lookups, Saves

\* The stacks that the calls make.
LEMMA Stacks ==
  ASSUME NEW a \in Labels, NEW b \in Labels, NEW c \in Labels
  PROVE  /\ <<a>> \o <<b>> = <<a, b>>
         /\ <<a, b>> \o <<c>> = <<a, b, c>>
         /\ <<a>> # <<>> /\ <<a, b>> # <<>> /\ <<a, b, c>> # <<>>
<1>1. /\ <<a>> \in Seq(Labels) /\ <<b>> \in Seq(Labels) /\ <<c>> \in Seq(Labels)
      /\ <<a, b>> \in Seq(Labels) /\ <<a, b, c>> \in Seq(Labels)
  OBVIOUS
<1>2. <<a>> \o <<b>> = <<a, b>>
  <2> DEFINE s == <<a>> \o <<b>>
  <2> DEFINE u == <<a, b>>
  <2>1. s \in Seq(Labels) /\ Len(s) = 2 /\ s[1] = a /\ s[2] = b
    BY <1>1, ConcatProperties
  <2>2. u \in Seq(Labels) /\ Len(u) = 2 /\ u[1] = a /\ u[2] = b
    BY <1>1, Zenon
  <2> HIDE DEF s, u
  <2>3. Len(s) = Len(u) /\ \A i \in 1 .. Len(s) : s[i] = u[i]
    BY <2>1, <2>2
  <2>4. s = u
    BY <2>1, <2>2, <2>3, SeqEqual, Zenon
  <2> QED BY <2>4, Zenon DEF s, u
<1>3. <<a, b>> \o <<c>> = <<a, b, c>>
  <2> DEFINE s == <<a, b>> \o <<c>>
  <2> DEFINE u == <<a, b, c>>
  <2>1. s \in Seq(Labels) /\ Len(s) = 3 /\ s[1] = a /\ s[2] = b /\ s[3] = c
    BY <1>1, ConcatProperties
  <2>2. u \in Seq(Labels) /\ Len(u) = 3 /\ u[1] = a /\ u[2] = b /\ u[3] = c
    BY <1>1, Zenon
  <2> HIDE DEF s, u
  <2>3. Len(s) = Len(u) /\ \A i \in 1 .. Len(s) : s[i] = u[i]
    BY <2>1, <2>2
  <2>4. s = u
    BY <2>1, <2>2, <2>3, SeqEqual, Zenon
  <2> QED BY <2>4, Zenon DEF s, u
<1>4. <<a>> # <<>> /\ <<a, b>> # <<>> /\ <<a, b, c>> # <<>>
  OBVIOUS
<1> QED BY <1>2, <1>3, <1>4, Zenon

\* Where a thread is, read off its stack.
LEMMA Places ==
  ASSUME NEW p, NEW s
  PROVE  /\ s = <<>> => HomeOf(p, s) = p /\ BehindOf(s) = {}
         /\ \A h : s = <<h>> => HomeOf(p, s) = h /\ BehindOf(s) = {h}
         /\ \A a, h : s = <<a, h>> => HomeOf(p, s) = h /\ BehindOf(s) = {a, h}
         /\ \A b, a, h : s = <<b, a, h>> => HomeOf(p, s) = h /\ BehindOf(s) = {b, a, h}
BY DEF HomeOf, BehindOf

\* A thread at a step of its own call has nothing behind it, and one that
\* looks for a result has only its own call behind it.
LEMMA AtHome ==
  ASSUME NEW t, Nested(t)
  PROVE  /\ Home(t) \in Tops
         /\ pc[t] \in Tops => stack[t] = <<>> /\ Home(t) = pc[t] /\ Calls(t) = {pc[t]}
         /\ pc[t] \in Lookups => stack[t] = <<Home(t)>> /\ Calls(t) = {pc[t], Home(t)}
         /\ pc[t] \in Callees => Home(t) \in Behind(t) /\ Behind(t) \subseteq {Home(t)} \cup (Callees \ Lookups)
         /\ Calls(t) = {pc[t]} \cup Behind(t)
<1>1. Calls(t) = {pc[t]} \cup Behind(t)
  BY Zenon DEF Calls, Behind, BehindOf
<1>2. CASE stack[t] = <<>> /\ pc[t] \in Tops
  <2>1. Home(t) = pc[t] /\ Behind(t) = {} /\ pc[t] \notin Callees /\ pc[t] \notin Lookups
    BY <1>2, Places, LabelsApart, Zenon DEF Home, Behind, Callees
  <2> QED BY <1>1, <1>2, <2>1, Zenon
<1>3. ASSUME NEW h \in Tops, stack[t] = <<h>>, pc[t] \in Callees
      PROVE  /\ Home(t) \in Tops /\ pc[t] \notin Tops
             /\ stack[t] = <<Home(t)>> /\ Calls(t) = {pc[t], Home(t)}
             /\ Behind(t) = {Home(t)}
  <2>1. Home(t) = h /\ Behind(t) = {h} /\ pc[t] \notin Tops
    BY <1>3, Places, LabelsApart DEF Home, Behind
  <2> QED BY <1>1, <1>3, <2>1, Zenon
<1>4. ASSUME pc[t] \in Callees \ Lookups, NEW h \in Tops, NEW a \in Callees \ Lookups, stack[t] = <<a, h>>
      PROVE  /\ Home(t) \in Tops /\ pc[t] \notin Tops
             /\ Behind(t) = {a, Home(t)}
  BY <1>4, Places, LabelsApart DEF Home, Behind
<1>5. ASSUME pc[t] \in Callees \ Lookups, NEW h \in Tops, NEW a \in Callees \ Lookups,
             NEW b \in Callees \ Lookups, stack[t] = <<b, a, h>>
      PROVE  /\ Home(t) \in Tops /\ pc[t] \notin Tops
             /\ Behind(t) = {b, a, Home(t)}
  BY <1>5, Places, LabelsApart DEF Home, Behind
<1> QED BY <1>1, <1>2, <1>3, <1>4, <1>5 DEF Nested, NestedOf

\* A step within the thread's own call.
LEMMA Goes ==
  ASSUME ControlTyped, NEW t \in Threads, stack[t] = <<>>,
         NEW label \in Tops, Goto(t, label)
  PROVE  /\ ControlTyped' /\ Elsewhere(t) /\ Nested(t)'
         /\ pc'[t] = label /\ Home(t)' = label /\ Calls(t)' = {label}
<1>1. /\ ControlTyped' /\ Elsewhere(t)
      /\ pc'[t] = label /\ stack'[t] = <<>>
  BY LabelsApart, Zenon DEF ControlTyped, Goto, Elsewhere
<1>2. Nested(t)' /\ Home(t)' = label /\ BehindOf(stack'[t]) = {}
  BY <1>1, Places, Zenon DEF Nested, NestedOf, Home
<1> QED BY <1>1, <1>2, Zenon DEF Calls, BehindOf

\* A call of one operation of the store.
LEMMA CallsOne ==
  ASSUME ControlTyped, NEW t \in Threads, stack[t] = <<>>,
         NEW a \in Callees, NEW h \in Tops, Then(t, <<a, h>>)
  PROVE  /\ ControlTyped' /\ Elsewhere(t) /\ Nested(t)'
         /\ pc'[t] = a /\ Home(t)' = h /\ Calls(t)' = {a, h}
<1>1. Tail(<<a, h>>) \o <<>> = <<h>> /\ <<h>> \in Seq(Labels) /\ Head(<<a, h>>) = a
  BY LabelsApart
<1>2. /\ ControlTyped' /\ Elsewhere(t)
      /\ pc'[t] = a /\ stack'[t] = <<h>>
  BY <1>1, LabelsApart, Zenon DEF ControlTyped, Then, Elsewhere
<1>3. Nested(t)' /\ Home(t)' = h /\ BehindOf(stack'[t]) = {h}
  BY <1>2, Places DEF Nested, NestedOf, Home
<1> QED BY <1>2, <1>3, Zenon DEF Calls, BehindOf

\* A call of two operations of the store.
LEMMA CallsTwo ==
  ASSUME ControlTyped, NEW t \in Threads, stack[t] = <<>>,
         NEW a \in Callees \ Lookups, NEW b \in Callees \ Lookups, NEW h \in Tops,
         Then(t, <<a, b, h>>)
  PROVE  /\ ControlTyped' /\ Elsewhere(t) /\ Nested(t)'
         /\ pc'[t] = a /\ Home(t)' = h /\ Calls(t)' = {a, b, h}
<1>1. /\ Tail(<<a, b, h>>) \o <<>> = <<b, h>> /\ <<b, h>> \in Seq(Labels)
      /\ Head(<<a, b, h>>) = a
  BY LabelsApart
<1>2. /\ ControlTyped' /\ Elsewhere(t)
      /\ pc'[t] = a /\ stack'[t] = <<b, h>>
  BY <1>1, LabelsApart, Zenon DEF ControlTyped, Then, Elsewhere
<1>3. Nested(t)' /\ Home(t)' = h /\ BehindOf(stack'[t]) = {b, h}
  BY <1>2, Places DEF Nested, NestedOf, Home
<1> QED BY <1>2, <1>3, Zenon DEF Calls, BehindOf

\* A call of three operations of the store.
LEMMA CallsThree ==
  ASSUME ControlTyped, NEW t \in Threads, stack[t] = <<>>,
         NEW a \in Callees \ Lookups, NEW b \in Callees \ Lookups,
         NEW c \in Callees \ Lookups, NEW h \in Tops,
         Then(t, <<a, b, c, h>>)
  PROVE  /\ ControlTyped' /\ Elsewhere(t) /\ Nested(t)'
         /\ pc'[t] = a /\ Home(t)' = h /\ Calls(t)' = {a, b, c, h}
<1>1. /\ Tail(<<a, b, c, h>>) \o <<>> = <<b, c, h>> /\ <<b, c, h>> \in Seq(Labels)
      /\ Head(<<a, b, c, h>>) = a
  BY LabelsApart
<1>2. /\ ControlTyped' /\ Elsewhere(t)
      /\ pc'[t] = a /\ stack'[t] = <<b, c, h>>
  BY <1>1, LabelsApart, Zenon DEF ControlTyped, Then, Elsewhere
<1>3. Nested(t)' /\ Home(t)' = h /\ BehindOf(stack'[t]) = {b, c, h}
  BY <1>2, Places DEF Nested, NestedOf, Home
<1> QED BY <1>2, <1>3, Zenon DEF Calls, BehindOf

\* A step within an operation of the store.
LEMMA GoesOn ==
  ASSUME ControlTyped, NEW t \in Threads, Nested(t), pc[t] \in Callees,
         NEW label \in Callees, label \in Lookups => pc[t] \in Lookups, Goto(t, label)
  PROVE  /\ ControlTyped' /\ Elsewhere(t) /\ Nested(t)'
         /\ pc'[t] = label /\ Home(t)' = Home(t) /\ Calls(t)' = {label} \cup Behind(t)
<1>1. /\ ControlTyped' /\ Elsewhere(t)
      /\ pc'[t] = label /\ stack'[t] = stack[t]
  BY LabelsApart, Zenon DEF ControlTyped, Goto, Elsewhere
<1>2. stack[t] # <<>>
  BY LabelsApart, Stacks, Zenon DEF Nested, NestedOf
<1>3. Home(t)' = Home(t) /\ Calls(t)' = {label} \cup Behind(t)
  BY <1>1, <1>2, Zenon DEF Home, HomeOf, Calls, Behind, BehindOf
<1>4. NestedOf(label, stack[t])
  BY <1>2, LabelsApart, Zenon DEF Nested, NestedOf
<1>5. Nested(t)'
  BY <1>1, <1>4, Zenon DEF Nested
<1> QED BY <1>1, <1>3, <1>5, Zenon

\* The return of an operation of the store.
LEMMA Returns ==
  ASSUME ControlTyped, NEW t \in Threads, Nested(t), pc[t] \in Callees, Return(t)
  PROVE  /\ ControlTyped' /\ Elsewhere(t) /\ Nested(t)'
         /\ pc'[t] \in Behind(t) /\ Home(t)' = Home(t) /\ Calls(t)' = Behind(t)
         /\ pc[t] \in Lookups => pc'[t] = Home(t)
<1>1. CASE \E h \in Tops : stack[t] = <<h>>
  <2>1. PICK h \in Tops : stack[t] = <<h>>
    BY <1>1, Zenon
  <2>2. /\ ControlTyped' /\ Elsewhere(t)
        /\ pc'[t] = h /\ stack'[t] = <<>>
    BY <2>1, LabelsApart DEF ControlTyped, Return, Elsewhere
  <2>3. Nested(t)' /\ Home(t)' = h /\ BehindOf(stack'[t]) = {}
    BY <2>2, Places, Zenon DEF Nested, NestedOf, Home
  <2>4. Home(t) = h /\ Behind(t) = {h}
    BY <2>1, Places DEF Home, Behind
  <2> QED BY <2>2, <2>3, <2>4, Zenon DEF Calls, BehindOf
<1>2. CASE \E h \in Tops, a \in Callees \ Lookups : stack[t] = <<a, h>>
  <2>1. PICK h \in Tops, a \in Callees \ Lookups : stack[t] = <<a, h>>
    BY <1>2, Zenon
  <2>0. Tail(<<a, h>>) = <<h>> /\ Head(<<a, h>>) = a /\ <<h>> \in Seq(Labels) /\ pc[t] \notin Lookups
    BY <2>1, LabelsApart DEF Nested, NestedOf
  <2>2. /\ ControlTyped' /\ Elsewhere(t)
        /\ pc'[t] = a /\ stack'[t] = <<h>>
    BY <2>0, <2>1, LabelsApart, Zenon DEF ControlTyped, Return, Elsewhere
  <2>3. Nested(t)' /\ Home(t)' = h /\ BehindOf(stack'[t]) = {h}
    BY <2>2, Places DEF Nested, NestedOf, Home
  <2>4. Home(t) = h /\ Behind(t) = {a, h}
    BY <2>1, Places DEF Home, Behind
  <2> QED BY <2>0, <2>2, <2>3, <2>4, Zenon DEF Calls, BehindOf
<1>3. CASE \E h \in Tops, a, b \in Callees \ Lookups : stack[t] = <<b, a, h>>
  <2>1. PICK h \in Tops, a \in Callees \ Lookups, b \in Callees \ Lookups : stack[t] = <<b, a, h>>
    BY <1>3, Zenon
  <2>0. Tail(<<b, a, h>>) = <<a, h>> /\ Head(<<b, a, h>>) = b /\ <<a, h>> \in Seq(Labels) /\ pc[t] \notin Lookups
    BY <2>1, LabelsApart DEF Nested, NestedOf
  <2>2. /\ ControlTyped' /\ Elsewhere(t)
        /\ pc'[t] = b /\ stack'[t] = <<a, h>>
    BY <2>0, <2>1, LabelsApart, Zenon DEF ControlTyped, Return, Elsewhere
  <2>3. Nested(t)' /\ Home(t)' = h /\ BehindOf(stack'[t]) = {a, h}
    BY <2>2, Places DEF Nested, NestedOf, Home
  <2>4. Home(t) = h /\ Behind(t) = {b, a, h}
    BY <2>1, Places DEF Home, Behind
  <2> QED BY <2>0, <2>2, <2>3, <2>4, Zenon DEF Calls, BehindOf
<1> QED BY <1>1, <1>2, <1>3, LabelsApart, Zenon DEF Nested, NestedOf

\* A lookup that finds nothing saves a result, and appends an event.
LEMMA Deeper ==
  ASSUME ControlTyped, NEW t \in Threads, Nested(t), pc[t] \in Lookups,
         NEW a \in Callees \ Lookups, NEW b \in Callees \ Lookups, Then(t, <<a, b>>)
  PROVE  /\ ControlTyped' /\ Elsewhere(t) /\ Nested(t)'
         /\ pc'[t] = a /\ Home(t)' = Home(t) /\ Calls(t)' = {a, b, Home(t)}
<1> DEFINE h == Home(t)
<1>1. h \in Tops /\ stack[t] = <<h>>
  BY AtHome, Zenon
<1> HIDE DEF h
<1>2. Tail(<<a, b>>) = <<b>> /\ Head(<<a, b>>) = a /\ <<b>> \o <<h>> = <<b, h>> /\ <<b, h>> \in Seq(Labels)
  <2>1. a \in Labels /\ b \in Labels /\ h \in Labels
    BY <1>1, LabelsApart, Zenon
  <2>2. <<b>> \o <<h>> = <<b, h>>
    BY <2>1, Stacks, Zenon
  <2> QED BY <2>1, <2>2
<1>3. /\ ControlTyped' /\ Elsewhere(t)
      /\ pc'[t] = a /\ stack'[t] = <<b, h>>
  <2>1. Tail(<<a, b>>) \o stack[t] = <<b, h>>
    BY <1>1, <1>2, Zenon
  <2> QED BY <1>2, <2>1, LabelsApart, Zenon DEF ControlTyped, Then, Elsewhere
<1>4. Nested(t)' /\ Home(t)' = h /\ BehindOf(stack'[t]) = {b, h}
  BY <1>1, <1>3, Places DEF Nested, NestedOf, Home
<1> QED BY <1>3, <1>4, Zenon DEF Calls, BehindOf, h

\* A stalled run is written, then its result, then its event.
LEMMA Deepest ==
  ASSUME ControlTyped, NEW t \in Threads, Nested(t), pc[t] \in Lookups,
         NEW a \in Callees \ Lookups, NEW b \in Callees \ Lookups,
         NEW c \in Callees \ Lookups, Then(t, <<a, b, c>>)
  PROVE  /\ ControlTyped' /\ Elsewhere(t) /\ Nested(t)'
         /\ pc'[t] = a /\ Home(t)' = Home(t) /\ Calls(t)' = {a, b, c, Home(t)}
<1> DEFINE h == Home(t)
<1>1. h \in Tops /\ stack[t] = <<h>>
  BY AtHome, Zenon
<1> HIDE DEF h
<1>2. /\ Tail(<<a, b, c>>) = <<b, c>> /\ Head(<<a, b, c>>) = a
      /\ <<b, c>> \o <<h>> = <<b, c, h>> /\ <<b, c, h>> \in Seq(Labels)
  <2>1. a \in Labels /\ b \in Labels /\ c \in Labels /\ h \in Labels
    BY <1>1, LabelsApart, Zenon
  <2>2. <<b, c>> \o <<h>> = <<b, c, h>>
    BY <2>1, Stacks, Zenon
  <2> QED BY <2>1, <2>2
<1>3. /\ ControlTyped' /\ Elsewhere(t)
      /\ pc'[t] = a /\ stack'[t] = <<b, c, h>>
  <2>1. Tail(<<a, b, c>>) \o stack[t] = <<b, c, h>>
    BY <1>1, <1>2, Zenon
  <2> QED BY <1>2, <2>1, LabelsApart, Zenon DEF ControlTyped, Then, Elsewhere
<1>4. Nested(t)' /\ Home(t)' = h /\ BehindOf(stack'[t]) = {b, c, h}
  BY <1>1, <1>3, Places DEF Nested, NestedOf, Home
<1> QED BY <1>3, <1>4, Zenon DEF Calls, BehindOf, h

\* The end of a call.
LEMMA Ends ==
  ASSUME ControlTyped, NEW t \in Threads, NEW label \in Tops, Finish(t, label)
  PROVE  /\ ControlTyped' /\ Elsewhere(t) /\ Nested(t)'
         /\ pc'[t] = label /\ Home(t)' = label /\ Calls(t)' = {label}
<1>1. /\ ControlTyped' /\ Elsewhere(t)
      /\ pc'[t] = label /\ stack'[t] = <<>>
  BY LabelsApart DEF ControlTyped, Finish, Elsewhere
<1>2. Nested(t)' /\ Home(t)' = label /\ BehindOf(stack'[t]) = {}
  BY <1>1, Places, Zenon DEF Nested, NestedOf, Home
<1> QED BY <1>1, <1>2, Zenon DEF Calls, BehindOf

\* The thread goes to a label, with these steps ahead of it; the others stay.
Arrives(t, label, home, calls) ==
  /\ ControlTyped' /\ Elsewhere(t) /\ Nested(t)'
  /\ pc'[t] = label /\ Home(t)' = home /\ Calls(t)' = calls

\* Where a thread goes from a step of start() or of the loop.
FromStart(t) ==
  /\ \A h \in {"finish", "step_decide", "artifact_start", "artifact_create", "start_done"} :
       Goto(t, h) => Arrives(t, h, h, {h})
  /\ Then(t, <<"get_result", "start_test">>)
       => Arrives(t, "get_result", "start_test", {"get_result", "start_test"})
  /\ \A h \in {"tail_reload", "step", "finish", "artifact_done", "artifact_rejected",
               "finalize", "start_done"} :
       Then(t, <<"update_run", h>>) => Arrives(t, "update_run", h, {"update_run", h})
  /\ Then(t, <<"update_run", "update_run", "execute">>)
       => Arrives(t, "update_run", "execute", {"update_run", "execute"})
  /\ Then(t, <<"update_run", "save_result", "update_run", "tail_reload">>)
       => Arrives(t, "update_run", "tail_reload", {"update_run", "save_result", "tail_reload"})

\* Where a thread goes from a step of another call: to another one, or to
\* operations of the store that come first.
FromGuard(t) ==
  /\ \A h \in {"idle", "returned", "cancel_event", "cancel_request", "read_done",
               "budget_run", "budget_block", "unlock"} :
       Goto(t, h) => Arrives(t, h, h, {h})
  /\ Then(t, <<"budget_index">>) => Arrives(t, "budget_index", "budget_index", {"budget_index"})
  /\ \A h \in {"watch_seen", "watch_exit", "read_ensure", "gap_run", "budget_decide", "unlock"} :
       Then(t, <<"get_result", h>>) => Arrives(t, "get_result", h, {"get_result", h})
  /\ \A h \in {"read_done", "budget_ensured", "gap_done"} :
       Then(t, <<"ensure", h>>) => Arrives(t, "ensure", h, {"ensure", h})
  /\ \A h \in {"unlock", "budget_stalled"} :
       Then(t, <<"stall", h>>) => Arrives(t, "stall", h, {"stall", h})
  /\ \A h \in {"gap_done", "cancel_done"} :
       Then(t, <<"update_run", h>>) => Arrives(t, "update_run", h, {"update_run", h})

\* Where a guard goes to end the run.
FromVerdict(t) ==
  /\ Then(t, <<"save_result", "gap_reload">>)
       => Arrives(t, "save_result", "gap_reload", {"save_result", "gap_reload"})
  /\ Then(t, <<"update_run", "guard_event", "gap_done">>)
       => Arrives(t, "update_run", "gap_done", {"update_run", "guard_event", "gap_done"})
  /\ Then(t, <<"update_run", "save_result", "guard_event", "unlock">>)
       => Arrives(t, "update_run", "unlock", {"update_run", "save_result", "guard_event", "unlock"})

\* A thread moves from one step of its own call to another, or to operations
\* of the store that come before it.
LEMMA Moves ==
  ASSUME ControlTyped, NEW t \in Threads, Nested(t), pc[t] \in Tops
  PROVE  FromStart(t) /\ FromGuard(t) /\ FromVerdict(t)
<1>1. stack[t] = <<>>
  BY AtHome, Zenon
<1>2. /\ {"budget_index", "execute", "gap_done", "tail_reload", "unlock"} \subseteq Tops
      /\ {"update_run", "save_result", "guard_event"} \subseteq Callees \ Lookups
  BY Zenon DEF Tops, OfStart, Loop, InPlanStep, Callees, Lookups, Saves
<1>3. Then(t, <<"budget_index">>) => Goto(t, "budget_index")
  <2>1. Head(<<"budget_index">>) = "budget_index" /\ Tail(<<"budget_index">>) \o <<>> = <<>>
    OBVIOUS
  <2> QED BY <1>1, <2>1, Zenon DEF Then, Goto, ControlTyped
<1>4. /\ \A h \in Tops : Goto(t, h) => Arrives(t, h, h, {h})
      /\ \A h \in Tops : Finish(t, h) => Arrives(t, h, h, {h})
  BY <1>1, Goes, Ends, Zenon DEF Arrives
<1>5. \A a \in Callees, h \in Tops : Then(t, <<a, h>>) => Arrives(t, a, h, {a, h})
  BY <1>1, CallsOne, Zenon DEF Arrives
<1>6. \A a, b \in Callees \ Lookups, h \in Tops :
         Then(t, <<a, b, h>>) => Arrives(t, a, h, {a, b, h})
  BY <1>1, CallsTwo, Zenon DEF Arrives
<1>7. \A a, b, c \in Callees \ Lookups, h \in Tops :
         Then(t, <<a, b, c, h>>) => Arrives(t, a, h, {a, b, c, h})
  BY <1>1, CallsThree, Zenon DEF Arrives
<1>8. \A h \in Tops : Then(t, <<"update_run", "update_run", h>>) => Arrives(t, "update_run", h, {"update_run", h})
  <2>1. \A h : {"update_run", "update_run", h} = {"update_run", h}
    OBVIOUS
  <2> QED BY <1>2, <1>6, <2>1, Zenon
<1>9. Then(t, <<"update_run", "save_result", "update_run", "tail_reload">>)
        => Arrives(t, "update_run", "tail_reload", {"update_run", "save_result", "tail_reload"})
  <2>1. {"update_run", "save_result", "update_run", "tail_reload"} = {"update_run", "save_result", "tail_reload"}
    OBVIOUS
  <2> QED BY <1>2, <1>7, <2>1, Zenon
<1>10. /\ {"get_result", "ensure", "stall", "update_run", "save_result"} \subseteq Callees
       /\ {"idle", "returned", "cancel_event", "cancel_request", "read_done", "finish",
           "step_decide", "artifact_start", "artifact_create", "start_done",
           "budget_run", "budget_block", "unlock", "done", "start_test", "watch_seen",
           "watch_exit", "read_ensure", "gap_run", "gap_reload", "budget_decide",
           "budget_ensured", "gap_done", "budget_stalled", "cancel_done", "tail_reload",
           "step", "artifact_done", "artifact_rejected", "finalize"} \subseteq Tops
  BY Zenon DEF Tops, OfStart, Loop, InPlanStep, Callees, Lookups, Saves
<1>11. FromStart(t)
  BY <1>2, <1>4, <1>5, <1>8, <1>9, <1>10, Zenon DEF FromStart
<1>12. FromGuard(t)
  BY <1>2, <1>3, <1>4, <1>5, <1>10, Zenon DEF FromGuard
<1>13. FromVerdict(t)
  BY <1>2, <1>5, <1>6, <1>7, <1>10, Zenon DEF FromVerdict
<1> QED BY <1>11, <1>12, <1>13, Zenon

\* The moves of a guard, a reader or cancel() that save no result.
QuietMove(t) ==
  \/ \E h \in {"idle", "returned", "cancel_event", "cancel_request", "read_done",
               "budget_run", "budget_block", "unlock"} : Goto(t, h)
  \/ Then(t, <<"budget_index">>)
  \/ \E h \in {"watch_seen", "watch_exit", "read_ensure", "gap_run", "budget_decide", "unlock"} :
       Then(t, <<"get_result", h>>)
  \/ \E h \in {"read_done", "budget_ensured", "gap_done"} : Then(t, <<"ensure", h>>)
  \/ \E h \in {"unlock", "budget_stalled"} : Then(t, <<"stall", h>>)
  \/ \E h \in {"gap_done", "cancel_done"} : Then(t, <<"update_run", h>>)

\* The thread is outside start(), with nothing to save.
Outside(t) ==
  /\ ControlTyped' /\ Elsewhere(t) /\ Nested(t)'
  /\ Home(t)' \in Tops \ (OfStart \cup {"gap_reload"})
  /\ Calls(t)' \cap Saves = {}

\* The quiet moves.
LEMMA QuietMoves ==
  ASSUME NEW t, FromGuard(t), QuietMove(t)
  PROVE  Outside(t)
<1>1. ASSUME NEW a, NEW h, Arrives(t, a, h, {a, h}), h \in Tops \ (OfStart \cup {"gap_reload"}),
             a \notin Saves, h \notin Saves
      PROVE  Outside(t)
  BY <1>1, Zenon DEF Arrives, Outside
<1>2. \A h : {h, h} = {h}
  OBVIOUS
<1>3. /\ {"idle", "returned", "cancel_event", "cancel_request", "read_done", "budget_run",
          "budget_block", "unlock", "budget_index", "watch_seen", "watch_exit", "read_ensure",
          "gap_run", "budget_decide", "budget_ensured", "gap_done", "budget_stalled", "cancel_done"}
            \subseteq Tops \ (OfStart \cup {"gap_reload"} \cup Saves)
      /\ {"get_result", "ensure", "stall", "update_run"} \cap Saves = {}
  BY Zenon DEF Tops, OfStart, Loop, InPlanStep, Saves
<1>4. \E a, h : Arrives(t, a, h, {a, h}) /\ h \in Tops \ (OfStart \cup {"gap_reload"} \cup Saves) /\ a \notin Saves
  <2>1. CASE \/ Then(t, <<"budget_index">>)
             \/ \E h \in {"idle", "returned", "cancel_event", "cancel_request", "read_done",
                          "budget_run", "budget_block", "unlock"} : Goto(t, h)
    <3>1. \E h \in Tops \ (OfStart \cup {"gap_reload"} \cup Saves) : Arrives(t, h, h, {h})
      BY <1>3, <2>1, Zenon DEF FromGuard
    <3> QED BY <1>2, <3>1, Zenon
  <2>2. CASE \E h \in {"watch_seen", "watch_exit", "read_ensure", "gap_run", "budget_decide", "unlock"} :
                Then(t, <<"get_result", h>>)
    BY <1>3, <2>2, Zenon DEF FromGuard
  <2>3. CASE \/ \E h \in {"read_done", "budget_ensured", "gap_done"} : Then(t, <<"ensure", h>>)
             \/ \E h \in {"unlock", "budget_stalled"} : Then(t, <<"stall", h>>)
             \/ \E h \in {"gap_done", "cancel_done"} : Then(t, <<"update_run", h>>)
    BY <1>3, <2>3, Zenon DEF FromGuard
  <2> QED BY <2>1, <2>2, <2>3, Zenon DEF QuietMove
<1> QED BY <1>1, <1>4, Zenon

\* Where a thread goes from a step of an operation of the store.
FromStore(t) ==
  /\ Home(t) \in Tops /\ Home(t) \in Behind(t) /\ Calls(t) = {pc[t]} \cup Behind(t)
  /\ Behind(t) \cap Lookups = {}
  /\ \A a \in {"update_index", "cohere", "cohere_run", "cohere_index"} :
       Goto(t, a) => Arrives(t, a, Home(t), {a} \cup Behind(t))
  /\ Return(t) => Arrives(t, pc'[t], Home(t), Behind(t)) /\ pc'[t] \in Behind(t)

\* Where a thread goes from a lookup.
FromLookup(t) ==
  /\ Home(t) \in Tops /\ Behind(t) = {Home(t)} /\ Calls(t) = {pc[t], Home(t)}
  /\ \A a \in Lookups \cup {"cohere"} : Goto(t, a) => Arrives(t, a, Home(t), {a, Home(t)})
  /\ Return(t) => Arrives(t, Home(t), Home(t), {Home(t)})
  /\ Then(t, <<"save_result", "ensure_event">>)
       => Arrives(t, "save_result", Home(t), {"save_result", "ensure_event", Home(t)})
  /\ Then(t, <<"update_run", "save_result", "guard_event">>)
       => Arrives(t, "update_run", Home(t), {"update_run", "save_result", "guard_event", Home(t)})

\* A thread moves within the operations of the store, and out of them to its
\* own call.
LEMMA StoreMoves ==
  ASSUME ControlTyped, NEW t \in Threads, Nested(t), pc[t] \in Callees
  PROVE  FromStore(t) /\ (pc[t] \in Lookups => FromLookup(t))
<1>0. /\ Home(t) \in Tops /\ Home(t) \in Behind(t) /\ Calls(t) = {pc[t]} \cup Behind(t)
      /\ Behind(t) \cap Lookups = {}
  <2>1. /\ Home(t) \in Tops /\ Home(t) \in Behind(t) /\ Calls(t) = {pc[t]} \cup Behind(t)
        /\ Behind(t) \subseteq {Home(t)} \cup (Callees \ Lookups)
    BY AtHome, Zenon
  <2> QED BY <2>1, LabelsApart, Zenon DEF Callees
<1>1. /\ {"update_run", "save_result", "guard_event", "ensure_event"} \subseteq Callees \ Lookups
      /\ {"update_index", "cohere", "cohere_run", "cohere_index"} \subseteq Callees \ Lookups
      /\ Lookups \subseteq Callees
  BY Zenon DEF Callees, Lookups, Saves
<1>2. \A a \in Callees : (a \in Lookups => pc[t] \in Lookups) /\ Goto(t, a)
         => Arrives(t, a, Home(t), {a} \cup Behind(t))
  BY GoesOn, Zenon DEF Arrives
<1>3. Return(t) => /\ Arrives(t, pc'[t], Home(t), Behind(t)) /\ pc'[t] \in Behind(t)
                   /\ pc[t] \in Lookups => pc'[t] = Home(t)
  BY Returns, Zenon DEF Arrives
<1>4. ASSUME pc[t] \in Lookups
      PROVE  /\ Behind(t) = {Home(t)}
             /\ Then(t, <<"save_result", "ensure_event">>)
                   => Arrives(t, "save_result", Home(t), {"save_result", "ensure_event", Home(t)})
             /\ Then(t, <<"update_run", "save_result", "guard_event">>)
                   => Arrives(t, "update_run", Home(t), {"update_run", "save_result", "guard_event", Home(t)})
  <2>1. stack[t] = <<Home(t)>>
    BY <1>4, AtHome, Zenon
  <2>2. Behind(t) = {Home(t)}
    BY <2>1, Places, Zenon DEF Behind
  <2> QED BY <1>1, <1>4, <2>2, Deeper, Deepest, Zenon DEF Arrives
<1>5. ASSUME pc[t] \in Lookups
      PROVE  \A a \in Lookups \cup {"cohere"} : Goto(t, a) => Arrives(t, a, Home(t), {a, Home(t)})
  <2>1. \A a : {a} \cup Behind(t) = {a, Home(t)}
    BY <1>4, <1>5, Zenon
  <2> QED BY <1>1, <1>2, <1>5, <2>1, Zenon
<1>6. FromStore(t)
  BY <1>0, <1>1, <1>2, <1>3, Zenon DEF FromStore
<1>7. pc[t] \in Lookups => FromLookup(t)
  <2>1. pc[t] \in Lookups => Calls(t) = {pc[t], Home(t)}
    BY <1>0, <1>4, Zenon
  <2> QED BY <1>0, <1>3, <1>4, <1>5, <2>1, Zenon DEF FromLookup
<1> QED BY <1>6, <1>7, Zenon

----------------------------------------------------------------------------
(* A thread's step leaves the other threads' control and copies alone.     *)
Same(u) ==
  /\ pc'[u] = pc[u] /\ stack'[u] = stack[u]
  /\ mem'[u] = mem[u] /\ data'[u] = data[u] /\ res'[u] = res[u]
  /\ step'[u] = step[u] /\ out'[u] = out[u]

\* A step of one thread changes nothing that belongs to another.
LEMMA OthersStay ==
  ASSUME TypeOK, NEW t \in Threads, Begin(t) \/ Continue(t), NEW u \in Threads \ {t}
  PROVE  Same(u)
<1> USE DEF Same, TypeOK, KeepRest, locals, Goto, Then, Return, Finish
<1>1. CASE Begin(t)
  <2>1. CASE Start(t) \/ Budget(t) \/ Stall(t) \/ Watch(t) \/ BoundaryReturns(t) \/ MarkAccepted(t) \/ Read(t)
    BY <2>1, Zenon DEF Start, Budget, Lock, Stall, Watch, BoundaryReturns, MarkAccepted, Read
  <2>2. CASE Cancel(t)
    <3>1. CASE CanCancel(runJson.status)
      BY <2>2, <3>1, Zenon DEF Cancel
    <3>2. CASE ~CanCancel(runJson.status)
      BY <2>2, <3>2 DEF Cancel
    <3> QED BY <3>1, <3>2, Zenon
  <2> QED BY <1>1, <2>1, <2>2, Zenon DEF Begin
<1>2. CASE StoreStep(t)
  BY <1>2, Zenon DEF StoreStep, UpdateRun, UpdateIndex, SaveResult, CohereRead, CohereRun, CohereIndex,
              GetResult, GetIndex, EnsureRead, EnsureRun, EnsureEvent
<1>3. CASE CancelStep(t) \/ ReadEnsure(t) \/ ReadDone(t)
  BY <1>3, Zenon DEF CancelStep, CancelRequest, CancelEvent, CancelDone, ReadEnsure, ReadDone
<1>4. CASE StartTest(t) \/ StepRead(t) \/ StepDecide(t)
  BY <1>4, Zenon DEF StartTest, StepRead, StepDecide
<1>5. CASE Execute(t) \/ ArtifactStart(t) \/ ArtifactCreate(t) \/ ArtifactDone(t)
  BY <1>5, Zenon DEF Execute, ArtifactStart, ArtifactCreate, ArtifactDone, Outcome
<1>6. CASE FinishRun(t) \/ Finalize(t) \/ TailReload(t) \/ StartDone(t) \/ WorkerRaises(t)
  BY <1>6 DEF FinishRun, Finalize, TailReload, StartDone, WorkerRaises
<1>7. CASE LockedGuardStep(t)
  BY <1>7, Zenon DEF LockedGuardStep, BudgetIndex, BudgetRun, BudgetEnsured, BudgetDecide, BudgetStalled,
              BudgetBlock, StallRead, StallRun, GuardEvent, Unlock
<1>8. CASE GapStep(t) \/ GuardRaises(t)
  BY <1>8, Zenon DEF GapStep, WatchSeen, WatchExit, GapRun, GapReload, GapDone, GuardRaises
<1> QED BY <1>1, <1>2, <1>3, <1>4, <1>5, <1>6, <1>7, <1>8, Zenon DEF Continue, StartStep

----------------------------------------------------------------------------
(* Types.                                                                  *)

\* What the maps of the lifecycle give.
LEMMA Lifecycle ==
  /\ TerminalStates \subseteq Statuses
  /\ \A r \in ResultStatuses : RunStatusOf(r) \in TerminalStates /\ EventOf(r) \in TerminalStates
  /\ \A s \in TerminalStates : ConservativeResult(s) \in ResultStatuses
  /\ \A s \in TerminalStates : SemanticResults(s) \subseteq ResultStatuses
  /\ TerminalStates \ {"expired"} \subseteq ResultStatuses
  /\ {"completed", "partial", "failed", "blocked", "cancelled"} \subseteq TerminalStates
  /\ {"running", "created"} \subseteq Statuses
  /\ "none" \notin ResultStatuses \cup TerminalStates
  /\ "blocked" \in ResultStatuses /\ "partial" \in ResultStatuses
BY Zenon DEF TerminalStates, Statuses, ResultStatuses, RunStatusOf, EventOf, ConservativeResult, SemanticResults

\* The results that a terminal status may be given.
LEMMA ResultsTyped == \A s \in TerminalStates : TerminalResults(s) \subseteq ResultStatuses
BY Lifecycle, Zenon DEF TerminalResults

\* Everything but the threads' control has its type.
DataTyped ==
  /\ runJson \in Run
  /\ index \in Statuses
  /\ result \in ResultStatuses \cup {"none"}
  /\ term \in TerminalStates \cup {"none"}
  /\ started \in BOOLEAN /\ overBudget \in BOOLEAN /\ cancelAcked \in BOOLEAN
  /\ artifact \in {"none", "open", "closed"}
  /\ lock \in Threads \cup {NoThread}
  /\ mem \in [Threads -> Run] /\ data \in [Threads -> Run]
  /\ res \in [Threads -> ResultStatuses \cup {"none"}]
  /\ step \in [Threads -> 1..(NSteps + 1)]
  /\ out \in [Threads -> TerminalStates]
  /\ succeeded \subseteq executed
  /\ executed \subseteq Starters \X (1..NSteps)
  /\ cancels \in 0..MaxCancels /\ crashes \in 0..MaxCrashes

\* The two halves of the type invariant.
LEMMA TypeHalves == TypeOK <=> ControlTyped /\ DataTyped
BY Zenon DEF TypeOK, ControlTyped, DataTyped

\* What a thread relies on at the step it is at.
LEMMA Here ==
  ASSUME ControlInv, NEW t \in Threads
  PROVE  /\ pc[t] \in Saves => res[t] # "none"
         /\ pc[t] \in OfStart => t \in Starters
         /\ pc[t] \in InPlanStep => step[t] <= NSteps
         /\ pc[t] \in InPlanStep \ {"step_decide", "execute"} => <<t, step[t]>> \in executed
         /\ pc[t] = "finalize" => mem[t].status \in ResultStatuses
         /\ out[t] # "expired"
         /\ pc[t] \in Tops => stack[t] = <<>> /\ Home(t) = pc[t] /\ Calls(t) = {pc[t]}
<1>1. Nested(t) /\ Ready(t)
  BY Zenon DEF ControlInv
<1>2. /\ pc[t] \in Tops => stack[t] = <<>> /\ Home(t) = pc[t] /\ Calls(t) = {pc[t]}
      /\ pc[t] \in Calls(t)
  BY <1>1, AtHome, Zenon
<1>3. "finalize" \in Tops /\ InPlanStep \subseteq Tops /\ OfStart \subseteq Tops
  BY Zenon DEF Tops, OfStart, Loop
<1> QED BY <1>1, <1>2, <1>3, Zenon DEF Ready

\* A copy of a run whose status is replaced.
LEMMA RunTyped ==
  /\ NoRun \in Run
  /\ \A r \in Run : r.status \in Statuses /\ r.cancel \in BOOLEAN
  /\ \A r \in Run, s \in Statuses : [r EXCEPT !.status = s] \in Run
  /\ \A r \in Run, b \in BOOLEAN : [r EXCEPT !.cancel = b] \in Run
BY Lifecycle, Zenon DEF Run, NoRun

\* The steps of the store keep the types.
LEMMA StoreTypes ==
  ASSUME DataTyped, ControlInv, NEW t \in Threads, StoreStep(t)
  PROVE  DataTyped'
<1> USE DEF DataTyped, KeepRest, locals, history, At, files
<1>1. pc[t] \in Saves => RunStatusOf(res[t]) \in TerminalStates /\ EventOf(res[t]) \in TerminalStates
  BY Here, Lifecycle, Zenon
<1>2. CASE UpdateRun(t) \/ UpdateIndex(t) \/ SaveResult(t) \/ CohereRead(t)
  BY <1>2, RunTyped, ZenonT(30) DEF UpdateRun, UpdateIndex, SaveResult, CohereRead
<1>3. CASE CohereRun(t) \/ CohereIndex(t)
  BY <1>1, <1>3, RunTyped, Lifecycle DEF CohereRun, CohereIndex, Saves
<1>4. CASE GetResult(t) \/ GetIndex(t) \/ EnsureRead(t)
  BY <1>4, Zenon DEF GetResult, GetIndex, EnsureRead
<1>5. CASE EnsureRun(t)
  BY <1>5, ResultsTyped, Zenon DEF EnsureRun, IsTerminal
<1>6. CASE EnsureEvent(t)
  BY <1>1, <1>6, Zenon DEF EnsureEvent, AppendTerminal, Saves
<1> QED BY <1>2, <1>3, <1>4, <1>5, <1>6, Zenon DEF StoreStep

\* A thread that ends its call has no copies left.
LEMMA FinishTyped ==
  ASSUME DataTyped, NEW t \in Threads, NEW label, Finish(t, label)
  PROVE  /\ mem' \in [Threads -> Run] /\ data' \in [Threads -> Run]
         /\ res' \in [Threads -> ResultStatuses \cup {"none"}]
         /\ step' \in [Threads -> 1..(NSteps + 1)]
         /\ out' \in [Threads -> TerminalStates]
<1>1. 1 \in 1..(NSteps + 1) /\ "completed" \in TerminalStates
  BY StepAssumption, Lifecycle
<1> QED BY <1>1, RunTyped, Zenon DEF DataTyped, Finish

\* A thread's copy with another status, or marked for cancellation.
LEMMA CopyTyped ==
  ASSUME DataTyped, NEW t \in Threads
  PROVE  /\ \A s \in Statuses : [mem EXCEPT ![t].status = s] \in [Threads -> Run]
         /\ \A b \in BOOLEAN : [mem EXCEPT ![t].cancel = b] \in [Threads -> Run]
         /\ \A r \in Run : [mem EXCEPT ![t] = r] \in [Threads -> Run]
         /\ \A s \in Statuses : [runJson EXCEPT !.status = s] \in Run
         /\ [runJson EXCEPT !.cancel = TRUE] \in Run
         /\ (mem[t].cancel \/ runJson.cancel) \in BOOLEAN
         /\ mem \in [Threads -> Run] /\ step[t] \in 1..(NSteps + 1)
BY RunTyped, Zenon DEF DataTyped, Run

\* The steps of cancel() and of the readers keep the types.
LEMMA CallTypes ==
  ASSUME DataTyped, ControlInv, NEW t \in Threads,
         Begin(t) \/ CancelStep(t) \/ ReadEnsure(t) \/ ReadDone(t)
  PROVE  DataTyped'
<1> USE DEF KeepRest, locals, history, files
<1>1. CASE Begin(t)
  <2>1. CASE Cancel(t)
    <3>1. CASE CanCancel(runJson.status)
      <4>1. mem' \in [Threads -> Run]
        <5>1. mem' = [mem EXCEPT ![t] = [runJson EXCEPT !.cancel = TRUE]]
          BY <2>1, <3>1, Zenon DEF Cancel
        <5> QED BY <5>1, CopyTyped, Zenon
      <4> QED BY <2>1, <3>1, <4>1, BoundAssumption DEF Cancel, DataTyped
    <3>2. CASE ~CanCancel(runJson.status)
      <4>1. Finish(t, "idle")
        BY <2>1, <3>2, Zenon DEF Cancel
      <4> QED BY <2>1, <3>2, <4>1, FinishTyped, BoundAssumption DEF Cancel, DataTyped
    <3> QED BY <3>1, <3>2, Zenon
  <2>2. CASE Start(t) \/ Budget(t) \/ Stall(t)
    BY <2>2, CopyTyped DEF DataTyped, Start, Budget, Stall, Lock
  <2>3. CASE BoundaryReturns(t) \/ MarkAccepted(t) \/ Read(t)
    BY <2>3, CopyTyped DEF DataTyped, BoundaryReturns, MarkAccepted, Read
  <2>4. CASE Watch(t)
    BY <2>4, FinishTyped, Zenon DEF DataTyped, Watch
  <2> QED BY <1>1, <2>1, <2>2, <2>3, <2>4, Zenon DEF Begin
<1>2. CASE CancelStep(t)
  <2>1. CASE CancelRequest(t)
    BY <2>1, Zenon DEF CancelRequest, DataTyped
  <2>2. CASE CancelEvent(t)
    BY <2>2, CopyTyped, Lifecycle, Zenon DEF CancelEvent, AppendTerminal, DataTyped
  <2>3. CASE CancelDone(t)
    BY <2>3, FinishTyped, Zenon DEF CancelDone, DataTyped
  <2> QED BY <1>2, <2>1, <2>2, <2>3, Zenon DEF CancelStep
<1>3. CASE ReadEnsure(t) \/ ReadDone(t)
  BY <1>3, FinishTyped, Zenon DEF ReadEnsure, ReadDone, DataTyped
<1> QED BY <1>1, <1>2, <1>3, Zenon

\* What the loop makes of a step's outcome keeps the types.
LEMMA OutcomeTyped ==
  ASSUME DataTyped, NEW t \in Starters, step[t] <= NSteps,
         NEW status \in {"completed", "partial", "failed", "blocked", "cancelled"},
         Outcome(t, status)
  PROVE  /\ step' \in [Threads -> 1..(NSteps + 1)]
         /\ out' \in [Threads -> TerminalStates]
         /\ out'[t] \in {out[t], "partial", "failed", "blocked"}
         /\ succeeded' \subseteq succeeded \cup {<<t, step[t]>>}
         /\ status # "completed" => succeeded' = succeeded
<1>1. t \in Threads /\ step[t] \in 1..(NSteps + 1) /\ step[t] + 1 \in 1..(NSteps + 1)
  BY StepAssumption DEF DataTyped, Threads
<1>2. step' \in [Threads -> 1..(NSteps + 1)]
  BY <1>1, Zenon DEF Outcome, DataTyped
<1>3. out' \in [Threads -> TerminalStates] /\ out'[t] \in {out[t], "partial", "failed", "blocked"}
  BY <1>1, Lifecycle, Zenon DEF Outcome, DataTyped
<1>4. /\ succeeded' \subseteq succeeded \cup {<<t, step[t]>>}
      /\ status # "completed" => succeeded' = succeeded
  BY Zenon DEF Outcome
<1> QED BY <1>2, <1>3, <1>4, Zenon

\* The steps of start() keep the types.
LEMMA StartTypes ==
  ASSUME DataTyped, ControlInv, NEW t \in Threads, StartStep(t)
  PROVE  DataTyped'
<1> USE DEF KeepRest, locals, history, files
<1>0. 1 \in 1..(NSteps + 1) /\ "completed" \in TerminalStates
  BY StepAssumption, Lifecycle
<1>1. CASE StartTest(t) \/ StepRead(t)
  <2>1. CASE StartTest(t)
    <3>1. mem' = mem \/ mem' = [mem EXCEPT ![t].status = "running"]
      BY <2>1, Zenon DEF StartTest
    <3>2. "running" \in Statuses
      BY Lifecycle, Zenon
    <3>3. mem' \in [Threads -> Run]
      BY <3>1, <3>2, CopyTyped
    <3>4. /\ out' = out \/ out' = [out EXCEPT ![t] = "blocked"]
          /\ res' = [res EXCEPT ![t] = "none"]
          /\ started' = started \/ started' = TRUE
          /\ UNCHANGED <<runJson, index, result, term, artifact, data, step>>
      BY <2>1, Zenon DEF StartTest
    <3>5. /\ out' \in [Threads -> TerminalStates] /\ res' \in [Threads -> ResultStatuses \cup {"none"}]
          /\ started' \in BOOLEAN
      BY <3>4, Lifecycle, Zenon DEF DataTyped
    <3> QED BY <2>1, <3>3, <3>4, <3>5, Zenon DEF StartTest, DataTyped
  <2>2. CASE StepRead(t)
    <3>1. mem' = mem \/ mem' = [mem EXCEPT ![t].cancel = mem[t].cancel \/ runJson.cancel]
      BY <2>2, Zenon DEF StepRead
    <3>2. mem' \in [Threads -> Run]
      BY <3>1, CopyTyped, ZenonT(30)
    <3> QED BY <2>2, <3>2, Zenon DEF StepRead, DataTyped
  <2> QED BY <1>1, <2>1, <2>2, Zenon
<1>2. CASE StepDecide(t)
  <2>1. step[t] <= NSteps
    BY <1>2, Here, Zenon DEF StepDecide, At, InPlanStep
  <2>2. step[t] + 1 \in 1..(NSteps + 1)
    BY <2>1, StepAssumption, CopyTyped
  <2>3. step' = step \/ step' = [step EXCEPT ![t] = step[t] + 1]
    BY <1>2, Zenon DEF StepDecide
  <2>4. step' \in [Threads -> 1..(NSteps + 1)]
    BY <2>2, <2>3, Zenon DEF DataTyped
  <2>5. out' \in [Threads -> TerminalStates]
    BY <1>2, Lifecycle, Zenon DEF StepDecide, DataTyped
  <2> QED BY <1>2, <2>4, <2>5, Zenon DEF StepDecide, DataTyped
<1>3. CASE Execute(t) \/ ArtifactStart(t) \/ ArtifactDone(t)
  <2>1. t \in Starters /\ step[t] <= NSteps
    BY <1>3, Here, Zenon DEF Execute, ArtifactStart, ArtifactDone, At, InPlanStep, OfStart, Loop
  <2>2. <<t, step[t]>> \in Starters \X (1..NSteps)
    BY <2>1, StepAssumption, CopyTyped
  <2>3. CASE Execute(t)
    BY <2>1, <2>2, <2>3, OutcomeTyped, OutcomeAssumption DEF Execute, DataTyped
  <2>4. CASE ArtifactStart(t)
    <3>1. \/ \E status \in {"blocked", "cancelled"} : Outcome(t, status) /\ UNCHANGED artifact
          \/ artifact' = "open" /\ UNCHANGED <<succeeded, step, out>>
      BY <2>4, Zenon DEF ArtifactStart
    <3> QED BY <2>1, <2>2, <2>4, <3>1, OutcomeTyped, Zenon DEF ArtifactStart, DataTyped
  <2>5. CASE ArtifactDone(t)
    <3>1. \E status \in {"completed", "partial", "failed", "blocked"} : Outcome(t, status)
      BY <2>5, OutcomeAssumption, Zenon DEF ArtifactDone
    <3>2. <<t, step[t]>> \in executed
      BY <2>5, Here, Zenon DEF ArtifactDone, At, InPlanStep
    <3>3. PICK status \in {"completed", "partial", "failed", "blocked", "cancelled"} : Outcome(t, status)
      BY <3>1, Zenon
    <3>4. /\ step' \in [Threads -> 1..(NSteps + 1)] /\ out' \in [Threads -> TerminalStates]
          /\ succeeded' \subseteq succeeded \cup {<<t, step[t]>>}
      BY <2>1, <3>3, OutcomeTyped, Zenon
    <3>5. succeeded' \subseteq executed /\ executed' = executed
      BY <2>5, <3>2, <3>4, Zenon DEF ArtifactDone, DataTyped
    <3> QED BY <2>5, <3>4, <3>5, Zenon DEF ArtifactDone, DataTyped
  <2> QED BY <1>3, <2>3, <2>4, <2>5, Zenon
<1>4. CASE ArtifactCreate(t)
  BY <1>4, Zenon DEF ArtifactCreate, DataTyped
<1>5. CASE FinishRun(t)
  <2>1. \E status \in TerminalStates :
          AppendTerminal(t, status) /\ mem' = [mem EXCEPT ![t].status = status]
    BY <1>5, Lifecycle, Zenon DEF FinishRun, DataTyped
  <2>2. mem' \in [Threads -> Run] /\ term' \in TerminalStates \cup {"none"}
    BY <2>1, CopyTyped, Lifecycle DEF AppendTerminal, DataTyped
  <2> QED BY <1>0, <1>5, <2>2, Zenon DEF FinishRun, DataTyped
<1>6. CASE Finalize(t)
  <2>1. mem[t].status \in ResultStatuses
    BY <1>6, Here, Zenon DEF Finalize, At
  <2> QED BY <1>6, <2>1, Lifecycle DEF Finalize, DataTyped
<1>7. CASE TailReload(t) \/ StartDone(t) \/ WorkerRaises(t)
  <2>1. CASE TailReload(t)
    BY <2>1, RunTyped, Zenon DEF TailReload, DataTyped
  <2>2. CASE StartDone(t)
    BY <2>2, FinishTyped, Zenon DEF StartDone, DataTyped
  <2>3. CASE WorkerRaises(t)
    <3>1. CASE Finish(t, "raised")
      BY <2>3, <3>1, FinishTyped, Zenon DEF WorkerRaises, DataTyped
    <3>2. CASE ~Finish(t, "raised")
      <4>1. /\ mem' = [mem EXCEPT ![t] = NoRun] /\ data' = [data EXCEPT ![t] = NoRun]
            /\ res' = [res EXCEPT ![t] = "none"]
            /\ step' = [step EXCEPT ![t] = 1] /\ out' = [out EXCEPT ![t] = "completed"]
        BY <2>3, <3>2, Zenon DEF WorkerRaises
      <4>2. /\ mem' \in [Threads -> Run] /\ data' \in [Threads -> Run]
            /\ res' \in [Threads -> ResultStatuses \cup {"none"}]
            /\ step' \in [Threads -> 1..(NSteps + 1)] /\ out' \in [Threads -> TerminalStates]
        BY <1>0, <4>1, RunTyped, Zenon DEF DataTyped
      <4> QED BY <2>3, <4>2, Zenon DEF WorkerRaises, DataTyped
    <3> QED BY <3>1, <3>2, Zenon
  <2> QED BY <1>7, <2>1, <2>2, <2>3, Zenon
<1> QED BY <1>1, <1>2, <1>3, <1>4, <1>5, <1>6, <1>7, Zenon DEF StartStep

\* The steps of the guards keep the types.
LEMMA GuardTypes ==
  ASSUME DataTyped, ControlInv, NEW t \in Threads, LockedGuardStep(t) \/ GapStep(t) \/ GuardRaises(t)
  PROVE  DataTyped'
<1> USE DEF KeepRest, locals, history, files
<1>1. CASE BudgetIndex(t) \/ BudgetRun(t) \/ BudgetEnsured(t) \/ BudgetDecide(t) \/ BudgetStalled(t)
  BY <1>1, Zenon DEF BudgetIndex, BudgetRun, BudgetEnsured, BudgetDecide, BudgetStalled, DataTyped
<1>2. CASE BudgetBlock(t)
  <2>1. mem' \in [Threads -> Run]
    BY <1>2, CopyTyped, Lifecycle, Zenon DEF BudgetBlock, DataTyped
  <2> QED BY <1>2, <2>1, Lifecycle, ResultsTyped, Zenon DEF BudgetBlock, DataTyped
<1>3. CASE StallRead(t) \/ StallRun(t)
  <2>1. mem' \in [Threads -> Run]
    <3>1. mem' = mem \/ mem' = [mem EXCEPT ![t] = [runJson EXCEPT !.status = "blocked"]]
      BY <1>3, Zenon DEF StallRead, StallRun
    <3>2. [runJson EXCEPT !.status = "blocked"] \in Run
      BY CopyTyped, Lifecycle, Zenon DEF DataTyped
    <3> QED BY <3>1, <3>2, Zenon DEF DataTyped
  <2> QED BY <1>3, <2>1, Lifecycle, ZenonT(30) DEF StallRead, StallRun, DataTyped
<1>4. CASE GuardEvent(t)
  BY <1>4, Here, Lifecycle, Zenon DEF GuardEvent, AppendTerminal, At, Saves, DataTyped
<1>5. CASE Unlock(t)
  BY <1>5, FinishTyped, Zenon DEF Unlock, DataTyped
<1>6. CASE WatchSeen(t) \/ WatchExit(t) \/ GapDone(t) \/ GuardRaises(t)
  BY <1>6, FinishTyped, Zenon DEF WatchSeen, WatchExit, GapDone, GuardRaises, DataTyped
<1>7. CASE GapRun(t)
  <2>1. \/ (\E label \in {"done", "raised"} : Finish(t, label)) /\ UNCHANGED artifact
        \/ UNCHANGED <<artifact, locals>>
        \/ /\ artifact' \in {"closed", artifact} /\ res' = [res EXCEPT ![t] = "blocked"]
           /\ UNCHANGED <<mem, data, step, out>>
    BY <1>7, Zenon DEF GapRun
  <2> QED BY <1>7, <2>1, FinishTyped, Lifecycle, ZenonT(30) DEF GapRun, DataTyped
<1>8. CASE GapReload(t)
  BY <1>8, CopyTyped, Lifecycle, Zenon DEF GapReload, DataTyped
<1> QED BY <1>1, <1>2, <1>3, <1>4, <1>5, <1>6, <1>7, <1>8, Zenon DEF LockedGuardStep, GapStep

----------------------------------------------------------------------------
(* Control, preserved by each step.                                        *)

\* The control of the threads, of one that has just moved included.
Settled(t) == ControlTyped' /\ Nested(t)' /\ Ready(t)'

\* A thread that goes on with the call it is in.
LEMMA StaysReady ==
  ASSUME TypeOK, ControlInv, NEW t \in Threads, NEW label, NEW calls,
         Arrives(t, label, Home(t), calls),
         step'[t] = step[t], out'[t] = out[t], executed \subseteq executed',
         mem'[t].status \in {mem[t].status} \cup ResultStatuses,
         calls \cap Saves # {} => res'[t] # "none",
         Home(t) = "gap_reload" => label \notin Lookups /\ res'[t] = res[t]
  PROVE  Settled(t)
BY Zenon DEF Settled, Arrives, ControlInv, Ready

\* A thread that goes to another step of its own call, outside the loop.
LEMMA GetsReady ==
  ASSUME NEW t \in Threads, NEW label, NEW home, NEW calls,
         Arrives(t, label, home, calls),
         home \in OfStart => t \in Starters,
         home \notin Loop, home # "finish" => step'[t] = 1,
         home = "finalize" => mem'[t].status \in ResultStatuses,
         out'[t] # "expired",
         calls \cap Saves # {} => res'[t] # "none",
         home = "gap_reload" => label \notin Lookups /\ res'[t] # "none"
  PROVE  Settled(t)
BY Zenon DEF Settled, Arrives, Ready, Loop

\* The steps of the store, and of the guards' own operations.
LEMMA ReadyStore ==
  ASSUME TypeOK, ControlInv, NEW t \in Threads,
         StoreStep(t) \/ GuardEvent(t) \/ StallRead(t) \/ StallRun(t)
  PROVE  Settled(t)
<1> USE DEF KeepRest, locals, history, At
<1>1. ControlTyped /\ Nested(t) /\ Ready(t)
  BY TypeHalves, Zenon DEF ControlInv
<1>2. /\ mem \in [Threads -> Run] /\ res \in [Threads -> ResultStatuses \cup {"none"}]
      /\ step \in [Threads -> 1..(NSteps + 1)] /\ out \in [Threads -> TerminalStates]
      /\ runJson \in Run /\ \A s : [runJson EXCEPT !.status = s].status = s
  BY Zenon DEF TypeOK, Run
<1>3. /\ pc[t] \in Callees => FromStore(t)
      /\ pc[t] \in Lookups => FromLookup(t)
      /\ Tops \cap Saves = {}
      /\ pc[t] \in Lookups => Home(t) # "gap_reload"
  BY <1>1, StoreMoves, LabelsApart, Zenon DEF Callees, Ready
<1>4. CASE UpdateRun(t) \/ UpdateIndex(t) \/ SaveResult(t) \/ CohereRead(t)
  BY <1>1, <1>2, <1>3, <1>4, StaysReady, Zenon
  DEF UpdateRun, UpdateIndex, SaveResult, CohereRead, FromStore, Ready, Callees, Saves, Lookups
<1>5. CASE CohereRun(t) \/ CohereIndex(t) \/ EnsureEvent(t) \/ GuardEvent(t)
  BY <1>1, <1>2, <1>3, <1>5, StaysReady, Zenon
  DEF CohereRun, CohereIndex, EnsureEvent, GuardEvent, FromStore, Ready, Callees, Saves, Lookups
<1>6. CASE GetResult(t) \/ GetIndex(t) \/ EnsureRead(t) \/ StallRead(t)
  BY <1>2, <1>3, <1>6, StaysReady DEF GetResult, GetIndex, EnsureRead, StallRead, FromLookup, Lookups, Saves
<1>7. CASE EnsureRun(t)
  <2>1. \A r \in TerminalResults(runJson.status) : IsTerminal(runJson.status) => r # "none"
    BY ResultsTyped, Lifecycle, Zenon DEF IsTerminal
  <2> QED BY <1>2, <1>3, <1>7, <2>1, StaysReady DEF EnsureRun, FromLookup, Lookups, Saves
<1>8. CASE StallRun(t)
  <2>1. mem'[t].status \in {mem[t].status, "blocked"}
    BY <1>2, <1>8, Zenon DEF StallRun
  <2>2. "blocked" \in ResultStatuses /\ "blocked" # "none"
    BY Lifecycle, Zenon
  <2> QED BY <1>2, <1>3, <1>8, <2>1, <2>2, StaysReady DEF StallRun, FromLookup, Lookups, Saves
<1> QED BY <1>4, <1>5, <1>6, <1>7, <1>8, Zenon DEF StoreStep

\* What a thread may rely on at a step of its own call.
Standing(t) ==
  /\ FromStart(t) /\ FromGuard(t) /\ FromVerdict(t)
  /\ Home(t) = pc[t] /\ Calls(t) = {pc[t]}
  /\ pc[t] \in OfStart => t \in Starters
  /\ pc[t] \in InPlanStep => step[t] <= NSteps
  /\ pc[t] \in InPlanStep \ {"step_decide", "execute"} => <<t, step[t]>> \in executed
  /\ pc[t] \notin Loop \cup {"finish"} => step[t] = 1
  /\ pc[t] = "finalize" => mem[t].status \in ResultStatuses
  /\ pc[t] = "gap_reload" => res[t] # "none"
  /\ out[t] # "expired"

\* At a step of its own call a thread is what the control says it is.
LEMMA Stands ==
  ASSUME TypeOK, ControlInv, NEW t \in Threads, pc[t] \in Tops
  PROVE  Standing(t)
<1>1. ControlTyped /\ Nested(t) /\ Ready(t)
  BY TypeHalves, Zenon DEF ControlInv
<1>2. /\ FromStart(t) /\ FromGuard(t) /\ FromVerdict(t)
      /\ Home(t) = pc[t] /\ Calls(t) = {pc[t]}
  BY <1>1, Moves, AtHome, Zenon
<1> QED BY <1>1, <1>2, Zenon DEF Standing, Ready

\* The end of a call, wherever it comes.
LEMMA EndsReady ==
  ASSUME TypeOK, NEW t \in Threads, NEW label \in {"idle", "done", "raised"}, Finish(t, label)
  PROVE  Settled(t)
<1>1. Arrives(t, label, label, {label})
  BY TypeHalves, Ends, Zenon DEF Arrives, Tops
<1>2. step'[t] = 1 /\ out'[t] = "completed" /\ res'[t] = "none"
  BY Zenon DEF TypeOK, Finish
<1>3. /\ label \notin Loop /\ label # "finish" /\ label # "finalize"
      /\ {label} \cap Saves = {} /\ label # "gap_reload" /\ label \notin OfStart
  BY Zenon DEF OfStart, Loop, InPlanStep, Saves
<1> QED BY <1>1, <1>2, <1>3, GetsReady, Zenon

\* A quiet move.
LEMMA QuietReady ==
  ASSUME NEW t \in Threads, Standing(t), QuietMove(t),
         pc[t] \notin Loop \cup {"finish"}, step' = step, out' = out
  PROVE  Settled(t)
<1>1. Outside(t) /\ step[t] = 1 /\ out[t] # "expired"
  BY QuietMoves, Zenon DEF Standing
<1> QED BY <1>1, Zenon DEF Outside, Settled, Ready, OfStart, Loop

\* The first steps of the calls, and the steps of cancel() and of the readers.
LEMMA ReadyCalls ==
  ASSUME TypeOK, ControlInv, NEW t \in Threads,
         Begin(t) \/ CancelStep(t) \/ ReadEnsure(t) \/ ReadDone(t)
  PROVE  Settled(t)
<1> USE DEF KeepRest, locals, history, At
<1>1. Standing(t) /\ pc[t] \notin Loop \cup {"finish"}
  BY Stands, Zenon DEF Begin, Start, Cancel, Budget, Lock, Stall, Watch, BoundaryReturns, MarkAccepted, Read,
                CancelStep, CancelRequest, CancelEvent, CancelDone, ReadEnsure, ReadDone,
                Tops, Loop, InPlanStep
<1>2. CASE t \in Starters /\ Start(t)
  <2>1. Arrives(t, "get_result", "start_test", {"get_result", "start_test"})
    BY <1>1, <1>2, Zenon DEF Start, Standing, FromStart
  <2>2. step'[t] = 1 /\ out'[t] # "expired"
    BY <1>1, <1>2, Zenon DEF Start, Standing
  <2> QED BY <1>2, <2>1, <2>2, GetsReady, Zenon DEF Loop, InPlanStep, Saves
<1>3. CASE Cancel(t) \/ CancelStep(t) \/ ReadEnsure(t) \/ ReadDone(t)
  <2>1. Finish(t, "idle") \/ (QuietMove(t) /\ step' = step /\ out' = out)
    BY <1>3, Zenon DEF Cancel, CancelStep, CancelRequest, CancelEvent, CancelDone, ReadEnsure, ReadDone, QuietMove
  <2> QED BY <1>1, <2>1, QuietReady, EndsReady, Zenon
<1>4. CASE Budget(t) \/ Stall(t) \/ Watch(t) \/ BoundaryReturns(t) \/ MarkAccepted(t) \/ Read(t)
  <2>1. Finish(t, "raised") \/ (QuietMove(t) /\ step' = step /\ out' = out)
    BY <1>4, Zenon DEF Budget, Stall, Lock, Watch, BoundaryReturns, MarkAccepted, Read, QuietMove
  <2> QED BY <1>1, <2>1, QuietReady, EndsReady, Zenon
<1> QED BY <1>2, <1>3, <1>4, Zenon DEF Begin

\* The steps of start() and of the loop.
LEMMA ReadyStart ==
  ASSUME TypeOK, ControlInv, NEW t \in Threads, StartStep(t)
  PROVE  Settled(t)
<1> USE DEF KeepRest, locals, history, At
<1>1. ~WorkerRaises(t) => Standing(t) /\ pc[t] \in OfStart
  BY Stands, Zenon DEF StartStep, StartTest, StepRead, StepDecide, Execute, ArtifactStart, ArtifactCreate,
                ArtifactDone, FinishRun, Finalize, TailReload, StartDone, Tops, OfStart, Loop, InPlanStep
<1>2. /\ mem \in [Threads -> Run] /\ step \in [Threads -> 1..(NSteps + 1)]
      /\ out \in [Threads -> TerminalStates] /\ res \in [Threads -> ResultStatuses \cup {"none"}]
  BY Zenon DEF TypeOK
<1>3. CASE WorkerRaises(t)
  <2>1. CASE InGap(t)
    BY <1>3, <2>1, EndsReady, Zenon DEF WorkerRaises
  <2>2. CASE ~InGap(t)
    <3>1. <<"gap_raised">> \in Seq(Labels) /\ "get_result" \in Labels
      BY DEF Labels, Callees, Lookups, Tops
    <3>2. ControlTyped' /\ pc'[t] = "get_result" /\ stack'[t] = <<"gap_raised">> /\ Elsewhere(t)
      BY <1>3, <2>2, <3>1, TypeHalves, Zenon DEF WorkerRaises, ControlTyped, Elsewhere
    <3>3. Home(t)' = "gap_raised" /\ BehindOf(stack'[t]) = {"gap_raised"} /\ Nested(t)'
      BY <3>2, Places DEF Home, Nested, NestedOf, Callees, Lookups, Tops
    <3>4. Arrives(t, "get_result", "gap_raised", {"get_result", "gap_raised"})
      BY <3>2, <3>3, Zenon DEF Arrives, Calls, BehindOf
    <3>5. step'[t] = 1 /\ out'[t] = "completed"
      BY <1>2, <1>3, <2>2, Zenon DEF WorkerRaises
    <3> QED BY <3>4, <3>5, GetsReady, Zenon DEF OfStart, Loop, InPlanStep, Saves
  <2> QED BY <2>1, <2>2, Zenon
<1> SUFFICES ASSUME ~WorkerRaises(t) PROVE Settled(t)
  BY <1>3, Zenon
<1>4. Standing(t) /\ t \in Starters
  BY <1>1, Zenon DEF Standing
<1>5. CASE StartTest(t)
  <2>1. /\ pc[t] = "start_test" /\ out'[t] # "expired" /\ step'[t] = step[t]
        /\ \/ Then(t, <<"update_run", "tail_reload">>) \/ Goto(t, "finish") \/ Then(t, <<"update_run", "step">>)
    BY <1>2, <1>4, <1>5, Zenon DEF StartTest, Standing
  <2> QED BY <1>2, <1>4, <2>1, Zenon DEF Standing, FromStart, Settled, Arrives, Ready, Saves, Loop, InPlanStep
<1>6. CASE StepRead(t)
  <2>1. /\ out'[t] # "expired" /\ step'[t] = step[t]
        /\ Goto(t, "finish") \/ (Goto(t, "step_decide") /\ ~(step[t] > NSteps))
    BY <1>2, <1>4, <1>6, Zenon DEF StepRead, Standing
  <2> QED BY <1>2, <1>4, <2>1, StepAssumption DEF Standing, FromStart, Settled, Arrives, Ready, Saves, Loop, InPlanStep
<1>7. CASE StepDecide(t)
  <2>1. /\ out'[t] # "expired" /\ step[t] <= NSteps
        /\ \/ Goto(t, "finish") \/ Then(t, <<"update_run", "step">>) \/ Then(t, <<"update_run", "finish">>)
           \/ Then(t, <<"update_run", "update_run", "execute">>) /\ step' = step
    BY <1>2, <1>4, <1>7, Zenon DEF StepDecide, Standing, InPlanStep
  <2> QED BY <1>4, <2>1, Zenon DEF Standing, FromStart, Settled, Arrives, Ready, Saves, Loop, InPlanStep
<1>8. CASE Execute(t) \/ ArtifactStart(t) \/ ArtifactDone(t)
  <2>1. /\ t \in Starters /\ step[t] <= NSteps /\ out[t] # "expired"
        /\ pc[t] \notin {"step_decide", "execute"} => <<t, step[t]>> \in executed
    BY <1>4, <1>8, Zenon DEF Execute, ArtifactStart, ArtifactDone, Standing, InPlanStep
  <2>2. ASSUME NEW status \in {"completed", "partial", "failed", "blocked", "cancelled"}, Outcome(t, status)
        PROVE  Settled(t)
    <3>1. out'[t] # "expired"
      BY <2>1, <2>2, OutcomeTyped, TypeHalves, Zenon
    <3>2. \E h \in {"step", "finish"} : Then(t, <<"update_run", h>>)
      BY <2>2, Zenon DEF Outcome
    <3> QED BY <1>4, <2>1, <3>1, <3>2, Zenon DEF Standing, FromStart, Settled, Arrives, Ready, Saves, Loop, InPlanStep
  <2>3. \/ \E status \in {"completed", "partial", "failed", "blocked", "cancelled"} : Outcome(t, status)
        \/ /\ Goto(t, "artifact_start") \/ Goto(t, "artifact_create")
           /\ step' = step /\ out' = out /\ <<t, step[t]>> \in executed'
    BY <1>8, <2>1, OutcomeAssumption, Zenon DEF Execute, ArtifactStart, ArtifactDone
  <2>4. ASSUME NEW h \in {"artifact_start", "artifact_create"}, Goto(t, h),
               step' = step, out' = out, <<t, step[t]>> \in executed'
        PROVE  Settled(t)
    <3>1. Arrives(t, h, h, {h})
      BY <1>4, <2>4, Zenon DEF Standing, FromStart
    <3> QED BY <2>1, <2>4, <3>1, Zenon DEF Settled, Arrives, Ready, Loop, InPlanStep, Saves
  <2> QED BY <2>2, <2>3, <2>4, Zenon
<1>9. CASE ArtifactCreate(t)
  <2>1. /\ step' = step /\ out' = out /\ executed' = executed /\ out[t] # "expired"
        /\ step[t] <= NSteps /\ <<t, step[t]>> \in executed
        /\ \E h \in {"artifact_done", "artifact_rejected"} : Then(t, <<"update_run", h>>)
    BY <1>4, <1>9, Zenon DEF ArtifactCreate, Standing, InPlanStep
  <2> QED BY <1>4, <2>1, Zenon DEF Standing, FromStart, Settled, Arrives, Ready, Saves, Loop, InPlanStep
<1>10. CASE FinishRun(t)
  <2>1. mem'[t].status \in ResultStatuses /\ step'[t] = 1 /\ out'[t] = "completed"
    BY <1>2, <1>4, <1>10, Lifecycle DEF FinishRun, Standing, Run
  <2>2. Arrives(t, "update_run", "finalize", {"update_run", "finalize"})
    BY <1>4, <1>10, Zenon DEF FinishRun, Standing, FromStart
  <2> QED BY <1>4, <2>1, <2>2, GetsReady, Zenon DEF Loop, InPlanStep, Saves
<1>11. CASE Finalize(t)
  <2>1. res'[t] # "none" /\ step'[t] = 1 /\ out'[t] # "expired"
    BY <1>2, <1>4, <1>11, Lifecycle, Zenon DEF Finalize, Standing, Loop, InPlanStep
  <2>2. Arrives(t, "update_run", "tail_reload", {"update_run", "save_result", "tail_reload"})
    BY <1>4, <1>11, Zenon DEF Finalize, Standing, FromStart
  <2> QED BY <1>4, <2>1, <2>2, GetsReady, Zenon DEF Loop, InPlanStep
<1>12. CASE TailReload(t)
  <2>1. \E a \in {"update_run", "start_done"} : Arrives(t, a, "start_done", {a, "start_done"})
    BY <1>4, <1>12, Zenon DEF TailReload, Standing, FromStart
  <2>2. step'[t] = 1 /\ out'[t] # "expired"
    BY <1>4, <1>12, Zenon DEF TailReload, Standing, Loop, InPlanStep
  <2> QED BY <1>4, <2>1, <2>2, GetsReady, Zenon DEF Loop, InPlanStep, Saves
<1>13. CASE StartDone(t)
  <2>1. Finish(t, "done") \/ (QuietMove(t) /\ step' = step /\ out' = out)
    BY <1>13, Zenon DEF StartDone, QuietMove
  <2>2. pc[t] \notin Loop \cup {"finish"}
    BY <1>13, Zenon DEF StartDone, Loop, InPlanStep
  <2> QED BY <1>4, <2>1, <2>2, QuietReady, EndsReady, Zenon
<1> QED BY <1>5, <1>6, <1>7, <1>8, <1>9, <1>10, <1>11, <1>12, <1>13, Zenon DEF StartStep

\* The steps of the guards.
LEMMA ReadyGuards ==
  ASSUME TypeOK, ControlInv, NEW t \in Threads, LockedGuardStep(t) \/ GapStep(t),
         ~(GuardEvent(t) \/ StallRead(t) \/ StallRun(t))
  PROVE  Settled(t)
<1> USE DEF KeepRest, locals, history, At
<1>1. Standing(t) /\ pc[t] \notin Loop \cup {"finish"}
  BY Stands, Zenon DEF LockedGuardStep, GapStep, BudgetIndex, BudgetRun, BudgetEnsured, BudgetDecide, BudgetStalled,
                BudgetBlock, Unlock, WatchSeen, WatchExit, GapRun, GapReload, GapDone, Tops, Loop, InPlanStep
<1>2. res \in [Threads -> ResultStatuses \cup {"none"}] /\ step[t] = 1 /\ out[t] # "expired"
  BY <1>1, Zenon DEF TypeOK, Standing
<1>3. CASE BudgetIndex(t) \/ BudgetRun(t) \/ BudgetEnsured(t) \/ BudgetDecide(t) \/ BudgetStalled(t)
  <2>1. QuietMove(t) /\ step' = step /\ out' = out
    BY <1>3, Zenon DEF BudgetIndex, BudgetRun, BudgetEnsured, BudgetDecide, BudgetStalled, QuietMove
  <2> QED BY <1>1, <2>1, QuietReady, Zenon
<1>4. CASE BudgetBlock(t)
  <2>1. res'[t] # "none" /\ step' = step /\ out' = out
    BY <1>2, <1>4, ResultsTyped, Lifecycle, Zenon DEF BudgetBlock
  <2>2. Arrives(t, "update_run", "unlock", {"update_run", "save_result", "guard_event", "unlock"})
    BY <1>1, <1>4, Zenon DEF BudgetBlock, Standing, FromVerdict
  <2> QED BY <1>2, <2>1, <2>2, GetsReady, Zenon DEF OfStart, Loop, InPlanStep
<1>5. CASE Unlock(t) \/ GapDone(t)
  BY <1>5, EndsReady, Zenon DEF Unlock, GapDone
<1>6. CASE WatchSeen(t) \/ WatchExit(t)
  <2>1. Finish(t, "done") \/ (QuietMove(t) /\ step' = step /\ out' = out)
    BY <1>6, Zenon DEF WatchSeen, WatchExit, QuietMove
  <2> QED BY <1>1, <2>1, QuietReady, EndsReady, Zenon
<1>7. CASE GapRun(t)
  <2>1. \/ \E label \in {"done", "raised"} : Finish(t, label)
        \/ QuietMove(t) /\ step' = step /\ out' = out
        \/ Then(t, <<"save_result", "gap_reload">>) /\ step' = step /\ out' = out /\ res'[t] = "blocked"
    BY <1>2, <1>7, Zenon DEF GapRun, QuietMove
  <2>2. ASSUME Then(t, <<"save_result", "gap_reload">>), step' = step, out' = out, res'[t] = "blocked"
        PROVE  Settled(t)
    <3>1. Arrives(t, "save_result", "gap_reload", {"save_result", "gap_reload"})
      BY <1>1, <2>2, Zenon DEF Standing, FromVerdict
    <3> QED BY <1>2, <2>2, <3>1, GetsReady, Zenon DEF OfStart, Loop, InPlanStep, Lookups
  <2> QED BY <1>1, <2>1, <2>2, QuietReady, EndsReady, Zenon
<1>8. CASE GapReload(t)
  <2>1. res'[t] # "none" /\ step' = step /\ out' = out
    BY <1>1, <1>8, Zenon DEF GapReload, Standing
  <2>2. Arrives(t, "update_run", "gap_done", {"update_run", "guard_event", "gap_done"})
    BY <1>1, <1>8, Zenon DEF GapReload, Standing, FromVerdict
  <2> QED BY <1>2, <2>1, <2>2, GetsReady, Zenon DEF OfStart, Loop, InPlanStep
<1> QED BY <1>3, <1>4, <1>5, <1>6, <1>7, <1>8, Zenon DEF LockedGuardStep, GapStep

----------------------------------------------------------------------------
(* The type invariant.                                                     *)

\* What was executed, or succeeded, stays so.
LEMMA HistoryGrows ==
  ASSUME [Next]_vars
  PROVE  executed \subseteq executed' /\ succeeded \subseteq succeeded'
<1> USE DEF KeepRest, history
<1>1. CASE UNCHANGED vars \/ Tick \/ Crash
  BY <1>1, Zenon DEF vars, Tick, Crash
<1>2. ASSUME NEW t \in Threads, Begin(t) \/ Continue(t)
      PROVE  executed \subseteq executed' /\ succeeded \subseteq succeeded'
  <2>1. CASE Begin(t)
    BY <2>1, Zenon DEF Begin, Start, Cancel, Budget, Stall, Lock, Watch, BoundaryReturns, MarkAccepted, Read
  <2>2. CASE StoreStep(t) \/ CancelStep(t) \/ ReadEnsure(t) \/ ReadDone(t)
    BY <2>2, Zenon DEF StoreStep, UpdateRun, UpdateIndex, SaveResult, CohereRead, CohereRun, CohereIndex,
                GetResult, GetIndex, EnsureRead, EnsureRun, EnsureEvent,
                CancelStep, CancelRequest, CancelEvent, CancelDone, ReadEnsure, ReadDone
  <2>3. CASE StartStep(t)
    BY <2>3, Zenon DEF StartStep, StartTest, StepRead, StepDecide, Execute, ArtifactStart, ArtifactCreate,
                ArtifactDone, Outcome, FinishRun, Finalize, TailReload, StartDone, WorkerRaises
  <2>4. CASE LockedGuardStep(t) \/ GapStep(t) \/ GuardRaises(t)
    BY <2>4, Zenon DEF LockedGuardStep, GapStep, BudgetIndex, BudgetRun, BudgetEnsured, BudgetDecide,
                BudgetStalled, BudgetBlock, StallRead, StallRun, GuardEvent, Unlock,
                WatchSeen, WatchExit, GapRun, GapReload, GapDone, GuardRaises
  <2> QED BY <1>2, <2>1, <2>2, <2>3, <2>4, Zenon DEF Continue
<1> QED BY <1>1, <1>2, Zenon DEF Next

\* A thread that does not move relies on what it relied on.
LEMMA StillReady ==
  ASSUME ControlInv, NEW u \in Threads, Same(u), executed \subseteq executed'
  PROVE  Nested(u)' /\ Ready(u)' /\ Home(u)' = Home(u) /\ Calls(u)' = Calls(u)
<1>1. Home(u)' = Home(u) /\ Calls(u)' = Calls(u) /\ Nested(u)'
  BY Zenon DEF Same, Home, Calls, ControlInv, Nested
<1> QED BY <1>1, Zenon DEF Same, ControlInv, Ready

\* A step of a thread keeps the types and the control.
LEMMA ThreadStep ==
  ASSUME TypeOK, ControlInv, NEW t \in Threads, Begin(t) \/ Continue(t)
  PROVE  TypeOK' /\ ControlInv'
<1>1. Settled(t)
  BY ReadyStore, ReadyCalls, ReadyStart, ReadyGuards, EndsReady, Zenon DEF Continue, LockedGuardStep, GuardRaises
<1>2. DataTyped'
  BY TypeHalves, StoreTypes, CallTypes, StartTypes, GuardTypes, Zenon DEF Continue
<1>3. TypeOK'
  BY <1>1, <1>2, Zenon DEF TypeOK, DataTyped, ControlTyped, Settled
<1>4. ASSUME NEW u \in Threads
      PROVE  Nested(u)' /\ Ready(u)'
  <2>1. CASE u = t
    BY <1>1, <2>1, Zenon DEF Settled
  <2>2. CASE u # t
    BY <2>2, OthersStay, StillReady, HistoryGrows, Zenon DEF Next
  <2> QED BY <2>1, <2>2, Zenon
<1> QED BY <1>3, <1>4, Zenon DEF ControlInv

\* A restart, or the end of the runtime budget, keeps the types and the control.
LEMMA ProcessStep ==
  ASSUME TypeOK, ControlInv, Tick \/ Crash
  PROVE  TypeOK' /\ ControlInv'
<1>1. CASE Tick
  <2>1. TypeOK'
    BY <1>1, Zenon DEF TypeOK, Tick, files, locals, history
  <2>2. UNCHANGED <<pc, stack, mem, res, step, out, executed>>
    BY <1>1, Zenon DEF Tick, locals, history
  <2> QED BY <2>1, <2>2, Zenon DEF ControlInv, Nested, Ready, Home, Calls
<1>2. CASE Crash
  <2>1. TypeOK'
    <3>1. /\ pc' \in [Threads -> Labels] /\ stack' \in [Threads -> Seq(Labels)]
      BY <1>2 DEF Crash, TypeOK, Labels, Tops
    <3>2. "completed" \in TerminalStates /\ 1 \in 1..(NSteps + 1) /\ NoRun \in Run /\ "none" \notin ResultStatuses
      BY Lifecycle, RunTyped, StepAssumption
    <3> QED BY <1>2, <3>1, <3>2, BoundAssumption DEF TypeOK, Crash, files
  <2>2. ASSUME NEW u \in Threads
        PROVE  Nested(u)' /\ Ready(u)'
    <3>1. /\ pc'[u] \in {"idle", "done", "raised", "returned"} /\ stack'[u] = <<>>
          /\ step'[u] = 1 /\ out'[u] = "completed"
      BY <1>2, Zenon DEF Crash
    <3>2. Nested(u)' /\ Home(u)' = pc'[u] /\ BehindOf(stack'[u]) = {}
      BY <3>1, Places, Zenon DEF Nested, NestedOf, Home, Tops
    <3>3. Calls(u)' = {pc'[u]}
      BY <3>2, Zenon DEF Calls, BehindOf
    <3> QED BY <3>1, <3>2, <3>3, Zenon DEF Ready, OfStart, Loop, InPlanStep, Saves
  <2> QED BY <2>1, <2>2, Zenon DEF ControlInv
<1> QED BY <1>1, <1>2, Zenon

\* Every step keeps the types and the control.
LEMMA ControlStep ==
  ASSUME TypeOK, ControlInv, [Next]_vars
  PROVE  TypeOK' /\ ControlInv'
<1>1. CASE UNCHANGED vars
  <2>1. TypeOK'
    BY <1>1, Zenon DEF TypeOK, vars, files, locals, history
  <2>2. UNCHANGED <<pc, stack, mem, res, step, out, executed>>
    BY <1>1, Zenon DEF vars, locals, history
  <2> QED BY <2>1, <2>2, Zenon DEF ControlInv, Nested, Ready, Home, Calls
<1> QED BY <1>1, ThreadStep, ProcessStep, Zenon DEF Next

\* The initial states have the types and the control.
LEMMA ControlInit ==
  ASSUME Init
  PROVE  TypeOK /\ ControlInv
<1>1. TypeOK
  <2>1. "completed" \in TerminalStates /\ 1 \in 1..(NSteps + 1) /\ NoRun \in Run
    BY Lifecycle, RunTyped, StepAssumption
  <2>2. "idle" \in Labels /\ <<>> \in Seq(Labels)
    BY DEF Labels, Tops
  <2>3. runJson \in Run /\ index \in Statuses
    BY StatusAssumption DEF Init, Run
  <2>4. /\ pc \in [Threads -> Labels] /\ stack \in [Threads -> Seq(Labels)]
        /\ mem \in [Threads -> Run] /\ data \in [Threads -> Run]
        /\ res \in [Threads -> ResultStatuses \cup {"none"}]
        /\ step \in [Threads -> 1..(NSteps + 1)] /\ out \in [Threads -> TerminalStates]
    BY <2>1, <2>2, Zenon DEF Init
  <2>5. /\ result = "none" /\ term = "none" /\ started = FALSE /\ artifact = "none"
        /\ lock = NoThread /\ overBudget = FALSE /\ cancelAcked = FALSE
        /\ executed = {} /\ succeeded = {} /\ cancels = 0 /\ crashes = 0
    BY Zenon DEF Init
  <2>6. cancels \in 0..MaxCancels /\ crashes \in 0..MaxCrashes
    BY <2>5, BoundAssumption
  <2> QED BY <2>3, <2>4, <2>5, <2>6, Zenon DEF TypeOK
<1>2. ASSUME NEW u \in Threads
      PROVE  Nested(u) /\ Ready(u)
  <2>1. pc[u] = "idle" /\ stack[u] = <<>> /\ step[u] = 1 /\ out[u] = "completed"
    BY Zenon DEF Init
  <2>2. Nested(u)
    BY <2>1, Zenon DEF Nested, NestedOf, Tops
  <2>3. Home(u) = "idle" /\ Calls(u) = {"idle"}
    BY <2>1, <2>2, AtHome, Zenon DEF Tops
  <2> QED BY <2>1, <2>2, <2>3, Zenon DEF Ready, OfStart, Loop, InPlanStep, Saves
<1> QED BY <1>1, <1>2, Zenon DEF ControlInv

\* Every variable keeps its type, whatever the threads, the plan, the restarts
\* and the exceptions of a worker: a thread always knows where to return to,
\* never runs past the plan, and saves no result and appends no event outside
\* the lifecycle.
THEOREM TypeCorrect == Spec => []TypeOK
<1>1. Init => TypeOK /\ ControlInv
  BY ControlInit, Zenon
<1>2. (TypeOK /\ ControlInv) /\ [Next]_vars => (TypeOK /\ ControlInv)'
  BY ControlStep, Zenon
<1> QED BY <1>1, <1>2, PTL DEF Spec
=============================================================================
