-------------------------- MODULE TaskQueueProofs --------------------------
(* Type correctness of TaskQueue, and that its pending limit holds at each *)
(* snapshot, for any runs, threads and limits.  Both rest on the control:  *)
(* where a thread is in its call, what it has to return to, and that the   *)
(* lock of reconcile() is held all through it (ControlInv).                *)
EXTENDS TaskQueue, SequenceTheorems, FiniteSetTheorems, WellFoundedInduction, TLAPS

\* Where a call comes back to in the end.
Ends == {"idle", "decide", "process_done"}

\* The steps of reconcile() in its own body.
InBody == (Reconciling \ {"drain"}) \cup {"reconcile"}

\* What a thread has to return to, and all the steps ahead of it.
BehindOf(s) == {s[i] : i \in DOMAIN s}
Behind(t) == BehindOf(stack[t])
Ahead(t) == {pc[t]} \cup Behind(t)

\* A thread is in a call that it began itself, or in one of the operations
\* that such a call makes, and will return to it.
NestedOf(p, s) ==
  \/ s = <<>> /\ p \in Ends
  \/ \E b \in Ends :
       \/ s = <<b>> /\ p \in InBody \cup Starting
       \/ s = <<"reconcile", b>> /\ p \in Starting \cup Cancelling \cup {"create_write"}
       \/ s = <<"approvals", b>> /\ p \in Cancelling
       \/ \E a \in {"overflow", "snapshot"} :
            \/ s = <<a, b>> /\ p = "drain"
            \/ s = <<"drain", a, b>> /\ p \in Cancelling

Nested(t) == NestedOf(pc[t], stack[t])

\* What the steps ahead of a thread rely on: it works on a run, has a copy of
\* every run whose approval it is to read, writes no copy that is pending
\* unless it creates or reconciles, and holds the lock all through reconcile().
Ready(t) ==
  /\ pc[t] \in Cancelling \cup Starting \cup {"write_copy", "create_write"} => cur[t] \in Runs
  /\ Ahead(t) \cap {"approvals", "write_copy"} # {} => todo[t] \subseteq DOMAIN list[t]
  /\ pc[t] \in {"cancel_write", "begin", "finish", "save_result", "start_return"}
       => mem[t].status \notin Pending
  /\ Ahead(t) \cap Reconciling # {} => recLock = t

\* The control of every thread.
ControlInv == \A t \in Threads : Nested(t) /\ Ready(t)

\* The runs that reconcile() has picked and not yet ended.
Doomed(t) == todo[t] \cup IF pc[t] \in {"cancel", "cancel_write"} THEN {cur[t]} ELSE {}

\* The pending runs that a reconcile() leaves in the queue.
Left(t) == {r \in DOMAIN list[t] \ Creating : run[r].status \in Pending} \ Doomed(t)

\* From the moment that reconcile() has picked the overflow, the runs it does
\* not cancel are within the limit; at the snapshot it has cancelled the rest.
Limited(t) == "snapshot" \in Ahead(t) => Cardinality(Left(t)) <= MaxPending
LimitInv == \A t \in Threads : Limited(t) /\ (pc[t] = "snapshot" => todo[t] = {})

----------------------------------------------------------------------------
(* Runs, in the order of their created_at.                                 *)

\* Some runs have an oldest one.
LEMMA Oldest ==
  ASSUME NEW S \in SUBSET Runs, S # {}
  PROVE  Min(S) \in S /\ \A r \in S : Min(S) <= r
<1>1. S \subseteq Nat
  BY BoundAssumption DEF Runs
<1>2. \E x \in S : \A y \in S : <<y, x>> \notin OpToRel(<, Nat)
  BY <1>1, NatLessThanWellFounded, WFMin, Zenon
<1>3. \A x, y \in Nat : <<y, x>> \notin OpToRel(<, Nat) => x <= y
  BY DEF OpToRel
<1>4. \E x \in S : \A y \in S : x <= y
  BY <1>1, <1>2, <1>3, Zenon
<1> QED BY <1>4, Zenon DEF Min

\* Some runs have a newest one: it is the oldest when they are counted from
\* the end.
LEMMA Youngest ==
  ASSUME NEW S \in SUBSET Runs, S # {}
  PROVE  Max(S) \in S
<1> DEFINE back == {NRuns + 1 - r : r \in S}
<1>1. back \in SUBSET Runs /\ back # {}
  <2>1. \A r \in Runs : NRuns + 1 - r \in Runs
    BY BoundAssumption DEF Runs
  <2> QED BY <2>1, Zenon
<1>2. PICK x \in back : \A y \in back : x <= y
  BY <1>1, Oldest, Zenon
<1>3. PICK m \in S : x = NRuns + 1 - m
  BY <1>2, Zenon
<1>4. \A r \in S : m >= r
  <2> TAKE r \in S
  <2>1. NRuns + 1 - m <= NRuns + 1 - r
    BY <1>2, <1>3, Zenon
  <2> QED BY <2>1, BoundAssumption DEF Runs
<1> QED BY <1>4, Zenon DEF Max

\* Of some runs, the n newest are at most n: the oldest of them has fewer than
\* n after it.
LEMMA NewestFew ==
  ASSUME NEW S \in SUBSET Runs, NEW n \in Nat
  PROVE  Newest(S, n) \subseteq S /\ Cardinality(Newest(S, n)) <= n
<1> DEFINE K == Newest(S, n)
<1>1. K \subseteq S
  BY Zenon DEF Newest
<1>2. IsFiniteSet(S) /\ IsFiniteSet(K)
  <2>1. IsFiniteSet(Runs)
    BY BoundAssumption, FS_Interval DEF Runs
  <2> QED BY <1>1, <2>1, FS_Subset, Zenon
<1>3. CASE K = {}
  BY <1>1, <1>3, FS_EmptySet
<1>4. CASE K # {}
  <2> DEFINE m == Min(K)
  <2>1. m \in K /\ \A r \in K : m <= r
    BY <1>1, <1>4, Oldest, Zenon
  <2> DEFINE after == {s \in S : s > m}
  <2>2. Cardinality(after) < n
    BY <2>1, Zenon DEF Newest
  <2> HIDE DEF m, K
  <2>3. K \ {m} \subseteq after
    BY <1>1, <2>1, BoundAssumption DEF Runs
  <2>4. IsFiniteSet(after)
    BY <1>2, FS_Subset, Zenon
  <2> HIDE DEF after
  <2>5. Cardinality(K \ {m}) <= Cardinality(after) /\ Cardinality(K \ {m}) = Cardinality(K) - 1
    BY <1>2, <2>1, <2>3, <2>4, FS_Subset, FS_RemoveElement
  <2>6. Cardinality(K) \in Nat /\ Cardinality(after) \in Nat
    BY <1>2, <2>4, FS_CardinalityType, Zenon
  <2>7. Cardinality(K) <= n
    BY <2>2, <2>5, <2>6
  <2> QED BY <1>1, <2>7, Zenon DEF K
<1> QED BY <1>3, <1>4, Zenon

----------------------------------------------------------------------------
(* Control.                                                                *)

\* The types of the control.
ControlTyped == pc \in [Threads -> Labels] /\ stack \in [Threads -> Seq(Labels)]

\* Another thread is where it was.
Elsewhere(t) == \A u \in Threads \ {t} : pc'[u] = pc[u] /\ stack'[u] = stack[u]

\* The thread goes to a label, with these steps behind it; the others stay.
Arrives(t, label, behind) ==
  /\ ControlTyped' /\ Elsewhere(t) /\ Nested(t)'
  /\ pc'[t] = label /\ Behind(t)' = behind

\* The kinds of steps are apart.
LEMMA LabelsApart ==
  /\ Ends \cup InBody \cup Starting \cup Cancelling \cup Reconciling \cup {"create_write"} \subseteq Labels
  /\ Ends \cap (InBody \cup Starting \cup Cancelling \cup Reconciling \cup {"create_write", "drain"}) = {}
  /\ InBody \cap (Starting \cup Cancelling \cup {"create_write", "drain"}) = {}
  /\ Starting \cap (Cancelling \cup Reconciling \cup {"create_write", "drain"}) = {}
  /\ Cancelling \cap (Reconciling \cup {"create_write", "drain"}) = {}
BY Zenon DEF Labels, Ends, InBody, Starting, Cancelling, Reconciling

\* The stacks that the calls make.
LEMMA Stacks ==
  ASSUME NEW a \in Labels, NEW b \in Labels, NEW c \in Labels
  PROVE  /\ <<a>> \o <<b>> = <<a, b>>
         /\ <<a>> \o <<b, c>> = <<a, b, c>>
         /\ <<a>> # <<>> /\ <<a, b>> # <<>> /\ <<a, b, c>> # <<>>
<1>1. /\ <<a>> \in Seq(Labels) /\ <<b>> \in Seq(Labels)
      /\ <<a, b>> \in Seq(Labels) /\ <<b, c>> \in Seq(Labels) /\ <<a, b, c>> \in Seq(Labels)
  OBVIOUS
<1>2. <<a>> \o <<b>> = <<a, b>>
  <2> DEFINE s == <<a>> \o <<b>>
  <2> DEFINE u == <<a, b>>
  <2>1. s \in Seq(Labels) /\ Len(s) = 2 /\ s[1] = a /\ s[2] = b
    BY <1>1, ConcatProperties
  <2>2. u \in Seq(Labels) /\ Len(u) = 2 /\ u[1] = a /\ u[2] = b
    BY <1>1, Zenon
  <2> HIDE DEF s, u
  <2>3. Len(s) = Len(u) /\ \A i \in 1 .. Len(s) : s[i] = u[i]
    BY <2>1, <2>2
  <2>4. s = u
    BY <2>1, <2>2, <2>3, SeqEqual, Zenon
  <2> QED BY <2>4, Zenon DEF s, u
<1>3. <<a>> \o <<b, c>> = <<a, b, c>>
  <2> DEFINE s == <<a>> \o <<b, c>>
  <2> DEFINE u == <<a, b, c>>
  <2>1. s \in Seq(Labels) /\ Len(s) = 3 /\ s[1] = a /\ s[2] = b /\ s[3] = c
    BY <1>1, ConcatProperties
  <2>2. u \in Seq(Labels) /\ Len(u) = 3 /\ u[1] = a /\ u[2] = b /\ u[3] = c
    BY <1>1, Zenon
  <2> HIDE DEF s, u
  <2>3. Len(s) = Len(u) /\ \A i \in 1 .. Len(s) : s[i] = u[i]
    BY <2>1, <2>2
  <2>4. s = u
    BY <2>1, <2>2, <2>3, SeqEqual, Zenon
  <2> QED BY <2>4, Zenon DEF s, u
<1>4. <<a>> # <<>> /\ <<a, b>> # <<>> /\ <<a, b, c>> # <<>>
  OBVIOUS
<1> QED BY <1>2, <1>3, <1>4, Zenon

\* What is behind a thread, read off its stack.
LEMMA Places ==
  ASSUME NEW s
  PROVE  /\ s = <<>> => BehindOf(s) = {}
         /\ \A a : s = <<a>> => BehindOf(s) = {a}
         /\ \A a, b : s = <<a, b>> => BehindOf(s) = {a, b}
         /\ \A a, b, c : s = <<a, b, c>> => BehindOf(s) = {a, b, c}
BY DEF BehindOf

\* What is behind a thread, by where it is.
LEMMA Standing ==
  ASSUME NEW t, Nested(t)
  PROVE  /\ pc[t] \in Ends => stack[t] = <<>> /\ Behind(t) = {}
         /\ pc[t] \in InBody => \E b \in Ends : stack[t] = <<b>> /\ Behind(t) = {b}
         /\ pc[t] = "drain" =>
              \E a \in {"overflow", "snapshot"}, b \in Ends : stack[t] = <<a, b>> /\ Behind(t) = {a, b}
         /\ pc[t] = "create_write" => \E b \in Ends : stack[t] = <<"reconcile", b>> /\ Behind(t) = {"reconcile", b}
         /\ pc[t] \in Starting => Behind(t) \subseteq Ends \cup {"reconcile"}
         /\ pc[t] \in Cancelling => Behind(t) \subseteq Ends \cup {"reconcile", "approvals", "drain", "overflow", "snapshot"}
         /\ pc[t] \in Cancelling /\ Behind(t) \cap Reconciling = {} => "reconcile" \in Behind(t)
<1>1. CASE stack[t] = <<>> /\ pc[t] \in Ends
  BY <1>1, LabelsApart, Places, Zenon DEF Behind
<1>2. ASSUME NEW b \in Ends, stack[t] = <<b>>, pc[t] \in InBody \cup Starting
      PROVE  pc[t] \notin Ends \cup Cancelling \cup {"drain", "create_write"} /\ Behind(t) = {b}
  BY <1>2, LabelsApart, Places, Zenon DEF Behind
<1>3. ASSUME NEW b \in Ends, stack[t] = <<"reconcile", b>>, pc[t] \in Starting \cup Cancelling \cup {"create_write"}
      PROVE  pc[t] \notin Ends \cup InBody \cup {"drain"} /\ Behind(t) = {"reconcile", b}
  <2>1. pc[t] \notin Ends \cup InBody \cup {"drain"}
    BY <1>3, LabelsApart, Zenon
  <2>2. Behind(t) = {"reconcile", b}
    BY <1>3, Places DEF Behind
  <2> QED BY <2>1, <2>2, Zenon
<1>4. ASSUME NEW b \in Ends, stack[t] = <<"approvals", b>>, pc[t] \in Cancelling
      PROVE  /\ pc[t] \notin Ends \cup InBody \cup Starting \cup {"drain", "create_write"}
             /\ Behind(t) = {"approvals", b}
  BY <1>4, LabelsApart, Places, Zenon DEF Behind
<1>5. ASSUME NEW b \in Ends, NEW a \in {"overflow", "snapshot"}, stack[t] = <<a, b>>, pc[t] = "drain"
      PROVE  /\ pc[t] \notin Ends \cup InBody \cup Starting \cup Cancelling \cup {"create_write"}
             /\ Behind(t) = {a, b}
  <2>1. pc[t] \notin Ends \cup InBody \cup Starting \cup Cancelling \cup {"create_write"}
    BY <1>5, LabelsApart, Zenon
  <2>2. Behind(t) = {a, b}
    BY <1>5, Places DEF Behind
  <2> QED BY <2>1, <2>2, Zenon
<1>6. ASSUME NEW b \in Ends, NEW a \in {"overflow", "snapshot"}, stack[t] = <<"drain", a, b>>, pc[t] \in Cancelling
      PROVE  /\ pc[t] \notin Ends \cup InBody \cup Starting \cup {"drain", "create_write"}
             /\ Behind(t) = {"drain", a, b}
  <2>1. pc[t] \notin Ends \cup InBody \cup Starting \cup {"drain", "create_write"}
    BY <1>6, LabelsApart, Zenon
  <2>2. Behind(t) = {"drain", a, b}
    BY <1>6, Places DEF Behind
  <2> QED BY <2>1, <2>2, Zenon
<1>7. {"approvals", "drain"} \subseteq Reconciling
  BY Zenon DEF Reconciling
<1> QED BY <1>1, <1>2, <1>3, <1>4, <1>5, <1>6, <1>7 DEF Nested, NestedOf

\* A step within the operation that the thread is in.
LEMMA GoesOn ==
  ASSUME ControlTyped, NEW t \in Threads, Nested(t), NEW label, Goto(t, label),
         \E kind \in {Ends, InBody, Starting, Cancelling} : pc[t] \in kind /\ label \in kind
  PROVE  Arrives(t, label, Behind(t))
<1>1. label \in Labels
  BY LabelsApart, Zenon
<1>2. /\ ControlTyped' /\ Elsewhere(t)
      /\ pc'[t] = label /\ stack'[t] = stack[t]
  BY <1>1, Zenon DEF ControlTyped, Goto, Elsewhere
<1>3. NestedOf(label, stack[t])
  BY LabelsApart, Zenon DEF Nested, NestedOf
<1> QED BY <1>2, <1>3, Zenon DEF Arrives, Nested, Behind

\* A call that finds these steps behind it.
LEMMA Pushes ==
  ASSUME ControlTyped, NEW t \in Threads, NEW p \in Labels, NEW rest \in Seq(Labels), NEW labels,
         Then(t, labels), Head(labels) = p, Tail(labels) \o stack[t] = rest, NestedOf(p, rest)
  PROVE  Arrives(t, p, BehindOf(rest))
<1>1. /\ ControlTyped' /\ Elsewhere(t)
      /\ pc'[t] = p /\ stack'[t] = rest
  BY Zenon DEF ControlTyped, Then, Elsewhere
<1> QED BY <1>1, Zenon DEF Arrives, Nested, Behind

\* The return to these steps.
LEMMA Pops ==
  ASSUME ControlTyped, NEW t \in Threads, NEW p \in Labels, NEW rest \in Seq(Labels),
         Return(t), Head(stack[t]) = p, Tail(stack[t]) = rest, NestedOf(p, rest)
  PROVE  Arrives(t, p, BehindOf(rest))
<1>1. /\ ControlTyped' /\ Elsewhere(t)
      /\ pc'[t] = p /\ stack'[t] = rest
  BY Zenon DEF ControlTyped, Return, Elsewhere
<1> QED BY <1>1, Zenon DEF Arrives, Nested, Behind

\* A call that a thread begins.
LEMMA BeginsCall ==
  ASSUME ControlTyped, NEW t \in Threads, Nested(t), pc[t] \in Ends
  PROVE  /\ \A p \in {"reconcile", "start"}, b \in Ends : Then(t, <<p, b>>) => Arrives(t, p, {b})
         /\ \A p \in {"create_write", "cancel", "start"}, b \in Ends :
              Then(t, <<p, "reconcile", b>>) => Arrives(t, p, {"reconcile", b})
<1>1. stack[t] = <<>>
  BY Standing, Zenon
<1>2. ASSUME NEW p \in {"reconcile", "start"}, NEW b \in Ends, Then(t, <<p, b>>)
      PROVE  Arrives(t, p, {b})
  <2>1. p \in Labels /\ b \in Labels /\ p \in InBody \cup Starting
    BY <1>2, LabelsApart, Zenon DEF InBody, Starting
  <2>2. Head(<<p, b>>) = p /\ Tail(<<p, b>>) \o <<>> = <<b>> /\ <<b>> \in Seq(Labels)
    BY <2>1
  <2>3. NestedOf(p, <<b>>)
    BY <2>1, Zenon DEF NestedOf
  <2>4. Arrives(t, p, BehindOf(<<b>>))
    BY <1>1, <1>2, <2>1, <2>2, <2>3, Pushes, Zenon
  <2> QED BY <2>4, Places, Zenon
<1>3. ASSUME NEW p \in {"create_write", "cancel", "start"}, NEW b \in Ends, Then(t, <<p, "reconcile", b>>)
      PROVE  Arrives(t, p, {"reconcile", b})
  <2>1. p \in Labels /\ b \in Labels /\ "reconcile" \in Labels /\ p \in Starting \cup Cancelling \cup {"create_write"}
    BY <1>3, LabelsApart, Zenon DEF InBody, Starting, Cancelling
  <2>2. /\ Head(<<p, "reconcile", b>>) = p /\ Tail(<<p, "reconcile", b>>) \o <<>> = <<"reconcile", b>>
        /\ <<"reconcile", b>> \in Seq(Labels)
    BY <2>1
  <2>3. NestedOf(p, <<"reconcile", b>>)
    BY <2>1, Zenon DEF NestedOf
  <2>4. Arrives(t, p, BehindOf(<<"reconcile", b>>))
    BY <1>1, <1>3, <2>1, <2>2, <2>3, Pushes, Zenon
  <2>5. BehindOf(<<"reconcile", b>>) = {"reconcile", b}
    BY Places
  <2> QED BY <2>4, <2>5, Zenon
<1> QED BY <1>2, <1>3, Zenon

\* The operations that reconcile() calls.
LEMMA CallsDeeper ==
  ASSUME ControlTyped, NEW t \in Threads, Nested(t)
  PROVE  /\ pc[t] \in InBody /\ Then(t, <<"cancel", "approvals">>)
              => Arrives(t, "cancel", {"approvals"} \cup Behind(t))
         /\ \A a \in {"overflow", "snapshot"} :
              pc[t] \in InBody /\ Then(t, <<"drain", a>>) => Arrives(t, "drain", {a} \cup Behind(t))
         /\ pc[t] = "drain" /\ Then(t, <<"cancel", "drain">>)
              => Arrives(t, "cancel", {"drain"} \cup Behind(t))
<1>0. /\ {"cancel", "approvals", "drain", "overflow", "snapshot"} \subseteq Labels
      /\ Ends \subseteq Labels /\ "cancel" \in Cancelling
  BY LabelsApart, Zenon DEF Cancelling, Reconciling
<1>1. ASSUME pc[t] \in InBody, NEW p, NEW a, Then(t, <<p, a>>),
             \/ p = "cancel" /\ a = "approvals"
             \/ p = "drain" /\ a \in {"overflow", "snapshot"}
      PROVE  Arrives(t, p, {a} \cup Behind(t))
  <2>1. PICK b \in Ends : stack[t] = <<b>> /\ Behind(t) = {b}
    BY <1>1, Standing, Zenon
  <2>2. a \in Labels /\ p \in Labels /\ b \in Labels
    BY <1>0, <1>1, Zenon
  <2>3. Head(<<p, a>>) = p /\ Tail(<<p, a>>) = <<a>> /\ <<a, b>> \in Seq(Labels)
    BY <2>2
  <2>4. Tail(<<p, a>>) \o stack[t] = <<a, b>>
    BY <2>1, <2>2, <2>3, Stacks, Zenon
  <2>5. NestedOf(p, <<a, b>>)
    BY <1>0, <1>1, Zenon DEF NestedOf
  <2>6. Arrives(t, p, BehindOf(<<a, b>>))
    BY <1>1, <2>2, <2>3, <2>4, <2>5, Pushes, Zenon
  <2>7. BehindOf(<<a, b>>) = {a} \cup Behind(t)
    BY <2>1, Places
  <2> QED BY <2>6, <2>7, Zenon
<1>2. ASSUME pc[t] = "drain", Then(t, <<"cancel", "drain">>)
      PROVE  Arrives(t, "cancel", {"drain"} \cup Behind(t))
  <2>1. PICK a \in {"overflow", "snapshot"}, b \in Ends : stack[t] = <<a, b>> /\ Behind(t) = {a, b}
    BY <1>2, Standing, Zenon
  <2>2. a \in Labels /\ "cancel" \in Labels /\ "drain" \in Labels /\ b \in Labels
    BY <1>0, Zenon
  <2>3. /\ Head(<<"cancel", "drain">>) = "cancel" /\ Tail(<<"cancel", "drain">>) = <<"drain">>
        /\ <<"drain", a, b>> \in Seq(Labels)
    BY <2>2
  <2>4. Tail(<<"cancel", "drain">>) \o stack[t] = <<"drain", a, b>>
    <3>1. <<"drain">> \o <<a, b>> = <<"drain", a, b>>
      BY <2>2, Stacks, Zenon
    <3> QED BY <2>1, <2>3, <3>1, Zenon
  <2>5. NestedOf("cancel", <<"drain", a, b>>)
    BY <1>0, Zenon DEF NestedOf
  <2>6. Arrives(t, "cancel", BehindOf(<<"drain", a, b>>))
    BY <1>2, <2>2, <2>3, <2>4, <2>5, Pushes, Zenon
  <2>7. BehindOf(<<"drain", a, b>>) = {"drain"} \cup Behind(t)
    BY <2>1, Places
  <2> QED BY <2>6, <2>7, Zenon
<1>3. ASSUME pc[t] \in InBody, Then(t, <<"cancel", "approvals">>)
      PROVE  Arrives(t, "cancel", {"approvals"} \cup Behind(t))
  BY <1>1, <1>3, Zenon
<1>4. ASSUME NEW a \in {"overflow", "snapshot"}, pc[t] \in InBody, Then(t, <<"drain", a>>)
      PROVE  Arrives(t, "drain", {a} \cup Behind(t))
  BY <1>1, <1>4, Zenon
<1> QED BY <1>2, <1>3, <1>4, Zenon

\* A return leads to the first step behind the thread, and leaves the others.
LEMMA Returns ==
  ASSUME ControlTyped, NEW t \in Threads, Nested(t), pc[t] \notin Ends, Return(t)
  PROVE  \E a \in Ends \cup {"reconcile", "approvals", "drain", "overflow", "snapshot"} : \E rest :
           /\ Arrives(t, a, rest) /\ Behind(t) = {a} \cup rest
           /\ pc[t] \in InBody => a \in Ends /\ rest = {}
           /\ pc[t] = "drain" => a \in {"overflow", "snapshot"}
           /\ pc[t] \in Starting => a \in Ends \cup {"reconcile"} /\ rest \subseteq Ends
           /\ pc[t] \in Cancelling => a \in {"reconcile", "approvals", "drain"}
           /\ pc[t] = "create_write" => a = "reconcile" /\ rest \subseteq Ends
<1>0. /\ {"reconcile", "approvals", "drain", "overflow", "snapshot"} \subseteq Labels
      /\ Ends \subseteq Labels
      /\ {"reconcile", "approvals", "overflow", "snapshot"} \subseteq InBody
  BY LabelsApart, Zenon DEF InBody, Reconciling
<1>1. ASSUME NEW b \in Ends, stack[t] = <<b>>, pc[t] \in InBody \cup Starting
      PROVE  Arrives(t, b, {}) /\ Behind(t) = {b}
  <2>1. Head(<<b>>) = b /\ Tail(<<b>>) = <<>> /\ <<>> \in Seq(Labels) /\ b \in Labels
    BY <1>0
  <2>2. NestedOf(b, <<>>)
    BY Zenon DEF NestedOf
  <2>3. Arrives(t, b, BehindOf(<<>>))
    BY <1>1, <2>1, <2>2, Pops, Zenon
  <2> QED BY <1>1, <2>3, Places, Zenon DEF Behind
<1>2. ASSUME NEW a \in {"reconcile", "approvals", "overflow", "snapshot"}, NEW b \in Ends, stack[t] = <<a, b>>
      PROVE  Arrives(t, a, {b}) /\ Behind(t) = {a, b}
  <2>1. /\ Head(<<a, b>>) = a /\ Tail(<<a, b>>) = <<b>> /\ <<b>> \in Seq(Labels)
        /\ a \in Labels
    BY <1>0
  <2>2. NestedOf(a, <<b>>)
    BY <1>0, Zenon DEF NestedOf
  <2>3. Arrives(t, a, BehindOf(<<b>>))
    BY <1>2, <2>1, <2>2, Pops, Zenon
  <2>4. BehindOf(<<b>>) = {b} /\ BehindOf(<<a, b>>) = {a, b}
    BY Places
  <2> QED BY <1>2, <2>3, <2>4, Zenon DEF Behind
<1>3. ASSUME NEW a \in {"overflow", "snapshot"}, NEW b \in Ends, stack[t] = <<"drain", a, b>>
      PROVE  Arrives(t, "drain", {a, b}) /\ Behind(t) = {"drain", a, b}
  <2>1. /\ Head(<<"drain", a, b>>) = "drain" /\ Tail(<<"drain", a, b>>) = <<a, b>> /\ <<a, b>> \in Seq(Labels)
        /\ "drain" \in Labels
    BY <1>0
  <2>2. NestedOf("drain", <<a, b>>)
    BY Zenon DEF NestedOf
  <2>3. Arrives(t, "drain", BehindOf(<<a, b>>))
    BY <1>3, <2>1, <2>2, Pops, Zenon
  <2>4. BehindOf(<<a, b>>) = {a, b} /\ BehindOf(<<"drain", a, b>>) = {"drain", a, b}
    BY Places
  <2> QED BY <1>3, <2>3, <2>4, Zenon DEF Behind
<1>4. CASE \E b \in Ends : stack[t] = <<b>> /\ pc[t] \in InBody \cup Starting
  <2>1. PICK b \in Ends : stack[t] = <<b>> /\ pc[t] \in InBody \cup Starting
    BY <1>4, Zenon
  <2>2. Arrives(t, b, {}) /\ Behind(t) = {b} \cup {} /\ pc[t] \notin Cancelling \cup {"drain", "create_write"}
    BY <1>1, <2>1, LabelsApart, Zenon
  <2> QED BY <2>2, Zenon
<1>5. CASE \E b \in Ends : /\ stack[t] = <<"reconcile", b>>
                           /\ pc[t] \in Starting \cup Cancelling \cup {"create_write"}
  <2>1. PICK b \in Ends : stack[t] = <<"reconcile", b>> /\ pc[t] \in Starting \cup Cancelling \cup {"create_write"}
    BY <1>5, Zenon
  <2>2. /\ Arrives(t, "reconcile", {b}) /\ Behind(t) = {"reconcile"} \cup {b} /\ {b} \subseteq Ends
        /\ pc[t] \notin InBody \cup {"drain"}
    <3>1. Arrives(t, "reconcile", {b}) /\ Behind(t) = {"reconcile"} \cup {b}
      BY <1>2, <2>1, Zenon
    <3>2. pc[t] \notin InBody \cup {"drain"}
      BY <2>1, LabelsApart, Zenon
    <3> QED BY <3>1, <3>2, Zenon
  <2> QED BY <2>2, Zenon
<1>6. CASE \E b \in Ends : stack[t] = <<"approvals", b>> /\ pc[t] \in Cancelling
  <2>1. PICK b \in Ends : stack[t] = <<"approvals", b>> /\ pc[t] \in Cancelling
    BY <1>6, Zenon
  <2>2. /\ Arrives(t, "approvals", {b}) /\ Behind(t) = {"approvals"} \cup {b}
        /\ pc[t] \notin InBody \cup Starting \cup {"drain", "create_write"}
    <3>1. Arrives(t, "approvals", {b}) /\ Behind(t) = {"approvals"} \cup {b}
      BY <1>2, <2>1, Zenon
    <3>2. pc[t] \notin InBody \cup Starting \cup {"drain", "create_write"}
      BY <2>1, LabelsApart, Zenon
    <3> QED BY <3>1, <3>2, Zenon
  <2> QED BY <2>2, Zenon
<1>7. CASE \E b \in Ends, a \in {"overflow", "snapshot"} : stack[t] = <<a, b>> /\ pc[t] = "drain"
  <2>1. PICK b \in Ends, a \in {"overflow", "snapshot"} : stack[t] = <<a, b>> /\ pc[t] = "drain"
    BY <1>7, Zenon
  <2>2. /\ Arrives(t, a, {b}) /\ Behind(t) = {a} \cup {b}
        /\ pc[t] \notin InBody \cup Starting \cup Cancelling \cup {"create_write"}
    <3>1. Arrives(t, a, {b}) /\ Behind(t) = {a} \cup {b}
      BY <1>2, <2>1, Zenon
    <3>2. pc[t] \notin InBody \cup Starting \cup Cancelling \cup {"create_write"}
      BY <2>1, LabelsApart, Zenon
    <3> QED BY <3>1, <3>2, Zenon
  <2> QED BY <2>1, <2>2, Zenon
<1>8. CASE \E b \in Ends, a \in {"overflow", "snapshot"} : stack[t] = <<"drain", a, b>> /\ pc[t] \in Cancelling
  <2>1. PICK b \in Ends, a \in {"overflow", "snapshot"} : stack[t] = <<"drain", a, b>> /\ pc[t] \in Cancelling
    BY <1>8, Zenon
  <2>2. /\ Arrives(t, "drain", {a, b}) /\ Behind(t) = {"drain"} \cup {a, b}
        /\ pc[t] \notin InBody \cup Starting \cup {"drain", "create_write"}
    <3>1. Arrives(t, "drain", {a, b}) /\ Behind(t) = {"drain"} \cup {a, b}
      BY <1>3, <2>1, Zenon
    <3>2. pc[t] \notin InBody \cup Starting \cup {"drain", "create_write"}
      BY <2>1, LabelsApart, Zenon
    <3> QED BY <3>1, <3>2, Zenon
  <2> QED BY <2>2, Zenon
<1> QED BY <1>4, <1>5, <1>6, <1>7, <1>8, Zenon DEF Nested, NestedOf

----------------------------------------------------------------------------
(* Types.                                                                  *)

\* The other half of the type invariant.
DataTyped ==
  /\ run \in [Runs -> Run]
  /\ result \in [Runs -> BOOLEAN]
  /\ approval \in [Runs -> Approvals]
  /\ old \in [Runs -> BOOLEAN]
  /\ recLock \in Threads \cup {NoThread} /\ procLock \in Maintainers \cup {NoThread}
  /\ mem \in [Threads -> Run] /\ cur \in [Threads -> Runs \cup {NoRun}]
  /\ list \in [Threads -> Copies]
  /\ todo \in [Threads -> SUBSET Runs]
  /\ head \in [Threads -> Runs \cup {NoRun}]
  /\ calls \in 0..MaxCalls

\* The two halves of the type invariant.
LEMMA TypeHalves == TypeOK <=> ControlTyped /\ DataTyped
BY Zenon DEF TypeOK, ControlTyped, DataTyped

\* A run with another status is a run.
LEMMA RunTyped ==
  /\ Absent \in Run
  /\ \A c \in Run : c.status \in Pending \cup Active \cup {"ended", "absent"} /\ c.auto \in BOOLEAN
  /\ \A c \in Run, s \in Pending \cup Active \cup {"ended"} :
       [c EXCEPT !.status = s] \in Run /\ [c EXCEPT !.status = s].status = s
  /\ \A c \in Run, s \in Pending \cup Active \cup {"ended", "absent"} :
       [c EXCEPT !.auto = TRUE, !.status = s] \in Run
  /\ \A b \in BOOLEAN : [status |-> "created", auto |-> b] \in Run
  /\ \A s \in Pending : s \notin {"ended", "absent", "running"}
  /\ {"created", "queued", "waiting_input"} \subseteq Pending /\ "running" \in Active
<1>1. Absent \in Run
  BY Zenon DEF Run, Absent
<1>2. \A c \in Run : c.status \in Pending \cup Active \cup {"ended", "absent"} /\ c.auto \in BOOLEAN
  BY Zenon DEF Run
<1>3. \A c \in Run, s \in Pending \cup Active \cup {"ended"} :
       [c EXCEPT !.status = s] \in Run /\ [c EXCEPT !.status = s].status = s
  BY Zenon DEF Run
<1>4. \A c \in Run, s \in Pending \cup Active \cup {"ended", "absent"} :
       [c EXCEPT !.auto = TRUE, !.status = s] \in Run
  BY Zenon DEF Run
<1>5. \A b \in BOOLEAN : [status |-> "created", auto |-> b] \in Run
  BY Zenon DEF Run, Pending
<1>6. /\ \A s \in Pending : s \notin {"ended", "absent", "running"}
      /\ {"created", "queued", "waiting_input"} \subseteq Pending /\ "running" \in Active
  BY Zenon DEF Pending, Active
<1> QED BY <1>1, <1>2, <1>3, <1>4, <1>5, <1>6, Zenon

\* What a step may write.
LEMMA Writes ==
  ASSUME DataTyped, NEW t \in Threads
  PROVE  /\ \A c \in Run : [mem EXCEPT ![t] = c] \in [Threads -> Run] /\ [mem EXCEPT ![t] = c][t] = c
         /\ \A r \in Runs \cup {NoRun} :
              [cur EXCEPT ![t] = r] \in [Threads -> Runs \cup {NoRun}] /\ [cur EXCEPT ![t] = r][t] = r
         /\ \A S \in SUBSET Runs :
              [todo EXCEPT ![t] = S] \in [Threads -> SUBSET Runs] /\ [todo EXCEPT ![t] = S][t] = S
         /\ \A l \in Copies : [list EXCEPT ![t] = l] \in [Threads -> Copies] /\ [list EXCEPT ![t] = l][t] = l
         /\ \A r \in Runs \cup {NoRun} : [head EXCEPT ![t] = r] \in [Threads -> Runs \cup {NoRun}]
         /\ \A r \in Runs, c \in Run : [run EXCEPT ![r] = c] \in [Runs -> Run] /\ [run EXCEPT ![r] = c][r] = c
         /\ mem[t] \in Run /\ list[t] \in Copies /\ todo[t] \in SUBSET Runs
         /\ \A r \in Runs : run[r] \in Run /\ approval[r] \in Approvals
<1>1. /\ \A c \in Run : [mem EXCEPT ![t] = c] \in [Threads -> Run] /\ [mem EXCEPT ![t] = c][t] = c
      /\ mem[t] \in Run
  BY Zenon DEF DataTyped
<1>2. \A r \in Runs \cup {NoRun} :
        [cur EXCEPT ![t] = r] \in [Threads -> Runs \cup {NoRun}] /\ [cur EXCEPT ![t] = r][t] = r
  BY Zenon DEF DataTyped
<1>3. /\ \A S \in SUBSET Runs :
           [todo EXCEPT ![t] = S] \in [Threads -> SUBSET Runs] /\ [todo EXCEPT ![t] = S][t] = S
      /\ todo[t] \in SUBSET Runs
  BY Zenon DEF DataTyped
<1>4. /\ \A l \in Copies : [list EXCEPT ![t] = l] \in [Threads -> Copies] /\ [list EXCEPT ![t] = l][t] = l
      /\ list[t] \in Copies
  BY Zenon DEF DataTyped
<1>5. \A r \in Runs \cup {NoRun} : [head EXCEPT ![t] = r] \in [Threads -> Runs \cup {NoRun}]
  BY Zenon DEF DataTyped
<1>6. /\ \A r \in Runs, c \in Run : [run EXCEPT ![r] = c] \in [Runs -> Run] /\ [run EXCEPT ![r] = c][r] = c
      /\ \A r \in Runs : run[r] \in Run /\ approval[r] \in Approvals
  BY Zenon DEF DataTyped
<1> QED BY <1>1, <1>2, <1>3, <1>4, <1>5, <1>6, Zenon

\* The lists of copies that a thread makes.
LEMMA Lists ==
  /\ <<>> \in Copies
  /\ \A S \in SUBSET Runs : run \in [Runs -> Run] =>
       [r \in S |-> run[r]] \in Copies /\ DOMAIN [r \in S |-> run[r]] = S
  /\ \A l \in Copies : DOMAIN l \subseteq Runs /\ \A r \in DOMAIN l : l[r] \in Run
  /\ \A l \in Copies, r \in Runs, c \in Run : r \in DOMAIN l =>
       [l EXCEPT ![r] = c] \in Copies /\ DOMAIN [l EXCEPT ![r] = c] = DOMAIN l
<1>1. <<>> \in [{} -> Run] /\ {} \in SUBSET Runs
  OBVIOUS
<1>2. <<>> \in Copies
  BY <1>1, Zenon DEF Copies
<1>3. \A S \in SUBSET Runs : run \in [Runs -> Run] =>
        [r \in S |-> run[r]] \in Copies /\ DOMAIN [r \in S |-> run[r]] = S
  <2> SUFFICES ASSUME NEW S \in SUBSET Runs, run \in [Runs -> Run]
               PROVE  [r \in S |-> run[r]] \in Copies /\ DOMAIN [r \in S |-> run[r]] = S
    BY Zenon
  <2>1. [r \in S |-> run[r]] \in [S -> Run]
    BY Zenon
  <2> QED BY <2>1, Zenon DEF Copies
<1>4. ASSUME NEW l \in Copies
      PROVE  /\ DOMAIN l \subseteq Runs /\ \A r \in DOMAIN l : l[r] \in Run
             /\ \A r \in Runs, c \in Run : r \in DOMAIN l =>
                  [l EXCEPT ![r] = c] \in Copies /\ DOMAIN [l EXCEPT ![r] = c] = DOMAIN l
  <2>1. PICK S \in SUBSET Runs : l \in [S -> Run]
    BY Zenon DEF Copies
  <2>2. \A r \in Runs, c \in Run : r \in S => [l EXCEPT ![r] = c] \in [S -> Run]
    BY <2>1, Zenon
  <2> QED BY <2>1, <2>2, Zenon DEF Copies
<1> QED BY <1>2, <1>3, <1>4, Zenon

\* The listed runs are runs.
LEMMA ListedRuns == Listed \in SUBSET Runs
<1> DEFINE S == {r \in Runs : run[r].status \in Pending \cup Active}
<1>1. S \in SUBSET Runs
  BY Zenon
<1> HIDE DEF S
<1>2. Newest(S, ListLimit) \subseteq S
  BY Zenon DEF Newest
<1> QED BY <1>1, <1>2, Zenon DEF Listed, S

\* What a step has written.
LEMMA Written ==
  ASSUME DataTyped, NEW t \in Threads
  PROVE  /\ \A c \in Run : mem' = [mem EXCEPT ![t] = c] => mem' \in [Threads -> Run] /\ mem'[t] = c
         /\ \A r \in Runs \cup {NoRun} : cur' = [cur EXCEPT ![t] = r]
              => cur' \in [Threads -> Runs \cup {NoRun}] /\ cur'[t] = r
         /\ \A S \in SUBSET Runs : todo' = [todo EXCEPT ![t] = S]
              => todo' \in [Threads -> SUBSET Runs] /\ todo'[t] = S
         /\ \A l \in Copies : list' = [list EXCEPT ![t] = l] => list' \in [Threads -> Copies] /\ list'[t] = l
         /\ \A r \in Runs, c \in Run : run' = [run EXCEPT ![r] = c] => run' \in [Runs -> Run] /\ run'[r] = c
<1>1. \A c \in Run : mem' = [mem EXCEPT ![t] = c] => mem' \in [Threads -> Run] /\ mem'[t] = c
  BY Zenon DEF DataTyped
<1>2. \A r \in Runs \cup {NoRun} : cur' = [cur EXCEPT ![t] = r]
        => cur' \in [Threads -> Runs \cup {NoRun}] /\ cur'[t] = r
  BY Zenon DEF DataTyped
<1>3. \A S \in SUBSET Runs : todo' = [todo EXCEPT ![t] = S]
        => todo' \in [Threads -> SUBSET Runs] /\ todo'[t] = S
  BY Zenon DEF DataTyped
<1>4. \A l \in Copies : list' = [list EXCEPT ![t] = l] => list' \in [Threads -> Copies] /\ list'[t] = l
  BY Zenon DEF DataTyped
<1>5. \A r \in Runs, c \in Run : run' = [run EXCEPT ![r] = c] => run' \in [Runs -> Run] /\ run'[r] = c
  BY Zenon DEF DataTyped
<1> QED BY <1>1, <1>2, <1>3, <1>4, <1>5, Zenon

----------------------------------------------------------------------------
(* The steps keep the types, and the control of the thread that takes them.*)

\* The thread comes to a step, with what the steps ahead of it rely on.
Keeps(t) == DataTyped' /\ ControlTyped' /\ Elsewhere(t) /\ Nested(t)' /\ Ready(t)'

\* What a thread relies on where it arrives.
LEMMA ReadyThere ==
  ASSUME NEW t, NEW label, NEW behind, Arrives(t, label, behind),
         label \in Cancelling \cup Starting \cup {"write_copy", "create_write"} => cur'[t] \in Runs,
         ({label} \cup behind) \cap {"approvals", "write_copy"} # {} => todo'[t] \subseteq DOMAIN list'[t],
         label \in {"cancel_write", "begin", "finish", "save_result", "start_return"}
           => mem'[t].status \notin Pending,
         ({label} \cup behind) \cap Reconciling # {} => recLock' = t
  PROVE  ControlTyped' /\ Elsewhere(t) /\ Nested(t)' /\ Ready(t)'
BY Zenon DEF Arrives, Ready, Ahead

\* The steps of cancel().
LEMMA CancelKeeps ==
  ASSUME DataTyped, ControlTyped, ControlInv, NEW t \in Threads, CancelStep(t)
  PROVE  Keeps(t)
<1> USE DEF KeepLocks, files, locals, At
<1>1. /\ pc[t] \in Cancelling /\ cur[t] \in Runs /\ Nested(t) /\ Ready(t)
      /\ run[cur[t]] \in Run /\ mem[t] \in Run
  <2>1. pc[t] \in Cancelling /\ Nested(t) /\ Ready(t)
    BY Zenon DEF CancelStep, CancelRead, CancelWrite, CancelApproval, Cancelling, ControlInv
  <2> QED BY <2>1, Writes, Zenon DEF Ready
<1>2. /\ Behind(t) \cap {"approvals", "write_copy"} # {} => todo[t] \subseteq DOMAIN list[t]
      /\ Behind(t) \cap Reconciling # {} => recLock = t
  BY <1>1, Zenon DEF Ready, Ahead
<1>3. \A label \in Cancelling : label \notin {"approvals", "write_copy"} \cup Reconciling
  BY Zenon DEF Cancelling, Reconciling
<1>4. \A label \in Cancelling : Goto(t, label) => Arrives(t, label, Behind(t))
  BY <1>1, GoesOn, Zenon
<1>5. Return(t) => \E a \in {"reconcile", "approvals", "drain"} : \E rest :
        Arrives(t, a, rest) /\ Behind(t) = {a} \cup rest
  BY <1>1, Returns, LabelsApart, Zenon
<1>6. NoRun \in Runs \cup {NoRun} /\ {"cancel_write", "cancel_approval"} \subseteq Cancelling
  BY Zenon DEF Cancelling
<1>7. CASE CancelRead(t)
  <2>1. CASE run[cur[t]].status = "ended" /\ recLock = t
    <3>1. Goto(t, "cancel_approval") /\ UNCHANGED <<files, locals, recLock, procLock, calls>>
      BY <1>7, <2>1, Zenon DEF CancelRead
    <3>2. Arrives(t, "cancel_approval", Behind(t))
      BY <1>4, <1>6, <3>1, Zenon
    <3>3. ControlTyped' /\ Elsewhere(t) /\ Nested(t)' /\ Ready(t)'
      BY <1>1, <1>2, <1>3, <1>6, <3>1, <3>2, ReadyThere, Zenon
    <3> QED BY <3>1, <3>3, Zenon DEF DataTyped, Keeps
  <2>2. CASE run[cur[t]].status = "ended" /\ recLock # t
    <3>1. Return(t) /\ cur' = [cur EXCEPT ![t] = NoRun] /\ UNCHANGED <<files, mem, list, todo, head, recLock, procLock, calls>>
      BY <1>7, <2>2, Zenon DEF CancelRead
    <3>2. PICK a \in {"reconcile", "approvals", "drain"} : \E rest :
            Arrives(t, a, rest) /\ Behind(t) = {a} \cup rest
      BY <1>5, <3>1, Zenon
    <3>3. PICK rest : Arrives(t, a, rest) /\ Behind(t) = {a} \cup rest
      BY <3>2, Zenon
    <3>4. a \notin Cancelling \cup Starting \cup {"write_copy", "create_write", "cancel_write", "begin", "finish", "save_result", "start_return"}
      BY Zenon DEF Cancelling, Starting
    <3>5. ControlTyped' /\ Elsewhere(t) /\ Nested(t)' /\ Ready(t)'
      BY <1>2, <3>1, <3>3, <3>4, ReadyThere, Zenon
    <3>6. cur' \in [Threads -> Runs \cup {NoRun}]
      BY <1>6, <3>1, Writes, Zenon
    <3> QED BY <3>1, <3>5, <3>6, Zenon DEF DataTyped, Keeps
  <2>3. CASE run[cur[t]].status # "ended"
    <3> DEFINE s == IF run[cur[t]].status \in Pending THEN "ended" ELSE run[cur[t]].status
    <3> DEFINE c == [run[cur[t]] EXCEPT !.status = s]
    <3>1. /\ Goto(t, "cancel_write") /\ mem' = [mem EXCEPT ![t] = c]
          /\ UNCHANGED <<files, cur, list, todo, head, recLock, procLock, calls>>
      BY <1>7, <2>3, Zenon DEF CancelRead
    <3>2. c \in Run /\ c.status \notin Pending
      <4>1. s \in Pending \cup Active \cup {"ended", "absent"} /\ s \notin Pending
        BY <1>1, RunTyped, Zenon
      <4> HIDE DEF s
      <4> QED BY <1>1, <4>1, Zenon DEF Run
    <3> HIDE DEF c
    <3>3. Arrives(t, "cancel_write", Behind(t))
      BY <1>4, <1>6, <3>1, Zenon
    <3>4. mem' \in [Threads -> Run] /\ mem'[t] = c
      <4>1. [mem EXCEPT ![t] = c] \in [Threads -> Run] /\ [mem EXCEPT ![t] = c][t] = c
        BY <3>2, Writes, Zenon
      <4> QED BY <3>1, <4>1, Zenon
    <3>5. ControlTyped' /\ Elsewhere(t) /\ Nested(t)' /\ Ready(t)'
      BY <1>1, <1>2, <1>3, <1>6, <3>1, <3>2, <3>3, <3>4, ReadyThere, Zenon
    <3> QED BY <3>1, <3>4, <3>5, Zenon DEF DataTyped, Keeps
  <2> QED BY <2>1, <2>2, <2>3, Zenon
<1>8. CASE CancelWrite(t)
  <2>1. /\ Goto(t, "cancel_approval") /\ run' = [run EXCEPT ![cur[t]] = mem[t]]
        /\ UNCHANGED <<result, approval, old, locals, recLock, procLock, calls>>
    BY <1>8, Zenon DEF CancelWrite
  <2>2. Arrives(t, "cancel_approval", Behind(t))
    BY <1>4, <1>6, <2>1, Zenon
  <2>3. ControlTyped' /\ Elsewhere(t) /\ Nested(t)' /\ Ready(t)'
    BY <1>1, <1>2, <1>3, <1>6, <2>1, <2>2, ReadyThere, Zenon
  <2>4. run' \in [Runs -> Run]
    BY <1>1, <2>1, Writes, Zenon
  <2> QED BY <2>1, <2>3, <2>4, Zenon DEF DataTyped, Keeps
<1>9. CASE CancelApproval(t)
  <2>1. /\ Return(t) /\ cur' = [cur EXCEPT ![t] = NoRun] /\ mem' = [mem EXCEPT ![t] = Absent]
        /\ approval' = [approval EXCEPT ![cur[t]] = IF approval[cur[t]] = "pending" THEN "withdrawn" ELSE approval[cur[t]]]
        /\ UNCHANGED <<run, result, old, list, todo, head, recLock, procLock, calls>>
    BY <1>9, Zenon DEF CancelApproval
  <2>2. PICK a \in {"reconcile", "approvals", "drain"} : \E rest :
          Arrives(t, a, rest) /\ Behind(t) = {a} \cup rest
    BY <1>5, <2>1, Zenon
  <2>3. PICK rest : Arrives(t, a, rest) /\ Behind(t) = {a} \cup rest
    BY <2>2, Zenon
  <2>4. a \notin Cancelling \cup Starting \cup {"write_copy", "create_write", "cancel_write", "begin", "finish", "save_result", "start_return"}
    BY Zenon DEF Cancelling, Starting
  <2>5. ControlTyped' /\ Elsewhere(t) /\ Nested(t)' /\ Ready(t)'
    BY <1>2, <2>1, <2>3, <2>4, ReadyThere, Zenon
  <2>6. cur' \in [Threads -> Runs \cup {NoRun}] /\ mem' \in [Threads -> Run]
    BY <1>6, <2>1, Writes, RunTyped, Zenon
  <2>7. approval' \in [Runs -> Approvals]
    BY <2>1, Zenon DEF DataTyped, Approvals
  <2> QED BY <2>1, <2>5, <2>6, <2>7, Zenon DEF DataTyped, Keeps
<1> QED BY <1>7, <1>8, <1>9, Zenon DEF CancelStep

\* What becomes of a copy is a run.
LEMMA OutcomeTyped ==
  ASSUME NEW copy \in Run, NEW status
  PROVE  ApprovalOutcome(copy, status) \in Run
<1>1. copy.status \in Pending \cup Active \cup {"ended", "absent"}
  BY RunTyped, Zenon
<1>2. /\ [copy EXCEPT !.status = "waiting_input"] \in Run /\ [copy EXCEPT !.status = "ended"] \in Run
      /\ [copy EXCEPT !.auto = TRUE, !.status = IF @ = "created" THEN "queued" ELSE @] \in Run
  BY <1>1, Zenon DEF Run, Pending, Active
<1> QED BY <1>2, Zenon DEF ApprovalOutcome

\* The first steps of reconcile(), up to the approvals.
LEMMA ListKeeps ==
  ASSUME DataTyped, ControlTyped, ControlInv, NEW t \in Threads, ReconcileList(t)
  PROVE  Keeps(t)
<1> USE DEF KeepLocks, files, locals, At
<1>1. pc[t] = "reconcile" /\ Nested(t) /\ {"reconcile", "approvals"} \subseteq InBody
  BY Zenon DEF ReconcileList, ControlInv, InBody, Reconciling
<1>2. Arrives(t, "approvals", Behind(t))
  BY <1>1, GoesOn, Zenon DEF ReconcileList
<1> DEFINE listed == [r \in Listed |-> run[r]]
<1> DEFINE linked == {r \in Listed : approval[r] # "none"}
<1>3. /\ recLock' = t /\ list' = [list EXCEPT ![t] = listed] /\ todo' = [todo EXCEPT ![t] = linked]
      /\ UNCHANGED <<run, result, approval, old, procLock, mem, cur, head, calls>>
  BY Zenon DEF ReconcileList
<1>4. listed \in Copies /\ DOMAIN listed = Listed /\ linked \subseteq Listed /\ linked \in SUBSET Runs
  <2>1. Listed \in SUBSET Runs /\ run \in [Runs -> Run]
    BY ListedRuns, Zenon DEF DataTyped
  <2> QED BY <2>1, Lists, Zenon
<1> HIDE DEF listed, linked
<1>5. /\ list' \in [Threads -> Copies] /\ list'[t] = listed
      /\ todo' \in [Threads -> SUBSET Runs] /\ todo'[t] = linked
  BY <1>3, <1>4, Written, Zenon
<1>6. ControlTyped' /\ Elsewhere(t) /\ Nested(t)' /\ Ready(t)'
  <2>1. "approvals" \notin Cancelling \cup Starting \cup {"write_copy", "create_write", "cancel_write", "begin", "finish", "save_result", "start_return"}
    BY Zenon DEF Cancelling, Starting
  <2>2. todo'[t] \subseteq DOMAIN list'[t]
    BY <1>4, <1>5, Zenon
  <2> QED BY <1>2, <1>3, <2>1, <2>2, ReadyThere, Zenon
<1> QED BY <1>3, <1>5, <1>6, Zenon DEF DataTyped, Keeps

\* A step of the approvals.
LEMMA ApprovalKeeps ==
  ASSUME DataTyped, ControlTyped, ControlInv, NEW t \in Threads, ReadApproval(t) \/ WriteCopy(t)
  PROVE  Keeps(t)
<1> USE DEF KeepLocks, files, locals, At
<1>1. /\ pc[t] \in {"approvals", "write_copy"} /\ Nested(t) /\ {"write_copy", "approvals"} \subseteq InBody
      /\ recLock = t /\ todo[t] \subseteq DOMAIN list[t]
  <2>1. pc[t] \in {"approvals", "write_copy"}
    BY Zenon DEF ReadApproval, WriteCopy
  <2>2. pc[t] \in Ahead(t) /\ {"write_copy", "approvals"} \subseteq Reconciling
    BY <2>1, Zenon DEF Ahead, Reconciling
  <2>3. Nested(t) /\ Ready(t) /\ {"write_copy", "approvals"} \subseteq InBody
    BY Zenon DEF ControlInv, InBody, Reconciling
  <2> QED BY <2>1, <2>2, <2>3, Zenon DEF Ready
<1>2. \A label \in {"write_copy", "approvals"} : Goto(t, label) => Arrives(t, label, Behind(t))
  BY <1>1, GoesOn, Zenon
<1>3. /\ "approvals" \notin Cancelling \cup Starting \cup {"write_copy", "create_write", "cancel_write", "begin", "finish", "save_result", "start_return"}
      /\ "write_copy" \notin {"cancel_write", "begin", "finish", "save_result", "start_return"}
      /\ "cancel" \notin {"cancel_write", "begin", "finish", "save_result", "start_return"}
  BY Zenon DEF Cancelling, Starting
<1>4. CASE ReadApproval(t)
  <2> DEFINE r == Max(todo[t])
  <2> DEFINE new == ApprovalOutcome(list[t][r], approval[r])
  <2>1. r \in todo[t] /\ r \in Runs /\ r \in DOMAIN list[t] /\ list[t][r] \in Run
    <3>1. todo[t] \in SUBSET Runs /\ todo[t] # {} /\ list[t] \in Copies
      BY <1>4, Writes, Zenon DEF ReadApproval
    <3>2. r \in todo[t]
      BY <3>1, Youngest, Zenon
    <3> QED BY <1>1, <3>1, <3>2, Lists, Zenon
  <2>2. new \in Run
    BY <2>1, OutcomeTyped, Zenon
  <2>3. /\ \/ /\ cur' = [cur EXCEPT ![t] = r] /\ Then(t, <<"cancel", "approvals">>) /\ UNCHANGED <<mem, list>>
           \/ UNCHANGED <<pc, stack, cur, mem, list>>
           \/ /\ cur' = [cur EXCEPT ![t] = r] /\ mem' = [mem EXCEPT ![t] = new]
              /\ list' = [list EXCEPT ![t][r] = new] /\ Goto(t, "write_copy")
        /\ todo' = [todo EXCEPT ![t] = todo[t] \ {r}]
        /\ UNCHANGED <<run, result, approval, old, head, recLock, procLock, calls>>
    BY <1>4 DEF ReadApproval
  <2> HIDE DEF r, new
  <2>4. todo' \in [Threads -> SUBSET Runs] /\ todo'[t] \subseteq todo[t]
    <3>1. todo[t] \ {r} \in SUBSET Runs
      BY Writes, Zenon
    <3> QED BY <2>3, <3>1, Written, Zenon
  <2>5. CASE cur' = [cur EXCEPT ![t] = r] /\ Then(t, <<"cancel", "approvals">>) /\ UNCHANGED <<mem, list>>
    <3>1. Arrives(t, "cancel", {"approvals"} \cup Behind(t))
      BY <1>1, <2>5, CallsDeeper, Zenon
    <3>2. cur' \in [Threads -> Runs \cup {NoRun}] /\ cur'[t] \in Runs
      BY <2>1, <2>5, Written, Zenon
    <3>3. ControlTyped' /\ Elsewhere(t) /\ Nested(t)' /\ Ready(t)'
      BY <1>1, <1>3, <2>3, <2>4, <2>5, <3>1, <3>2, ReadyThere, Zenon
    <3> QED BY <2>3, <2>4, <2>5, <3>2, <3>3, Zenon DEF DataTyped, Keeps
  <2>6. CASE UNCHANGED <<pc, stack, cur, mem, list>>
    <3>1. Goto(t, "approvals")
      BY <1>4, <2>6, Zenon DEF Goto, ControlTyped, ReadApproval
    <3>2. Arrives(t, "approvals", Behind(t))
      BY <1>2, <3>1, Zenon
    <3>3. ControlTyped' /\ Elsewhere(t) /\ Nested(t)' /\ Ready(t)'
      BY <1>1, <1>3, <2>3, <2>4, <2>6, <3>2, ReadyThere, Zenon
    <3> QED BY <2>3, <2>4, <2>6, <3>3, Zenon DEF DataTyped, Keeps
  <2>7. CASE /\ cur' = [cur EXCEPT ![t] = r] /\ mem' = [mem EXCEPT ![t] = new]
             /\ list' = [list EXCEPT ![t][r] = new] /\ Goto(t, "write_copy")
    <3>1. Arrives(t, "write_copy", Behind(t))
      BY <1>2, <2>7, Zenon
    <3>2. cur' \in [Threads -> Runs \cup {NoRun}] /\ cur'[t] \in Runs
      BY <2>1, <2>7, Written, Zenon
    <3>3. mem' \in [Threads -> Run]
      BY <2>2, <2>7, Written, Zenon
    <3>4. list' = [list EXCEPT ![t] = [list[t] EXCEPT ![r] = new]]
      BY <2>7, Zenon
    <3>5. [list[t] EXCEPT ![r] = new] \in Copies /\ DOMAIN [list[t] EXCEPT ![r] = new] = DOMAIN list[t]
      BY <2>1, <2>2, Lists, Writes, Zenon
    <3>6. list' \in [Threads -> Copies] /\ DOMAIN list'[t] = DOMAIN list[t]
      BY <3>4, <3>5, Written, Zenon
    <3>7. ControlTyped' /\ Elsewhere(t) /\ Nested(t)' /\ Ready(t)'
      BY <1>1, <1>3, <2>3, <2>4, <3>1, <3>2, <3>6, ReadyThere, Zenon
    <3> QED BY <2>3, <2>4, <3>2, <3>3, <3>6, <3>7, Zenon DEF DataTyped, Keeps
  <2> QED BY <2>3, <2>5, <2>6, <2>7, Zenon
<1>5. CASE WriteCopy(t)
  <2>1. /\ run' = [run EXCEPT ![cur[t]] = mem[t]] /\ mem' = [mem EXCEPT ![t] = Absent]
        /\ cur' = [cur EXCEPT ![t] = NoRun] /\ Goto(t, "approvals") /\ pc[t] = "write_copy"
        /\ UNCHANGED <<result, approval, old, list, todo, head, recLock, procLock, calls>>
    BY <1>5, Zenon DEF WriteCopy
  <2>2. Arrives(t, "approvals", Behind(t))
    BY <1>2, <2>1, Zenon
  <2>3. cur[t] \in Runs
    BY <2>1, Zenon DEF ControlInv, Ready
  <2>4. /\ run' \in [Runs -> Run] /\ mem' \in [Threads -> Run] /\ cur' \in [Threads -> Runs \cup {NoRun}]
    BY <2>1, <2>3, Writes, RunTyped, Zenon
  <2>5. ControlTyped' /\ Elsewhere(t) /\ Nested(t)' /\ Ready(t)'
    BY <1>1, <1>3, <2>1, <2>2, ReadyThere, Zenon
  <2> QED BY <2>1, <2>4, <2>5, Zenon DEF DataTyped, Keeps
<1> QED BY <1>4, <1>5, Zenon

\* The stalled runs, once the approvals are read.
LEMMA StallKeeps ==
  ASSUME DataTyped, ControlTyped, ControlInv, NEW t \in Threads, StallGaps(t)
  PROVE  Keeps(t)
<1> USE DEF KeepLocks, files, locals, At
<1>1. pc[t] = "approvals" /\ Nested(t) /\ Ready(t) /\ {"approvals", "expire"} \subseteq InBody
  BY Zenon DEF StallGaps, ControlInv, InBody, Reconciling
<1>2. Arrives(t, "expire", Behind(t)) /\ todo[t] = {}
  BY <1>1, GoesOn, Zenon DEF StallGaps
<1>3. recLock = t
  BY <1>1, Zenon DEF Ready, Ahead, Reconciling
<1>4. /\ list' = [list EXCEPT ![t] = <<>>]
      /\ UNCHANGED <<approval, old, mem, cur, todo, head, recLock, procLock, calls>>
  BY Zenon DEF StallGaps
<1>5. run' \in [Runs -> Run] /\ result' \in [Runs -> BOOLEAN]
  <2>1. PICK stalled :
          /\ run' = [r \in Runs |-> IF r \in stalled THEN [run[r] EXCEPT !.status = "ended"] ELSE run[r]]
          /\ result' = [r \in Runs |-> IF r \in stalled THEN TRUE ELSE result[r]]
    BY Zenon DEF StallGaps
  <2>2. \A r \in Runs : run[r] \in Run /\ [run[r] EXCEPT !.status = "ended"] \in Run /\ result[r] \in BOOLEAN
    BY RunTyped, Zenon DEF DataTyped
  <2> QED BY <2>1, <2>2, Zenon
<1>6. list' \in [Threads -> Copies]
  BY <1>4, Written, Lists, Zenon
<1>7. ControlTyped' /\ Elsewhere(t) /\ Nested(t)' /\ Ready(t)'
  <2>1. "expire" \notin Cancelling \cup Starting \cup {"write_copy", "create_write", "cancel_write", "begin", "finish", "save_result", "start_return"}
    BY Zenon DEF Cancelling, Starting
  <2>2. todo'[t] \subseteq DOMAIN list'[t]
    BY <1>2, <1>4, Zenon
  <2> QED BY <1>2, <1>3, <1>4, <2>1, <2>2, ReadyThere, Zenon
<1> QED BY <1>4, <1>5, <1>6, <1>7, Zenon DEF DataTyped, Keeps

\* The runs that are cancelled are picked.
LEMMA PickKeeps ==
  ASSUME DataTyped, ControlTyped, ControlInv, NEW t \in Threads, Expire(t) \/ CancelOverflow(t)
  PROVE  Keeps(t)
<1> USE DEF KeepLocks, files, locals, At
<1>1. pc[t] \in {"expire", "overflow"} /\ pc[t] \in InBody /\ Nested(t) /\ Ready(t)
  BY Zenon DEF Expire, CancelOverflow, ControlInv, InBody, Reconciling
<1>2. PICK b \in Ends : Behind(t) = {b}
  BY <1>1, Standing, Zenon
<1>3. recLock = t
  BY <1>1, Zenon DEF Ready, Ahead, Reconciling
<1>4. ASSUME NEW a \in {"overflow", "snapshot"}, Then(t, <<"drain", a>>), recLock' = recLock
      PROVE  ControlTyped' /\ Elsewhere(t) /\ Nested(t)' /\ Ready(t)'
  <2>1. Arrives(t, "drain", {a} \cup Behind(t))
    BY <1>1, <1>4, CallsDeeper, Zenon
  <2>2. "drain" \notin Cancelling \cup Starting \cup {"write_copy", "create_write", "cancel_write", "begin", "finish", "save_result", "start_return"}
    BY Zenon DEF Cancelling, Starting
  <2>3. ({"drain"} \cup ({a} \cup Behind(t))) \cap {"approvals", "write_copy"} = {}
    BY <1>2, Zenon DEF Ends
  <2> QED BY <1>3, <1>4, <2>1, <2>2, <2>3, ReadyThere, Zenon
<1>5. CASE Expire(t)
  <2>1. /\ todo' = [todo EXCEPT ![t] = Expired] /\ Then(t, <<"drain", "overflow">>)
        /\ UNCHANGED <<files, mem, cur, list, head, recLock, procLock, calls>>
    BY <1>5, Zenon DEF Expire
  <2>2. Expired \in SUBSET Runs
    BY ListedRuns, Zenon DEF Expired
  <2>3. todo' \in [Threads -> SUBSET Runs]
    BY <2>1, <2>2, Written, Zenon
  <2>4. ControlTyped' /\ Elsewhere(t) /\ Nested(t)' /\ Ready(t)'
    BY <1>4, <2>1, Zenon
  <2> QED BY <2>1, <2>3, <2>4, Zenon DEF DataTyped, Keeps
<1>6. CASE CancelOverflow(t)
  <2> DEFINE listed == [r \in Listed |-> run[r]]
  <2> DEFINE picked == Overflow({r \in Listed : run[r].status \in Pending})
  <2>1. /\ list' = [list EXCEPT ![t] = listed] /\ todo' = [todo EXCEPT ![t] = picked]
        /\ Then(t, <<"drain", "snapshot">>)
        /\ UNCHANGED <<files, mem, cur, head, recLock, procLock, calls>>
    BY <1>6, Zenon DEF CancelOverflow
  <2>2. listed \in Copies /\ picked \in SUBSET Runs
    <3>1. Listed \in SUBSET Runs /\ run \in [Runs -> Run]
      BY ListedRuns, Zenon DEF DataTyped
    <3>2. picked \in SUBSET Runs
      BY <3>1, Zenon DEF Overflow
    <3> QED BY <3>1, <3>2, Lists, Zenon
  <2> HIDE DEF listed, picked
  <2>3. list' \in [Threads -> Copies] /\ todo' \in [Threads -> SUBSET Runs]
    BY <2>1, <2>2, Written, Zenon
  <2>4. ControlTyped' /\ Elsewhere(t) /\ Nested(t)' /\ Ready(t)'
    BY <1>4, <2>1, Zenon
  <2> QED BY <2>1, <2>3, <2>4, Zenon DEF DataTyped, Keeps
<1> QED BY <1>5, <1>6, Zenon

\* The loop over the picked runs.
LEMMA DrainKeeps ==
  ASSUME DataTyped, ControlTyped, ControlInv, NEW t \in Threads, Drain(t)
  PROVE  Keeps(t)
<1> USE DEF KeepLocks, files, locals, At
<1>1. pc[t] = "drain" /\ Nested(t) /\ Ready(t) /\ pc[t] \notin Ends
  BY Zenon DEF Drain, ControlInv, Ends
<1>2. PICK a \in {"overflow", "snapshot"} : \E b \in Ends : Behind(t) = {a, b}
  BY <1>1, Standing, Zenon
<1>3. PICK b \in Ends : Behind(t) = {a, b}
  BY <1>2, Zenon
<1>4. recLock = t /\ Behind(t) \cap {"approvals", "write_copy"} = {}
  <2>1. recLock = t
    BY <1>1, Zenon DEF Ready, Ahead, Reconciling
  <2> QED BY <1>3, <2>1, Zenon DEF Ends
<1>5. UNCHANGED <<files, mem, list, head, recLock, procLock, calls>>
  BY Zenon DEF Drain
<1>6. CASE todo[t] = {}
  <2>1. Return(t) /\ UNCHANGED <<cur, todo>>
    BY <1>6, Zenon DEF Drain
  <2>2. PICK c \in {"overflow", "snapshot"} : \E rest : Arrives(t, c, rest) /\ Behind(t) = {c} \cup rest
    BY <1>1, <2>1, Returns, Zenon
  <2>3. PICK rest : Arrives(t, c, rest) /\ Behind(t) = {c} \cup rest
    BY <2>2, Zenon
  <2>4. c \notin Cancelling \cup Starting \cup {"write_copy", "create_write", "cancel_write", "begin", "finish", "save_result", "start_return"}
    BY Zenon DEF Cancelling, Starting
  <2>5. ControlTyped' /\ Elsewhere(t) /\ Nested(t)' /\ Ready(t)'
    BY <1>4, <1>5, <2>3, <2>4, ReadyThere, Zenon
  <2> QED BY <1>5, <2>1, <2>5, Zenon DEF DataTyped, Keeps
<1>7. CASE todo[t] # {}
  <2> DEFINE r == Min(todo[t])
  <2>1. /\ cur' = [cur EXCEPT ![t] = r] /\ todo' = [todo EXCEPT ![t] = todo[t] \ {r}]
        /\ Then(t, <<"cancel", "drain">>)
    BY <1>7 DEF Drain
  <2>2. r \in Runs /\ todo[t] \ {r} \in SUBSET Runs
    <3>1. todo[t] \in SUBSET Runs
      BY Writes, Zenon
    <3>2. r \in todo[t]
      BY <1>7, <3>1, Oldest, Zenon
    <3> QED BY <3>1, <3>2, Zenon
  <2> HIDE DEF r
  <2>3. /\ cur' \in [Threads -> Runs \cup {NoRun}] /\ cur'[t] \in Runs
        /\ todo' \in [Threads -> SUBSET Runs]
    <3>1. cur' \in [Threads -> Runs \cup {NoRun}] /\ cur'[t] = r
      BY <2>1, <2>2, Written, Zenon
    <3>2. todo' \in [Threads -> SUBSET Runs]
      <4>1. todo' = [todo EXCEPT ![t] = todo[t] \ {r}]
        BY <2>1, Zenon
      <4>2. todo[t] \ {r} \in SUBSET Runs
        BY <2>2, Zenon
      <4> QED BY <4>1, <4>2, Written, Zenon
    <3> QED BY <2>2, <3>1, <3>2, Zenon
  <2>4. Arrives(t, "cancel", {"drain"} \cup Behind(t))
    BY <1>1, <2>1, CallsDeeper, Zenon
  <2>5. ({"cancel"} \cup ({"drain"} \cup Behind(t))) \cap {"approvals", "write_copy"} = {}
    BY <1>4, Zenon
  <2>6. "cancel" \notin {"cancel_write", "begin", "finish", "save_result", "start_return"}
    BY Zenon
  <2>7. ControlTyped' /\ Elsewhere(t) /\ Nested(t)' /\ Ready(t)'
    BY <1>4, <1>5, <2>3, <2>4, <2>5, <2>6, ReadyThere, Zenon
  <2> QED BY <1>5, <2>3, <2>7, Zenon DEF DataTyped, Keeps
<1> QED BY <1>6, <1>7, Zenon

\* The end of reconcile().
LEMMA SnapshotKeeps ==
  ASSUME DataTyped, ControlTyped, ControlInv, NEW t \in Threads, Snapshot(t)
  PROVE  Keeps(t)
<1> USE DEF KeepLocks, files, locals, At
<1>1. pc[t] = "snapshot" /\ pc[t] \in InBody /\ Nested(t) /\ Ready(t) /\ pc[t] \notin Ends
  BY Zenon DEF Snapshot, ControlInv, InBody, Reconciling, Ends
<1> DEFINE next == IF t \in Maintainers /\ Startable # {} THEN CHOOSE r \in Startable : TRUE ELSE NoRun
<1>2. /\ head' = [head EXCEPT ![t] = next] /\ recLock' = NoThread
      /\ list' = [list EXCEPT ![t] = <<>>] /\ cur' = [cur EXCEPT ![t] = NoRun] /\ Return(t)
      /\ UNCHANGED <<files, procLock, mem, todo, calls>>
  BY Zenon DEF Snapshot
<1>3. next \in Runs \cup {NoRun}
  <2>1. Startable \subseteq Runs
    BY ListedRuns, Zenon DEF Startable
  <2> QED BY <2>1, Zenon
<1> HIDE DEF next
<1>4. /\ head' \in [Threads -> Runs \cup {NoRun}] /\ list' \in [Threads -> Copies]
      /\ cur' \in [Threads -> Runs \cup {NoRun}]
  <2>1. NoRun \in Runs \cup {NoRun}
    BY Zenon
  <2>2. head' \in [Threads -> Runs \cup {NoRun}]
    BY <1>2, <1>3, Zenon DEF DataTyped
  <2> QED BY <1>2, <2>1, <2>2, Written, Lists, Zenon
<1>5. PICK a \in Ends : Arrives(t, a, {})
  BY <1>1, <1>2, Returns, Zenon
<1>6. /\ a \notin Cancelling \cup Starting \cup {"write_copy", "create_write", "cancel_write", "begin", "finish", "save_result", "start_return"}
      /\ ({a} \cup {}) \cap ({"approvals", "write_copy"} \cup Reconciling) = {}
  BY Zenon DEF Ends, Cancelling, Starting, Reconciling
<1>7. ControlTyped' /\ Elsewhere(t) /\ Nested(t)' /\ Ready(t)'
  BY <1>5, <1>6, ReadyThere, Zenon
<1> QED BY <1>2, <1>4, <1>7, Zenon DEF DataTyped, Keeps

\* The result of a run, projected onto it.
LEMMA ResultTyped ==
  ASSUME DataTyped, NEW r \in Runs, GetResult(r)
  PROVE  run' \in [Runs -> Run] /\ result' \in [Runs -> BOOLEAN]
<1> DEFINE s == IF result[r] THEN "ended" ELSE run[r].status
<1>1. run' = [run EXCEPT ![r] = [run[r] EXCEPT !.status = s]]
  BY Zenon DEF GetResult
<1>2. run[r] \in Run /\ s \in Pending \cup Active \cup {"ended", "absent"}
  BY RunTyped, Zenon DEF DataTyped
<1> HIDE DEF s
<1>3. [run[r] EXCEPT !.status = s] \in Run
  BY <1>2, Zenon DEF Run
<1>4. run' \in [Runs -> Run]
  BY <1>1, <1>3, Zenon DEF DataTyped
<1>5. result' \in [Runs -> BOOLEAN]
  BY Zenon DEF GetResult, DataTyped
<1> QED BY <1>4, <1>5, Zenon

\* The steps of start().
LEMMA StartKeeps ==
  ASSUME DataTyped, ControlTyped, ControlInv, NEW t \in Threads, StartStep(t)
  PROVE  Keeps(t)
<1> USE DEF KeepLocks, files, locals, At
<1>1. /\ pc[t] \in Starting /\ cur[t] \in Runs /\ Nested(t) /\ Ready(t) /\ pc[t] \notin Ends
      /\ run[cur[t]] \in Run /\ mem[t] \in Run
  <2>1. pc[t] \in Starting
    BY Zenon DEF StartStep, StartRead, StartTest, Begin, FinishRun, SaveResult, StartReturn, Starting
  <2>2. Nested(t) /\ Ready(t) /\ pc[t] \notin Ends
    BY <2>1, LabelsApart, Zenon DEF ControlInv
  <2> QED BY <2>1, <2>2, Writes, Zenon DEF Ready
<1>2. Behind(t) \subseteq Ends \cup {"reconcile"}
  BY <1>1, Standing, Zenon
<1>3. ASSUME NEW label \in Starting, Goto(t, label), cur' = cur,
             label \notin {"start", "start_test"} => mem'[t].status \notin Pending
      PROVE  ControlTyped' /\ Elsewhere(t) /\ Nested(t)' /\ Ready(t)'
  <2>1. Arrives(t, label, Behind(t))
    BY <1>1, <1>3, GoesOn, Zenon
  <2>2. ({label} \cup Behind(t)) \cap ({"approvals", "write_copy"} \cup Reconciling) = {}
    BY <1>2, Zenon DEF Starting, Ends, Reconciling
  <2> QED BY <1>1, <1>3, <2>1, <2>2, ReadyThere, Zenon
<1>4. {"start_test", "begin", "finish", "save_result", "start_return"} \subseteq Starting
  BY Zenon DEF Starting
<1>5. \A s \in {"ended", "running"} :
        /\ [mem[t] EXCEPT !.status = s] \in Run /\ [mem[t] EXCEPT !.status = s].status \notin Pending
        /\ [run[cur[t]] EXCEPT !.status = s] \in Run
  <2>1. \A s \in {"ended", "running"} : s \in Pending \cup Active \cup {"ended"} /\ s \notin Pending
    BY Zenon DEF Pending, Active
  <2>2. ASSUME NEW c \in Run, NEW s \in {"ended", "running"}
        PROVE  [c EXCEPT !.status = s] \in Run /\ [c EXCEPT !.status = s].status \notin Pending
    <3>1. [c EXCEPT !.status = s] \in Run /\ [c EXCEPT !.status = s].status = s
      BY <2>1, RunTyped, Zenon
    <3> QED BY <2>1, <3>1, Zenon
  <2> QED BY <1>1, <2>2, Zenon
<1>6. CASE StartRead(t)
  <2>1. /\ mem' = [mem EXCEPT ![t] = run[cur[t]]] /\ Goto(t, "start_test")
        /\ UNCHANGED <<files, cur, list, todo, head, recLock, procLock, calls>>
    BY <1>6, Zenon DEF StartRead
  <2>2. mem' \in [Threads -> Run]
    BY <1>1, <2>1, Written, Zenon
  <2>3. ControlTyped' /\ Elsewhere(t) /\ Nested(t)' /\ Ready(t)'
    BY <1>3, <1>4, <2>1, Zenon
  <2> QED BY <2>1, <2>2, <2>3, Zenon DEF DataTyped, Keeps
<1>7. CASE StartTest(t)
  <2>1. /\ \/ mem[t].status \notin Pending /\ Goto(t, "start_return") /\ mem' = mem
           \/ mem' = [mem EXCEPT ![t] = [mem[t] EXCEPT !.status = "ended"]] /\ Goto(t, "finish")
           \/ mem' = [mem EXCEPT ![t] = [mem[t] EXCEPT !.status = "running"]] /\ Goto(t, "begin")
        /\ GetResult(cur[t])
        /\ UNCHANGED <<approval, old, cur, list, todo, head, recLock, procLock, calls>>
    BY <1>7, Zenon DEF StartTest
  <2>2. run' \in [Runs -> Run] /\ result' \in [Runs -> BOOLEAN]
    BY <1>1, <2>1, ResultTyped, Zenon
  <2>3. CASE mem[t].status \notin Pending /\ Goto(t, "start_return") /\ mem' = mem
    <3>1. ControlTyped' /\ Elsewhere(t) /\ Nested(t)' /\ Ready(t)'
      BY <1>3, <1>4, <2>1, <2>3, Zenon
    <3> QED BY <2>1, <2>2, <2>3, <3>1, Zenon DEF DataTyped, Keeps
  <2>4. ASSUME NEW s \in {"ended", "running"}, NEW label \in {"finish", "begin"}, Goto(t, label),
               mem' = [mem EXCEPT ![t] = [mem[t] EXCEPT !.status = s]]
        PROVE  Keeps(t)
    <3> DEFINE c == [mem[t] EXCEPT !.status = s]
    <3>1. c \in Run /\ c.status \notin Pending /\ mem' = [mem EXCEPT ![t] = c]
      BY <1>5, <2>4, Zenon
    <3> HIDE DEF c
    <3>2. mem' \in [Threads -> Run] /\ mem'[t].status \notin Pending
      BY <3>1, Written, Zenon
    <3>3. ControlTyped' /\ Elsewhere(t) /\ Nested(t)' /\ Ready(t)'
      BY <1>3, <1>4, <2>1, <2>4, <3>2, Zenon
    <3> QED BY <2>1, <2>2, <3>2, <3>3, Zenon DEF DataTyped, Keeps
  <2> QED BY <2>1, <2>3, <2>4, Zenon
<1>8. CASE Begin(t)
  <2> DEFINE c == [mem[t] EXCEPT !.status = "ended"]
  <2>1. /\ run' = [run EXCEPT ![cur[t]] = mem[t]] /\ mem' = [mem EXCEPT ![t] = c] /\ Goto(t, "finish")
        /\ UNCHANGED <<result, approval, old, cur, list, todo, head, recLock, procLock, calls>>
    BY <1>8, Zenon DEF Begin
  <2>2. c \in Run /\ c.status \notin Pending
    BY <1>5, Zenon
  <2> HIDE DEF c
  <2>3. mem' \in [Threads -> Run] /\ mem'[t] = c
    BY <2>1, <2>2, Written, Zenon
  <2>4. run' \in [Runs -> Run]
    BY <1>1, <2>1, Written, Zenon
  <2>5. ControlTyped' /\ Elsewhere(t) /\ Nested(t)' /\ Ready(t)'
    BY <1>3, <1>4, <2>1, <2>2, <2>3, Zenon
  <2> QED BY <2>1, <2>3, <2>4, <2>5, Zenon DEF DataTyped, Keeps
<1>9. CASE FinishRun(t)
  <2>1. /\ run' = [run EXCEPT ![cur[t]] = mem[t]] /\ Goto(t, "save_result") /\ pc[t] = "finish"
        /\ UNCHANGED <<result, approval, old, mem, cur, list, todo, head, recLock, procLock, calls>>
    BY <1>9, Zenon DEF FinishRun
  <2>2. run' \in [Runs -> Run] /\ mem[t].status \notin Pending
    BY <1>1, <2>1, Written, Zenon DEF Ready
  <2>3. ControlTyped' /\ Elsewhere(t) /\ Nested(t)' /\ Ready(t)'
    BY <1>3, <1>4, <2>1, <2>2, Zenon
  <2> QED BY <2>1, <2>2, <2>3, Zenon DEF DataTyped, Keeps
<1>10. CASE SaveResult(t)
  <2> DEFINE c == [run[cur[t]] EXCEPT !.status = "ended"]
  <2>1. /\ run' = [run EXCEPT ![cur[t]] = c] /\ result' = [result EXCEPT ![cur[t]] = TRUE]
        /\ Goto(t, "start_return") /\ pc[t] = "save_result"
        /\ UNCHANGED <<approval, old, mem, cur, list, todo, head, recLock, procLock, calls>>
    BY <1>10, Zenon DEF SaveResult
  <2>2. c \in Run
    BY <1>5, Zenon
  <2> HIDE DEF c
  <2>3. run' \in [Runs -> Run] /\ mem[t].status \notin Pending
    BY <1>1, <2>1, <2>2, Written, Zenon DEF Ready
  <2>4. result' \in [Runs -> BOOLEAN]
    BY <2>1, Zenon DEF DataTyped
  <2>5. ControlTyped' /\ Elsewhere(t) /\ Nested(t)' /\ Ready(t)'
    BY <1>3, <1>4, <2>1, <2>3, Zenon
  <2> QED BY <2>1, <2>3, <2>4, <2>5, Zenon DEF DataTyped, Keeps
<1>11. CASE StartReturn(t)
  <2>1. /\ run' = [run EXCEPT ![cur[t]] = mem[t]] /\ mem' = [mem EXCEPT ![t] = Absent]
        /\ cur' = [cur EXCEPT ![t] = NoRun] /\ Return(t)
        /\ UNCHANGED <<result, approval, old, list, todo, head, recLock, procLock, calls>>
    BY <1>11, Zenon DEF StartReturn
  <2>2. PICK a \in Ends \cup {"reconcile"} : \E rest : Arrives(t, a, rest) /\ Behind(t) = {a} \cup rest
    BY <1>1, <2>1, Returns, Zenon
  <2>3. PICK rest : Arrives(t, a, rest) /\ Behind(t) = {a} \cup rest
    BY <2>2, Zenon
  <2>4. /\ a \notin Cancelling \cup Starting \cup {"write_copy", "create_write", "cancel_write", "begin", "finish", "save_result", "start_return"}
        /\ ({a} \cup rest) \cap ({"approvals", "write_copy"} \cup Reconciling) = {}
    BY <1>2, <2>3, Zenon DEF Ends, Cancelling, Starting, Reconciling
  <2>5. ControlTyped' /\ Elsewhere(t) /\ Nested(t)' /\ Ready(t)'
    BY <2>3, <2>4, ReadyThere, Zenon
  <2>6. NoRun \in Runs \cup {NoRun} /\ Absent \in Run
    BY RunTyped, Zenon
  <2>7. run' \in [Runs -> Run] /\ mem' \in [Threads -> Run] /\ cur' \in [Threads -> Runs \cup {NoRun}]
    BY <1>1, <2>1, <2>6, Written, Zenon
  <2> QED BY <2>1, <2>5, <2>7, Zenon DEF DataTyped, Keeps
<1> QED BY <1>6, <1>7, <1>8, <1>9, <1>10, <1>11, Zenon DEF StartStep

\* The steps of process_queue().
LEMMA ProcessKeeps ==
  ASSUME DataTyped, ControlTyped, ControlInv, NEW t \in Threads,
         \/ t \in Maintainers /\ ProcessQueue(t)
         \/ Decide(t) \/ ProcessDone(t)
  PROVE  Keeps(t)
<1> USE DEF KeepLocks, files, locals, At
<1>1. pc[t] \in Ends /\ Nested(t) /\ {"idle", "decide", "process_done"} \subseteq Ends
  BY Zenon DEF ProcessQueue, Decide, ProcessDone, ControlInv, Ends
<1>2. Behind(t) = {}
  BY <1>1, Standing, Zenon
<1>3. ASSUME NEW label \in Ends, Goto(t, label)
      PROVE  ControlTyped' /\ Elsewhere(t) /\ Nested(t)' /\ Ready(t)'
  <2>1. Arrives(t, label, {})
    BY <1>1, <1>2, <1>3, GoesOn, Zenon
  <2>2. /\ label \notin Cancelling \cup Starting \cup {"write_copy", "create_write", "cancel_write", "begin", "finish", "save_result", "start_return"}
        /\ ({label} \cup {}) \cap ({"approvals", "write_copy"} \cup Reconciling) = {}
    BY Zenon DEF Ends, Cancelling, Starting, Reconciling
  <2> QED BY <2>1, <2>2, ReadyThere, Zenon
<1>4. NoRun \in Runs \cup {NoRun}
  BY Zenon
<1>5. CASE t \in Maintainers /\ ProcessQueue(t)
  <2>1. /\ procLock' = t /\ Then(t, <<"reconcile", "decide">>)
        /\ UNCHANGED <<files, recLock, locals, calls>>
    BY <1>5, Zenon DEF ProcessQueue
  <2>2. Arrives(t, "reconcile", {"decide"})
    BY <1>1, <2>1, BeginsCall, Zenon
  <2>3. /\ "reconcile" \notin Cancelling \cup Starting \cup {"write_copy", "create_write", "cancel_write", "begin", "finish", "save_result", "start_return"}
        /\ ({"reconcile"} \cup {"decide"}) \cap ({"approvals", "write_copy"} \cup Reconciling) = {}
    BY Zenon DEF Cancelling, Starting, Reconciling
  <2>4. ControlTyped' /\ Elsewhere(t) /\ Nested(t)' /\ Ready(t)'
    BY <2>2, <2>3, ReadyThere, Zenon
  <2> QED BY <1>5, <2>1, <2>4, Zenon DEF DataTyped, Keeps
<1>6. CASE Decide(t)
  <2>1. /\ head' = [head EXCEPT ![t] = NoRun]
        /\ UNCHANGED <<files, mem, list, todo, recLock, procLock, calls>>
    BY <1>6, Zenon DEF Decide
  <2>2. head' \in [Threads -> Runs \cup {NoRun}]
    BY <1>4, <2>1, Zenon DEF DataTyped
  <2>3. CASE head[t] # NoRun /\ run[head[t]].status \in Pending
    <3>1. cur' = [cur EXCEPT ![t] = head[t]] /\ Then(t, <<"start", "reconcile", "process_done">>)
      BY <1>6, <2>3, Zenon DEF Decide
    <3>2. head[t] \in Runs
      BY <2>3, Zenon DEF DataTyped
    <3>3. cur' \in [Threads -> Runs \cup {NoRun}] /\ cur'[t] \in Runs
      BY <3>1, <3>2, Written, Zenon
    <3>4. Arrives(t, "start", {"reconcile", "process_done"})
      BY <1>1, <3>1, BeginsCall, Zenon
    <3>5. /\ "start" \notin {"cancel_write", "begin", "finish", "save_result", "start_return"}
          /\ ({"start"} \cup {"reconcile", "process_done"}) \cap ({"approvals", "write_copy"} \cup Reconciling) = {}
      BY Zenon DEF Reconciling
    <3>6. ControlTyped' /\ Elsewhere(t) /\ Nested(t)' /\ Ready(t)'
      BY <3>3, <3>4, <3>5, ReadyThere, Zenon
    <3> QED BY <2>1, <2>2, <3>3, <3>6, Zenon DEF DataTyped, Keeps
  <2>4. CASE ~(head[t] # NoRun /\ run[head[t]].status \in Pending)
    <3>1. Goto(t, "process_done") /\ UNCHANGED cur
      BY <1>6, <2>4, Zenon DEF Decide
    <3>2. ControlTyped' /\ Elsewhere(t) /\ Nested(t)' /\ Ready(t)'
      BY <1>1, <1>3, <3>1, Zenon
    <3> QED BY <2>1, <2>2, <3>1, <3>2, Zenon DEF DataTyped, Keeps
  <2> QED BY <2>3, <2>4, Zenon
<1>7. CASE ProcessDone(t)
  <2>1. /\ procLock' = NoThread /\ head' = [head EXCEPT ![t] = NoRun] /\ Goto(t, "idle")
        /\ UNCHANGED <<files, recLock, mem, cur, list, todo, calls>>
    BY <1>7, Zenon DEF ProcessDone
  <2>2. head' \in [Threads -> Runs \cup {NoRun}]
    BY <1>4, <2>1, Zenon DEF DataTyped
  <2>3. ControlTyped' /\ Elsewhere(t) /\ Nested(t)' /\ Ready(t)'
    BY <1>1, <1>3, <2>1, Zenon
  <2> QED BY <2>1, <2>2, <2>3, Zenon DEF DataTyped, Keeps
<1> QED BY <1>5, <1>6, <1>7, Zenon

\* The calls of the clients.
LEMMA ClientKeeps ==
  ASSUME DataTyped, ControlTyped, ControlInv, NEW t \in Threads,
         Create(t) \/ Start(t) \/ Cancel(t)
  PROVE  Keeps(t)
<1> USE DEF KeepLocks, files, locals, At
<1>1. ASSUME NEW r \in Runs, NEW label \in {"create_write", "start", "cancel"}, NEW behind, NEW labels,
             Call(t, r, labels),
             pc[t] \in Ends /\ Nested(t) /\ Then(t, labels) => Arrives(t, label, behind),
             behind \subseteq Ends \cup {"reconcile"}
      PROVE  /\ ControlTyped' /\ Elsewhere(t) /\ Nested(t)' /\ Ready(t)'
             /\ cur' \in [Threads -> Runs \cup {NoRun}] /\ calls' \in 0..MaxCalls
             /\ UNCHANGED <<result, old, recLock, procLock, list, todo, head>>
  <2>1. /\ pc[t] = "idle" /\ calls < MaxCalls /\ calls' = calls + 1 /\ cur' = [cur EXCEPT ![t] = r]
        /\ Then(t, labels) /\ UNCHANGED <<result, old, recLock, procLock, list, todo, head>>
    BY <1>1, Zenon DEF Call
  <2>2. calls' \in 0..MaxCalls
    <3>1. calls \in 0..MaxCalls /\ MaxCalls \in Nat
      BY BoundAssumption, Zenon DEF DataTyped
    <3> QED BY <2>1, <3>1
  <2>3. cur' \in [Threads -> Runs \cup {NoRun}] /\ cur'[t] \in Runs
    BY <2>1, Written, Zenon
  <2>4. Arrives(t, label, behind)
    BY <1>1, <2>1, Zenon DEF Ends, ControlInv
  <2>5. /\ label \notin {"cancel_write", "begin", "finish", "save_result", "start_return"}
        /\ ({label} \cup behind) \cap ({"approvals", "write_copy"} \cup Reconciling) = {}
    BY <1>1, Zenon DEF Reconciling, Ends
  <2>6. ControlTyped' /\ Elsewhere(t) /\ Nested(t)' /\ Ready(t)'
    BY <2>3, <2>4, <2>5, ReadyThere, Zenon
  <2> QED BY <2>1, <2>2, <2>3, <2>6, Zenon
<1>2. "idle" \in Ends
  BY Zenon DEF Ends
<1>3. CASE Create(t)
  <2>1. PICK r \in Runs, auto \in BOOLEAN :
          /\ run' = [run EXCEPT ![r] = [status |-> "created", auto |-> auto]]
          /\ approval' = [approval EXCEPT ![r] = IF r \in Governed THEN "pending" ELSE "none"]
          /\ mem' = [mem EXCEPT ![t] = run'[r]]
          /\ Call(t, r, <<"create_write", "reconcile", "idle">>)
    BY <1>3, Zenon DEF Create
  <2>2. [status |-> "created", auto |-> auto] \in Run
    BY RunTyped, Zenon
  <2>3. run' \in [Runs -> Run]
    BY <2>1, <2>2, Written, Zenon
  <2>4. mem' \in [Threads -> Run]
    <3>1. run'[r] \in Run
      BY <2>3, Zenon
    <3> QED BY <2>1, <3>1, Zenon DEF DataTyped
  <2>5. approval' \in [Runs -> Approvals]
    BY <2>1, Zenon DEF DataTyped, Approvals
  <2>6. pc[t] \in Ends /\ Nested(t) /\ Then(t, <<"create_write", "reconcile", "idle">>)
          => Arrives(t, "create_write", {"reconcile", "idle"})
    BY <1>2, BeginsCall, Zenon
  <2>7. /\ ControlTyped' /\ Elsewhere(t) /\ Nested(t)' /\ Ready(t)'
        /\ cur' \in [Threads -> Runs \cup {NoRun}] /\ calls' \in 0..MaxCalls
        /\ UNCHANGED <<result, old, recLock, procLock, list, todo, head>>
    BY <1>1, <1>2, <2>1, <2>6, Zenon
  <2> QED BY <2>3, <2>4, <2>5, <2>7, Zenon DEF DataTyped, Keeps
<1>4. CASE Start(t)
  <2>1. PICK r \in Runs : Call(t, r, <<"start", "idle">>) /\ UNCHANGED <<run, approval, mem>>
    BY <1>4, Zenon DEF Start
  <2>2. pc[t] \in Ends /\ Nested(t) /\ Then(t, <<"start", "idle">>) => Arrives(t, "start", {"idle"})
    BY <1>2, BeginsCall, Zenon
  <2>3. /\ ControlTyped' /\ Elsewhere(t) /\ Nested(t)' /\ Ready(t)'
        /\ cur' \in [Threads -> Runs \cup {NoRun}] /\ calls' \in 0..MaxCalls
        /\ UNCHANGED <<result, old, recLock, procLock, list, todo, head>>
    BY <1>1, <1>2, <2>1, <2>2, Zenon
  <2> QED BY <2>1, <2>3, Zenon DEF DataTyped, Keeps
<1>5. CASE Cancel(t)
  <2>1. PICK r \in Runs : Call(t, r, <<"cancel", "reconcile", "idle">>) /\ UNCHANGED <<run, approval, mem>>
    BY <1>5, Zenon DEF Cancel
  <2>2. pc[t] \in Ends /\ Nested(t) /\ Then(t, <<"cancel", "reconcile", "idle">>)
          => Arrives(t, "cancel", {"reconcile", "idle"})
    BY <1>2, BeginsCall, Zenon
  <2>3. /\ ControlTyped' /\ Elsewhere(t) /\ Nested(t)' /\ Ready(t)'
        /\ cur' \in [Threads -> Runs \cup {NoRun}] /\ calls' \in 0..MaxCalls
        /\ UNCHANGED <<result, old, recLock, procLock, list, todo, head>>
    BY <1>1, <1>2, <2>1, <2>2, Zenon
  <2> QED BY <2>1, <2>3, Zenon DEF DataTyped, Keeps
<1> QED BY <1>3, <1>4, <1>5, Zenon

\* The second write of create_run().
LEMMA CreateKeeps ==
  ASSUME DataTyped, ControlTyped, ControlInv, NEW t \in Threads, CreateWrite(t)
  PROVE  Keeps(t)
<1> USE DEF KeepLocks, files, locals, At
<1>1. pc[t] = "create_write" /\ pc[t] \notin Ends /\ Nested(t) /\ Ready(t) /\ cur[t] \in Runs
  BY Zenon DEF CreateWrite, ControlInv, Ready, Ends
<1>2. \/ run' = run
      \/ \E s \in {"ended", "waiting_input", "queued", "created"} :
           run' = [run EXCEPT ![cur[t]] = [mem[t] EXCEPT !.status = s]]
  BY Zenon DEF CreateWrite
<1>3. /\ mem' = [mem EXCEPT ![t] = Absent] /\ Return(t)
      /\ UNCHANGED <<result, approval, old, cur, list, todo, head, recLock, procLock, calls>>
  BY Zenon DEF CreateWrite
<1>4. \A s \in {"ended", "waiting_input", "queued", "created"} : [mem[t] EXCEPT !.status = s] \in Run
  <2>1. mem[t] \in Run
    BY Writes, Zenon
  <2> QED BY <2>1, RunTyped, Zenon
<1>5. run' \in [Runs -> Run]
  <2>1. ASSUME NEW s \in {"ended", "waiting_input", "queued", "created"},
               run' = [run EXCEPT ![cur[t]] = [mem[t] EXCEPT !.status = s]]
        PROVE  run' \in [Runs -> Run]
    BY <1>1, <1>4, <2>1, Zenon DEF DataTyped
  <2> QED BY <1>2, <2>1, Zenon DEF DataTyped
<1>6. mem' \in [Threads -> Run]
  BY <1>3, RunTyped, Written, Zenon
<1>7. PICK rest : Arrives(t, "reconcile", rest) /\ rest \subseteq Ends
  BY <1>1, <1>3, Returns, Zenon
<1>8. /\ "reconcile" \notin Cancelling \cup Starting \cup {"write_copy", "create_write", "cancel_write", "begin", "finish", "save_result", "start_return"}
      /\ ({"reconcile"} \cup rest) \cap ({"approvals", "write_copy"} \cup Reconciling) = {}
  BY <1>7, Zenon DEF Ends, Cancelling, Starting, Reconciling
<1>9. ControlTyped' /\ Elsewhere(t) /\ Nested(t)' /\ Ready(t)'
  BY <1>7, <1>8, ReadyThere, Zenon
<1> QED BY <1>3, <1>5, <1>6, <1>9, Zenon DEF DataTyped, Keeps

----------------------------------------------------------------------------
(* The other threads, and type correctness.                                *)

\* The steps of a thread.
Step(t) == \/ t \in Maintainers /\ ProcessQueue(t)
           \/ Create(t) \/ Start(t) \/ Cancel(t) \/ Continue(t)

\* A thread keeps to its own locals, and takes the lock from no other.
Private(t) ==
  \A u \in Threads \ {t} :
    /\ mem'[u] = mem[u] /\ cur'[u] = cur[u] /\ list'[u] = list[u] /\ todo'[u] = todo[u]
    /\ recLock = u => recLock' = u

\* Every step of a thread keeps the types and its control.
LEMMA StepKeeps ==
  ASSUME DataTyped, ControlTyped, ControlInv, NEW t \in Threads, Step(t)
  PROVE  Keeps(t)
<1>1. CancelStep(t) => Keeps(t)
  BY CancelKeeps, Zenon
<1>2. ReconcileStep(t) => Keeps(t)
  BY ListKeeps, ApprovalKeeps, StallKeeps, PickKeeps, DrainKeeps, SnapshotKeeps, Zenon DEF ReconcileStep
<1>3. StartStep(t) => Keeps(t)
  BY StartKeeps, Zenon
<1>4. (t \in Maintainers /\ ProcessQueue(t)) \/ Decide(t) \/ ProcessDone(t) => Keeps(t)
  BY ProcessKeeps, Zenon
<1>5. Create(t) \/ Start(t) \/ Cancel(t) \/ CreateWrite(t) => Keeps(t)
  BY ClientKeeps, CreateKeeps, Zenon
<1> QED BY <1>1, <1>2, <1>3, <1>4, <1>5, Zenon DEF Step, Continue

\* Every step of a thread leaves the others alone.
LEMMA StepPrivate ==
  ASSUME DataTyped, ControlInv, NEW t \in Threads, Step(t)
  PROVE  Private(t)
<1> USE DEF KeepLocks, files, locals, At
<1>1. /\ mem \in [Threads -> Run] /\ cur \in [Threads -> Runs \cup {NoRun}]
      /\ list \in [Threads -> Copies] /\ todo \in [Threads -> SUBSET Runs]
  BY Zenon DEF DataTyped
<1>2. ASSUME \/ mem' = mem \/ \E c : mem' = [mem EXCEPT ![t] = c],
             \/ cur' = cur \/ \E r : cur' = [cur EXCEPT ![t] = r],
             \/ list' = list \/ \E l : list' = [list EXCEPT ![t] = l],
             \/ todo' = todo \/ \E S : todo' = [todo EXCEPT ![t] = S],
             recLock' = recLock \/ recLock = NoThread \/ recLock = t
      PROVE  Private(t)
  <2>1. \A u \in Threads \ {t} : mem'[u] = mem[u]
    BY <1>1, <1>2, Zenon
  <2>2. \A u \in Threads \ {t} : cur'[u] = cur[u]
    BY <1>1, <1>2, Zenon
  <2>3. \A u \in Threads \ {t} : list'[u] = list[u]
    BY <1>1, <1>2, Zenon
  <2>4. \A u \in Threads \ {t} : todo'[u] = todo[u]
    BY <1>1, <1>2, Zenon
  <2>5. \A u \in Threads \ {t} : recLock = u => recLock' = u
    BY <1>2, ThreadAssumption, Zenon DEF Threads
  <2> QED BY <2>1, <2>2, <2>3, <2>4, <2>5, Zenon DEF Private
<1>3. CancelStep(t) => Private(t)
  <2>1. CancelRead(t) => Private(t)
    <3> HAVE CancelRead(t)
    <3>1. \/ mem' = mem \/ \E c : mem' = [mem EXCEPT ![t] = c]
      BY Zenon DEF CancelRead
    <3>2. \/ cur' = cur \/ \E r : cur' = [cur EXCEPT ![t] = r]
      BY Zenon DEF CancelRead
    <3>3. list' = list /\ todo' = todo /\ recLock' = recLock
      BY Zenon DEF CancelRead
    <3> QED BY <1>2, <3>1, <3>2, <3>3, Zenon
  <2>2. CancelWrite(t) => Private(t)
    BY <1>2, Zenon DEF CancelWrite
  <2>3. CancelApproval(t) => Private(t)
    BY <1>2, Zenon DEF CancelApproval
  <2> QED BY <2>1, <2>2, <2>3, Zenon DEF CancelStep
<1>4. ReconcileStep(t) => Private(t)
  <2>1. ReconcileList(t) => Private(t)
    BY <1>2, Zenon DEF ReconcileList
  <2>2. ReadApproval(t) => Private(t)
    <3> HAVE ReadApproval(t)
    <3> DEFINE r == Max(todo[t])
    <3> DEFINE new == ApprovalOutcome(list[t][r], approval[r])
    <3>1. /\ \/ cur' = [cur EXCEPT ![t] = r] /\ UNCHANGED <<mem, list>>
             \/ UNCHANGED <<cur, mem, list>>
             \/ /\ cur' = [cur EXCEPT ![t] = r] /\ mem' = [mem EXCEPT ![t] = new]
                /\ list' = [list EXCEPT ![t] = [list[t] EXCEPT ![r] = new]]
          /\ todo' = [todo EXCEPT ![t] = todo[t] \ {r}] /\ recLock' = recLock
      BY DEF ReadApproval
    <3> HIDE DEF r, new
    <3> QED BY <1>2, <3>1, Zenon
  <2>3. WriteCopy(t) => Private(t)
    BY <1>2, Zenon DEF WriteCopy
  <2>4. StallGaps(t) => Private(t)
    <3> HAVE StallGaps(t)
    <3>1. list' = [list EXCEPT ![t] = <<>>] /\ UNCHANGED <<mem, cur, todo, recLock>>
      BY Zenon DEF StallGaps
    <3> QED BY <1>2, <3>1, Zenon
  <2>5. Expire(t) \/ CancelOverflow(t) => Private(t)
    BY <1>2, Zenon DEF Expire, CancelOverflow
  <2>6. Drain(t) => Private(t)
    BY <1>2, Zenon DEF Drain
  <2>7. Snapshot(t) => Private(t)
    <3> HAVE Snapshot(t)
    <3>1. recLock = t
      BY Zenon DEF Snapshot, ControlInv, Ready, Ahead, Reconciling
    <3>2. list' = [list EXCEPT ![t] = <<>>] /\ cur' = [cur EXCEPT ![t] = NoRun] /\ UNCHANGED <<mem, todo>>
      BY Zenon DEF Snapshot
    <3> QED BY <1>2, <3>1, <3>2, Zenon
  <2> QED BY <2>1, <2>2, <2>3, <2>4, <2>5, <2>6, <2>7, Zenon DEF ReconcileStep
<1>5. StartStep(t) => Private(t)
  <2>1. StartRead(t) => Private(t)
    BY <1>2, Zenon DEF StartRead
  <2>2. StartTest(t) => Private(t)
    <3> HAVE StartTest(t)
    <3>1. \/ mem' = mem
          \/ mem' = [mem EXCEPT ![t] = [mem[t] EXCEPT !.status = "ended"]]
          \/ mem' = [mem EXCEPT ![t] = [mem[t] EXCEPT !.status = "running"]]
      BY Zenon DEF StartTest
    <3>2. UNCHANGED <<cur, list, todo, recLock>>
      BY Zenon DEF StartTest
    <3> QED BY <1>2, <3>1, <3>2, Zenon
  <2>3. Begin(t) => Private(t)
    <3> HAVE Begin(t)
    <3>1. mem' = [mem EXCEPT ![t] = [mem[t] EXCEPT !.status = "ended"]] /\ UNCHANGED <<cur, list, todo, recLock>>
      BY Zenon DEF Begin
    <3> QED BY <1>2, <3>1, Zenon
  <2>4. FinishRun(t) \/ SaveResult(t) => Private(t)
    BY <1>2, Zenon DEF FinishRun, SaveResult
  <2>5. StartReturn(t) => Private(t)
    BY <1>2, Zenon DEF StartReturn
  <2> QED BY <2>1, <2>2, <2>3, <2>4, <2>5, Zenon DEF StartStep
<1>6. ProcessQueue(t) \/ Decide(t) \/ ProcessDone(t) => Private(t)
  <2>1. ProcessQueue(t) \/ ProcessDone(t) => Private(t)
    BY <1>2, Zenon DEF ProcessQueue, ProcessDone
  <2>2. Decide(t) => Private(t)
    BY <1>2, Zenon DEF Decide
  <2> QED BY <2>1, <2>2, Zenon
<1>7. Create(t) \/ Start(t) \/ Cancel(t) => Private(t)
  <2> HAVE Create(t) \/ Start(t) \/ Cancel(t)
  <2>1. mem' = mem \/ \E c : mem' = [mem EXCEPT ![t] = c]
    BY Zenon DEF Create, Start, Cancel
  <2>2. \E r, labels : Call(t, r, labels)
    BY Zenon DEF Create, Start, Cancel
  <2>3. (\E r : cur' = [cur EXCEPT ![t] = r]) /\ UNCHANGED <<list, todo, recLock>>
    BY <2>2, Zenon DEF Call
  <2> QED BY <1>2, <2>1, <2>3, Zenon
<1>8. CreateWrite(t) => Private(t)
  <2> HAVE CreateWrite(t)
  <2>1. mem' = [mem EXCEPT ![t] = Absent] /\ UNCHANGED <<cur, list, todo, recLock>>
    BY Zenon DEF CreateWrite
  <2> QED BY <1>2, <2>1, Zenon
<1> QED BY <1>3, <1>4, <1>5, <1>6, <1>7, <1>8, Zenon DEF Step, Continue

\* A step of the environment, or none, changes no control and no local.
LEMMA NoStep ==
  ASSUME DataTyped, ControlTyped, ControlInv,
         (\E r \in Runs : DecideApproval(r) \/ Age(r)) \/ UNCHANGED vars
  PROVE  /\ DataTyped' /\ ControlTyped' /\ ControlInv'
         /\ UNCHANGED <<run, recLock, pc, stack, mem, cur, list, todo>>
<1> USE DEF files, locals
<1>1. UNCHANGED <<run, result, recLock, procLock, pc, stack, mem, cur, list, todo, head, calls>>
  BY Zenon DEF DecideApproval, Age, vars
<1>2. approval' \in [Runs -> Approvals] /\ old' \in [Runs -> BOOLEAN]
  <2>1. ASSUME NEW r \in Runs, DecideApproval(r)
        PROVE  approval' \in [Runs -> Approvals] /\ old' = old
    BY <2>1, Zenon DEF DecideApproval, DataTyped, Approvals
  <2>2. ASSUME NEW r \in Runs, Age(r)
        PROVE  old' \in [Runs -> BOOLEAN] /\ approval' = approval
    BY <2>2, Zenon DEF Age, DataTyped
  <2>3. UNCHANGED vars => approval' = approval /\ old' = old
    BY Zenon DEF vars
  <2> QED BY <2>1, <2>2, <2>3, Zenon DEF DataTyped
<1>3. DataTyped' /\ ControlTyped'
  BY <1>1, <1>2, Zenon DEF DataTyped, ControlTyped
<1>4. ControlInv'
  BY <1>1, Zenon DEF ControlInv, Nested, Ready, Ahead, Behind
<1> QED BY <1>1, <1>3, <1>4, Zenon

\* A step of the queue is one of a thread, or of the environment.
LEMMA NextSteps ==
  ASSUME Next
  PROVE  (\E t \in Threads : Step(t)) \/ \E r \in Runs : DecideApproval(r) \/ Age(r)
BY Zenon DEF Next, Step, Threads

\* The types and the control are inductive.
LEMMA ControlStep ==
  ASSUME DataTyped, ControlTyped, ControlInv, [Next]_vars
  PROVE  DataTyped' /\ ControlTyped' /\ ControlInv'
<1>1. ASSUME NEW t \in Threads, Step(t)
      PROVE  DataTyped' /\ ControlTyped' /\ ControlInv'
  <2>1. Keeps(t) /\ Private(t)
    BY <1>1, StepKeeps, StepPrivate, Zenon
  <2>2. ASSUME NEW u \in Threads \ {t}
        PROVE  Nested(u)' /\ Ready(u)'
    <3>1. /\ pc'[u] = pc[u] /\ stack'[u] = stack[u] /\ mem'[u] = mem[u] /\ cur'[u] = cur[u]
          /\ list'[u] = list[u] /\ todo'[u] = todo[u] /\ (recLock = u => recLock' = u)
      BY <2>1, Zenon DEF Keeps, Elsewhere, Private
    <3>2. Nested(u) /\ Ready(u)
      BY Zenon DEF ControlInv
    <3>3. Nested(u)' /\ Behind(u)' = Behind(u) /\ Ahead(u)' = Ahead(u)
      BY <3>1, <3>2, Zenon DEF Nested, Behind, Ahead
    <3>4. Ready(u)'
      BY <3>1, <3>2, <3>3, Zenon DEF Ready
    <3> QED BY <3>3, <3>4, Zenon
  <2> QED BY <2>1, <2>2, Zenon DEF Keeps, ControlInv
<1> QED BY <1>1, NextSteps, NoStep, Zenon

\* They hold at the start.
LEMMA ControlInit ==
  ASSUME Init
  PROVE  DataTyped /\ ControlTyped /\ ControlInv
<1>1. /\ pc = [t \in Threads |-> "idle"] /\ stack = [t \in Threads |-> <<>>]
      /\ recLock = NoThread /\ procLock = NoThread /\ calls = 0
      /\ mem = [t \in Threads |-> Absent] /\ cur = [t \in Threads |-> NoRun]
      /\ list = [t \in Threads |-> <<>>] /\ todo = [t \in Threads |-> {}]
      /\ head = [t \in Threads |-> NoRun]
  BY Zenon DEF Init
<1>2. ControlTyped
  <2>1. <<>> \in Seq(Labels)
    OBVIOUS
  <2>2. "idle" \in Labels
    BY Zenon DEF Labels
  <2> QED BY <1>1, <2>1, <2>2, Zenon DEF ControlTyped
<1>3. ControlInv
  <2> SUFFICES ASSUME NEW t \in Threads
               PROVE  Nested(t) /\ Ready(t)
    BY Zenon DEF ControlInv
  <2>1. pc[t] = "idle" /\ stack[t] = <<>>
    BY <1>1, Zenon
  <2>2. Nested(t) /\ Ahead(t) = {"idle"}
    BY <2>1, Places, Zenon DEF Nested, NestedOf, Ends, Ahead, Behind
  <2>3. Ready(t)
    BY <2>1, <2>2, Zenon DEF Ready, Cancelling, Starting, Reconciling
  <2> QED BY <2>2, <2>3, Zenon
<1>4. run \in [Runs -> Run]
  <2>1. PICK auto \in [Runs -> BOOLEAN] :
          run = [r \in Runs |->
                   IF r > NFound THEN Absent
                   ELSE [status |-> CASE r \in Governed -> "waiting_input"
                                      [] r \notin Governed /\ auto[r] -> "queued"
                                      [] OTHER -> "created",
                         auto |-> auto[r]]]
    BY Zenon DEF Init
  <2>2. \A r \in Runs, s \in Pending : [status |-> s, auto |-> auto[r]] \in Run
    BY Zenon DEF Run
  <2>3. \A r \in Runs : (CASE r \in Governed -> "waiting_input"
                           [] r \notin Governed /\ auto[r] -> "queued"
                           [] OTHER -> "created") \in Pending
    BY Zenon DEF Pending
  <2> QED BY <2>1, <2>2, <2>3, RunTyped, Zenon
<1>5. /\ result \in [Runs -> BOOLEAN] /\ approval \in [Runs -> Approvals] /\ old \in [Runs -> BOOLEAN]
  BY Zenon DEF Init, Approvals
<1>6. calls \in 0..MaxCalls
  BY <1>1, BoundAssumption
<1>7. /\ mem \in [Threads -> Run] /\ cur \in [Threads -> Runs \cup {NoRun}]
      /\ list \in [Threads -> Copies] /\ todo \in [Threads -> SUBSET Runs]
      /\ head \in [Threads -> Runs \cup {NoRun}]
  <2>1. Absent \in Run /\ <<>> \in Copies
    BY RunTyped, Lists, Zenon
  <2> QED BY <1>1, <2>1, Zenon
<1> QED BY <1>1, <1>2, <1>3, <1>4, <1>5, <1>6, <1>7, Zenon DEF DataTyped

\* TaskQueueService and process_queue() take a run only to the states that
\* the rest of the runtime knows, and a thread always works on runs it has.
THEOREM QueueTypeCorrect == Spec => []TypeOK
<1> DEFINE Inv == DataTyped /\ ControlTyped /\ ControlInv
<1>1. Init => Inv
  BY ControlInit, Zenon
<1>2. Inv /\ [Next]_vars => Inv'
  BY ControlStep, Zenon
<1>3. Inv => TypeOK
  BY TypeHalves, Zenon
<1> QED BY <1>1, <1>2, <1>3, PTL DEF Spec

----------------------------------------------------------------------------
(* The limit.                                                              *)

\* A thread that has a snapshot ahead of it picked the overflow, or is in the
\* loop that cancels what was picked.
LEMMA SnapshotAhead ==
  ASSUME ControlTyped, ControlInv, NEW t \in Threads, Step(t), "snapshot" \in Ahead(t)'
  PROVE  CancelOverflow(t) \/ ("snapshot" \in Behind(t) /\ (Drain(t) \/ CancelStep(t)))
<1> USE DEF KeepLocks, files, locals, At
<1>1. Nested(t) /\ (pc'[t] = "snapshot" \/ "snapshot" \in Behind(t)')
  BY Zenon DEF ControlInv, Ahead
<1>2. pc[t] \notin Cancelling \cup {"drain"} => "snapshot" \notin Behind(t)
  <2>1. pc[t] \in Ends \cup InBody \cup {"create_write"} \cup Starting \cup Cancelling \cup {"drain"}
    BY <1>1, Zenon DEF Nested, NestedOf
  <2>2. "snapshot" \notin Ends \cup {"reconcile"}
    BY Zenon DEF Ends
  <2>3. pc[t] \in Ends \cup InBody => "snapshot" \notin Behind(t)
    BY <1>1, <2>2, Standing, Zenon
  <2>4. pc[t] \in {"create_write"} \cup Starting => "snapshot" \notin Behind(t)
    BY <1>1, <2>2, Standing, Zenon
  <2> QED BY <2>1, <2>3, <2>4, Zenon
<1>3. ASSUME NEW label, Goto(t, label), label # "snapshot"
      PROVE  "snapshot" \in Behind(t)
  <2>1. pc'[t] = label /\ stack' = stack
    BY <1>3, Zenon DEF Goto, ControlTyped
  <2> QED BY <1>1, <1>3, <2>1, Zenon DEF Behind
<1>4. Return(t) /\ pc[t] \notin Ends => "snapshot" \in Behind(t)
  <2> HAVE Return(t) /\ pc[t] \notin Ends
  <2>1. PICK a : \E rest : Arrives(t, a, rest) /\ Behind(t) = {a} \cup rest
    BY <1>1, Returns, Zenon
  <2> QED BY <1>1, <2>1, Zenon DEF Arrives
<1>5. ASSUME NEW label, NEW behind, Arrives(t, label, behind), label # "snapshot"
      PROVE  "snapshot" \in behind
  BY <1>1, <1>5, Zenon DEF Arrives
<1>6. CancelStep(t) => "snapshot" \in Behind(t)
  <2>1. CancelStep(t) => pc[t] \notin Ends
    BY Zenon DEF CancelStep, CancelRead, CancelWrite, CancelApproval, Ends
  <2>2. CancelStep(t) => Goto(t, "cancel_approval") \/ Goto(t, "cancel_write") \/ Return(t)
    BY Zenon DEF CancelStep, CancelRead, CancelWrite, CancelApproval
  <2> QED BY <1>3, <1>4, <2>1, <2>2, Zenon
<1>7. Drain(t) => "snapshot" \in Behind(t)
  <2>1. Drain(t) => pc[t] = "drain" /\ pc[t] \notin Ends /\ (Return(t) \/ Then(t, <<"cancel", "drain">>))
    BY Zenon DEF Drain, Ends
  <2>2. pc[t] = "drain" /\ Then(t, <<"cancel", "drain">>) => Arrives(t, "cancel", {"drain"} \cup Behind(t))
    BY <1>1, CallsDeeper, Zenon
  <2>3. pc[t] = "drain" /\ Then(t, <<"cancel", "drain">>) => "snapshot" \in {"drain"} \cup Behind(t)
    BY <1>5, <2>2, Zenon
  <2> QED BY <1>4, <2>1, <2>3, Zenon
<1>8. ~(ReconcileList(t) \/ ReadApproval(t) \/ WriteCopy(t) \/ StallGaps(t) \/ Expire(t) \/ Snapshot(t))
  <2>1. ReconcileList(t) \/ ReadApproval(t) \/ WriteCopy(t) \/ StallGaps(t) \/ Expire(t) \/ Snapshot(t)
          => pc[t] \in InBody /\ pc[t] \notin Ends \cup Cancelling \cup {"drain"}
    BY Zenon DEF ReconcileList, ReadApproval, WriteCopy, StallGaps, Expire, Snapshot,
                 InBody, Reconciling, Cancelling, Ends
  <2>2. /\ ReconcileList(t) \/ WriteCopy(t) => Goto(t, "approvals")
        /\ StallGaps(t) => Goto(t, "expire")
        /\ Snapshot(t) => Return(t)
        /\ Expire(t) => Then(t, <<"drain", "overflow">>)
    BY Zenon DEF ReconcileList, WriteCopy, StallGaps, Snapshot, Expire
  <2>3. ~(ReconcileList(t) \/ WriteCopy(t) \/ StallGaps(t) \/ Snapshot(t))
    BY <1>2, <1>3, <1>4, <2>1, <2>2, Zenon
  <2>4. ~Expire(t)
    <3> SUFFICES ASSUME Expire(t) PROVE FALSE
      OBVIOUS
    <3>1. Arrives(t, "drain", {"overflow"} \cup Behind(t))
      BY <1>1, <2>1, <2>2, CallsDeeper, Zenon
    <3> QED BY <1>2, <1>5, <2>1, <3>1, Zenon
  <2>5. ~ReadApproval(t)
    <3> SUFFICES ASSUME ReadApproval(t) PROVE FALSE
      OBVIOUS
    <3>1. Then(t, <<"cancel", "approvals">>) \/ UNCHANGED <<pc, stack>> \/ Goto(t, "write_copy")
      BY DEF ReadApproval
    <3>2. Then(t, <<"cancel", "approvals">>) => Arrives(t, "cancel", {"approvals"} \cup Behind(t))
      BY <1>1, <2>1, CallsDeeper, Zenon
    <3>3. ~Then(t, <<"cancel", "approvals">>)
      BY <1>2, <1>5, <2>1, <3>2, Zenon
    <3>4. pc[t] = "approvals"
      BY Zenon DEF ReadApproval
    <3>5. ~UNCHANGED <<pc, stack>>
      BY <1>1, <1>2, <2>1, <3>4, Zenon DEF Behind
    <3> QED BY <1>2, <1>3, <2>1, <3>1, <3>3, <3>5, Zenon
  <2> QED BY <2>3, <2>4, <2>5, Zenon
<1>9. ~(StartStep(t) \/ CreateWrite(t))
  <2>1. StartStep(t) \/ CreateWrite(t) => pc[t] \notin Ends \cup Cancelling \cup {"drain"}
    BY Zenon DEF StartStep, StartRead, StartTest, Begin, FinishRun, SaveResult, StartReturn, CreateWrite,
                 Cancelling, Ends
  <2>2. StartRead(t) \/ StartTest(t) \/ Begin(t) =>
          \E label \in {"start_test", "start_return", "finish", "begin"} : Goto(t, label)
    BY Zenon DEF StartRead, StartTest, Begin
  <2>3. FinishRun(t) \/ SaveResult(t) => \E label \in {"save_result", "start_return"} : Goto(t, label)
    BY Zenon DEF FinishRun, SaveResult
  <2>4. StartReturn(t) \/ CreateWrite(t) => Return(t)
    BY Zenon DEF StartReturn, CreateWrite
  <2>5. ~(\E label \in {"start_test", "start_return", "finish", "begin", "save_result"} : Goto(t, label))
          \/ "snapshot" \in Behind(t)
    BY <1>3, Zenon
  <2> QED BY <1>2, <1>4, <2>1, <2>2, <2>3, <2>4, <2>5, Zenon DEF StartStep
<1>10. ~(ProcessQueue(t) \/ Decide(t) \/ ProcessDone(t) \/ Create(t) \/ Start(t) \/ Cancel(t))
  <2> SUFFICES ASSUME ProcessQueue(t) \/ Decide(t) \/ ProcessDone(t) \/ Create(t) \/ Start(t) \/ Cancel(t)
               PROVE  FALSE
    OBVIOUS
  <2>1. pc[t] \in Ends /\ {"idle", "decide", "process_done"} \subseteq Ends
    BY Zenon DEF ProcessQueue, Decide, ProcessDone, Create, Start, Cancel, Call, Ends
  <2>2. pc[t] \notin Cancelling \cup {"drain"}
    BY <2>1, LabelsApart, Zenon
  <2>3. \/ Goto(t, "process_done") \/ Goto(t, "idle")
        \/ Then(t, <<"reconcile", "decide">>) \/ Then(t, <<"start", "idle">>)
        \/ Then(t, <<"start", "reconcile", "process_done">>)
        \/ Then(t, <<"create_write", "reconcile", "idle">>) \/ Then(t, <<"cancel", "reconcile", "idle">>)
    BY Zenon DEF ProcessQueue, Decide, ProcessDone, Create, Start, Cancel, Call
  <2>4. /\ Then(t, <<"reconcile", "decide">>) => Arrives(t, "reconcile", {"decide"})
        /\ Then(t, <<"start", "idle">>) => Arrives(t, "start", {"idle"})
        /\ Then(t, <<"start", "reconcile", "process_done">>) => Arrives(t, "start", {"reconcile", "process_done"})
        /\ Then(t, <<"create_write", "reconcile", "idle">>) => Arrives(t, "create_write", {"reconcile", "idle"})
        /\ Then(t, <<"cancel", "reconcile", "idle">>) => Arrives(t, "cancel", {"reconcile", "idle"})
    BY <1>1, <2>1, BeginsCall, Zenon
  <2>5. ~(Goto(t, "process_done") \/ Goto(t, "idle"))
    BY <1>2, <1>3, <2>2, Zenon
  <2> QED BY <1>5, <2>3, <2>4, <2>5, Zenon
<1> QED BY <1>6, <1>7, <1>8, <1>9, <1>10, Zenon DEF Step, Continue, ReconcileStep

\* A run that is being created stays one while another thread reconciles.
LEMMA StillCreating ==
  ASSUME DataTyped, ControlTyped, ControlInv, NEW t \in Threads, Step(t),
         recLock \in Threads \/ pc[t] \notin {"create_write", "reconcile"}
  PROVE  /\ Creating \subseteq Creating'
         /\ CreateWrite(t) => cur[t] \in Creating'
<1> USE DEF KeepLocks, files, locals, At
<1>1. Keeps(t) /\ Private(t)
  BY StepKeeps, StepPrivate, Zenon
<1>2. CreateWrite(t) => pc'[t] = "reconcile" /\ cur' = cur
  <2> HAVE CreateWrite(t)
  <2>1. pc[t] = "create_write" /\ pc[t] \notin Ends /\ Nested(t) /\ Return(t) /\ cur' = cur
    BY Zenon DEF CreateWrite, ControlInv, Ends
  <2>2. PICK rest : Arrives(t, "reconcile", rest)
    BY <2>1, Returns, Zenon
  <2> QED BY <2>1, <2>2, Zenon DEF Arrives
<1>3. pc[t] \in {"create_write", "reconcile"} => CreateWrite(t)
  <2> HAVE pc[t] \in {"create_write", "reconcile"}
  <2>1. ~(CancelStep(t) \/ StartStep(t) \/ Decide(t) \/ ProcessDone(t))
    BY Zenon DEF CancelStep, CancelRead, CancelWrite, CancelApproval, Decide, ProcessDone,
                 StartStep, StartRead, StartTest, Begin, FinishRun, SaveResult, StartReturn
  <2>2. ~(ProcessQueue(t) \/ Create(t) \/ Start(t) \/ Cancel(t))
    BY Zenon DEF ProcessQueue, Create, Start, Cancel, Call
  <2>3. ~ReconcileList(t)
    BY ThreadAssumption, Zenon DEF ReconcileList, Threads
  <2>4. ~(ReadApproval(t) \/ WriteCopy(t) \/ StallGaps(t) \/ Expire(t) \/ CancelOverflow(t) \/ Drain(t) \/ Snapshot(t))
    BY Zenon DEF ReadApproval, WriteCopy, StallGaps, Expire, CancelOverflow, Drain, Snapshot
  <2> QED BY <2>1, <2>2, <2>3, <2>4, Zenon DEF Step, Continue, ReconcileStep
<1>4. ASSUME NEW v \in Threads, pc[v] \in {"create_write", "reconcile"}
      PROVE  cur[v] \in Creating'
  <2>1. pc'[v] \in {"create_write", "reconcile"} /\ cur'[v] = cur[v]
    <3>1. CASE v = t
      BY <1>2, <1>3, <1>4, <3>1, Zenon
    <3>2. CASE v # t
      BY <1>1, <1>4, <3>2, Zenon DEF Keeps, Elsewhere, Private
    <3> QED BY <3>1, <3>2, Zenon
  <2> QED BY <2>1, Zenon DEF Creating
<1>5. Creating \subseteq Creating'
  <2>1. \A r \in Creating : \E v \in Threads : pc[v] \in {"create_write", "reconcile"} /\ r = cur[v]
    BY Zenon DEF Creating
  <2> QED BY <1>4, <2>1, Zenon
<1>6. CreateWrite(t) => cur[t] \in Creating'
  BY <1>4, Zenon DEF CreateWrite
<1> QED BY <1>5, <1>6, Zenon

\* While one thread reconciles, another makes no run pending but one that it
\* creates.
LEMMA NoneRevived ==
  ASSUME DataTyped, ControlTyped, ControlInv, NEW t \in Threads, Step(t), recLock \in Threads \ {t},
         NEW r \in Runs, run'[r].status \in Pending
  PROVE  run[r].status \in Pending \/ r \in Creating'
<1> USE DEF KeepLocks, files, locals, At
<1>1. /\ Ready(t) /\ run \in [Runs -> Run]
      /\ pc[t] \notin Reconciling
      /\ pc[t] \in Cancelling \cup Starting \cup {"create_write"} => cur[t] \in Runs
  <2>1. Ready(t) /\ run \in [Runs -> Run]
    BY Zenon DEF ControlInv, DataTyped
  <2> QED BY <2>1, Zenon DEF Ready, Ahead
<1>2. ASSUME NEW c, c.status \notin Pending, cur[t] \in Runs, run' = [run EXCEPT ![cur[t]] = c]
      PROVE  run[r].status \in Pending
  <2>1. r # cur[t]
    BY <1>1, <1>2, Zenon
  <2> QED BY <1>1, <1>2, <2>1, Zenon
<1>3. CASE CancelStep(t)
  <2>1. CASE CancelWrite(t)
    <3>1. run' = [run EXCEPT ![cur[t]] = mem[t]] /\ pc[t] = "cancel_write" /\ pc[t] \in Cancelling
      BY <2>1, Zenon DEF CancelWrite, Cancelling
    <3> QED BY <1>1, <1>2, <3>1, Zenon DEF Ready
  <2>2. CASE CancelRead(t) \/ CancelApproval(t)
    BY <2>2, Zenon DEF CancelRead, CancelApproval
  <2> QED BY <1>3, <2>1, <2>2, Zenon DEF CancelStep
<1>4. CASE ReconcileStep(t)
  <2>1. ~(ReadApproval(t) \/ WriteCopy(t) \/ StallGaps(t) \/ Expire(t) \/ CancelOverflow(t) \/ Drain(t) \/ Snapshot(t))
    BY <1>1, Zenon DEF ReadApproval, WriteCopy, StallGaps, Expire, CancelOverflow, Drain, Snapshot, Reconciling
  <2>2. ReconcileList(t)
    BY <1>4, <2>1, Zenon DEF ReconcileStep
  <2> QED BY <2>2, Zenon DEF ReconcileList
<1>5. CASE StartStep(t)
  <2>1. pc[t] \in Starting /\ cur[t] \in Runs
    BY <1>1, <1>5, Zenon DEF StartStep, StartRead, StartTest, Begin, FinishRun, SaveResult, StartReturn, Starting
  <2>2. CASE Begin(t) \/ FinishRun(t) \/ StartReturn(t)
    <3>1. /\ run' = [run EXCEPT ![cur[t]] = mem[t]]
          /\ pc[t] \in {"begin", "finish", "start_return"}
      BY <2>2, Zenon DEF Begin, FinishRun, StartReturn
    <3>2. mem[t].status \notin Pending
      BY <1>1, <3>1, Zenon DEF Ready
    <3> QED BY <1>2, <2>1, <3>1, <3>2, Zenon
  <2>3. CASE SaveResult(t)
    <3> DEFINE c == [run[cur[t]] EXCEPT !.status = "ended"]
    <3>1. run' = [run EXCEPT ![cur[t]] = c]
      BY <2>3, Zenon DEF SaveResult
    <3>2. c.status \notin Pending
      <4>1. run[cur[t]] \in Run
        BY <1>1, <2>1, Zenon
      <4> QED BY <4>1, RunTyped, Zenon DEF Pending
    <3> HIDE DEF c
    <3> QED BY <1>2, <2>1, <3>1, <3>2, Zenon
  <2>4. CASE StartRead(t)
    BY <2>4, Zenon DEF StartRead
  <2>5. CASE StartTest(t)
    <3> DEFINE s == IF result[cur[t]] THEN "ended" ELSE run[cur[t]].status
    <3> DEFINE c == [run[cur[t]] EXCEPT !.status = s]
    <3>1. run' = [run EXCEPT ![cur[t]] = c]
      BY <2>5, Zenon DEF StartTest, GetResult
    <3>2. c.status = s
      <4>1. run[cur[t]] \in Run
        BY <1>1, <2>1, Zenon
      <4> HIDE DEF s
      <4> QED BY <4>1, Zenon DEF Run
    <3>3. s \in Pending => run[cur[t]].status \in Pending
      BY Zenon DEF Pending
    <3> HIDE DEF s, c
    <3>4. CASE s \in Pending
      BY <1>1, <2>1, <3>1, <3>3, <3>4, Zenon
    <3>5. CASE s \notin Pending
      BY <1>2, <2>1, <3>1, <3>2, <3>5, Zenon
    <3> QED BY <3>4, <3>5, Zenon
  <2> QED BY <1>5, <2>2, <2>3, <2>4, <2>5, Zenon DEF StartStep
<1>6. CASE ProcessQueue(t) \/ Decide(t) \/ ProcessDone(t) \/ Start(t) \/ Cancel(t)
  BY <1>6, Zenon DEF ProcessQueue, Decide, ProcessDone, Start, Cancel
<1>7. CASE Create(t)
  <2>1. PICK n \in Runs, auto \in BOOLEAN :
          /\ run' = [run EXCEPT ![n] = [status |-> "created", auto |-> auto]]
          /\ Call(t, n, <<"create_write", "reconcile", "idle">>)
    BY <1>7, Zenon DEF Create
  <2>2. cur'[t] = n /\ pc[t] \in Ends /\ Then(t, <<"create_write", "reconcile", "idle">>)
    BY <2>1, Zenon DEF Call, Ends, DataTyped
  <2>3. Arrives(t, "create_write", {"reconcile", "idle"})
    <3>1. Nested(t) /\ "idle" \in Ends
      BY Zenon DEF ControlInv, Ends
    <3> QED BY <2>2, <3>1, BeginsCall, Zenon
  <2>4. n \in Creating'
    BY <2>2, <2>3, Zenon DEF Creating, Arrives
  <2>5. r # n => run'[r] = run[r]
    BY <1>1, <2>1, Zenon
  <2> QED BY <2>4, <2>5, Zenon
<1>8. CASE CreateWrite(t)
  <2>1. cur[t] \in Creating'
    BY <1>8, StillCreating, Zenon
  <2>2. run' = run \/ \E c : run' = [run EXCEPT ![cur[t]] = c]
    BY <1>8, Zenon DEF CreateWrite
  <2>3. r # cur[t] => run'[r] = run[r]
    BY <1>1, <2>2, Zenon
  <2> QED BY <2>1, <2>3, Zenon
<1> QED BY <1>3, <1>4, <1>5, <1>6, <1>7, <1>8, Zenon DEF Step, Continue

\* The runs that are left are within the limit when fewer are left.
LEMMA FewerLeft ==
  ASSUME NEW S \in SUBSET Runs, NEW T \in SUBSET S, NEW n \in Nat, Cardinality(S) <= n
  PROVE  Cardinality(T) <= n
<1>1. IsFiniteSet(Runs)
  BY FS_Interval, BoundAssumption DEF Runs
<1>2. IsFiniteSet(S)
  BY <1>1, FS_Subset, Zenon
<1>3. IsFiniteSet(T) /\ Cardinality(T) <= Cardinality(S)
  BY <1>2, FS_Subset, Zenon
<1>4. Cardinality(S) \in Nat /\ Cardinality(T) \in Nat
  BY <1>2, <1>3, FS_CardinalityType, Zenon
<1> QED BY <1>3, <1>4

\* The runs that are left are runs.
LEMMA LeftRuns ==
  ASSUME DataTyped, NEW t \in Threads
  PROVE  Left(t) \in SUBSET Runs
<1>1. list[t] \in Copies
  BY Zenon DEF DataTyped
<1> QED BY <1>1, Lists, Zenon DEF Left

\* The overflow is picked: the newest are left.
LEMMA OverflowLimits ==
  ASSUME DataTyped, ControlTyped, ControlInv, NEW t \in Threads, CancelOverflow(t)
  PROVE  Cardinality(Left(t)') <= MaxPending /\ pc'[t] = "drain"
<1> USE DEF KeepLocks, files, locals, At
<1> DEFINE listed == [r \in Listed |-> run[r]]
<1> DEFINE pending == {r \in Listed : run[r].status \in Pending}
<1>1. /\ list' = [list EXCEPT ![t] = listed] /\ todo' = [todo EXCEPT ![t] = Overflow(pending)]
      /\ Then(t, <<"drain", "snapshot">>) /\ run' = run
  BY Zenon DEF CancelOverflow
<1>2. /\ Listed \in SUBSET Runs /\ run \in [Runs -> Run] /\ pending \in SUBSET Runs
      /\ listed \in Copies /\ DOMAIN listed = Listed
  <2>1. Listed \in SUBSET Runs /\ run \in [Runs -> Run]
    BY ListedRuns, Zenon DEF DataTyped
  <2>2. pending \in SUBSET Runs
    BY <2>1, Zenon
  <2> QED BY <2>1, <2>2, Lists, Zenon
<1>3. list'[t] = listed /\ todo'[t] = Overflow(pending)
  BY <1>1, Zenon DEF DataTyped
<1> DEFINE newest == Newest(pending, MaxPending)
<1>4. MaxPending \in Nat
  BY BoundAssumption, Zenon
<1>5. newest \in SUBSET pending /\ Cardinality(newest) <= MaxPending
  BY <1>2, <1>4, NewestFew, Zenon
<1>6. Left(t)' \subseteq newest
  <2>1. DOMAIN list'[t] = Listed
    BY <1>2, <1>3, Zenon
  <2>2. Left(t)' \subseteq {r \in Listed : run[r].status \in Pending} \ todo'[t]
    BY <1>1, <2>1, Zenon DEF Left, Doomed
  <2>3. todo'[t] = pending \ newest
    BY <1>3, Zenon DEF Overflow
  <2> QED BY <2>2, <2>3, Zenon
<1>7. pc'[t] = "drain"
  <2>1. Nested(t) /\ pc[t] \in InBody
    BY Zenon DEF CancelOverflow, ControlInv, InBody, Reconciling
  <2>2. Arrives(t, "drain", {"snapshot"} \cup Behind(t))
    BY <1>1, <2>1, CallsDeeper, Zenon
  <2> QED BY <2>2, Zenon DEF Arrives
<1>8. newest \in SUBSET Runs /\ Left(t)' \in SUBSET newest
  BY <1>2, <1>5, <1>6, Zenon
<1> HIDE DEF newest, listed, pending
<1>9. Cardinality(Left(t)') <= MaxPending
  BY <1>4, <1>5, <1>8, FewerLeft, Zenon
<1> QED BY <1>7, <1>9, Zenon

\* The loop that cancels what was picked ends every run that it drops.
LEMMA CancelLimits ==
  ASSUME DataTyped, ControlTyped, ControlInv, NEW t \in Threads, Drain(t) \/ CancelStep(t),
         "snapshot" \in Behind(t)
  PROVE  Left(t)' \subseteq Left(t) /\ (pc'[t] = "snapshot" => todo'[t] = {})
<1> USE DEF KeepLocks, files, locals, At
<1>1. Nested(t) /\ Ready(t) /\ recLock = t /\ pc[t] \notin Ends
  <2>1. Nested(t) /\ Ready(t) /\ "snapshot" \in Ahead(t) \cap Reconciling
    BY Zenon DEF ControlInv, Ahead, Reconciling
  <2>2. pc[t] \notin Ends
    BY Zenon DEF Drain, CancelStep, CancelRead, CancelWrite, CancelApproval, Ends
  <2> QED BY <2>1, <2>2, Zenon DEF Ready
<1>2. Step(t) /\ pc[t] \notin {"create_write", "reconcile"}
  <2>1. Step(t)
    BY Zenon DEF Step, Continue, ReconcileStep
  <2>2. pc[t] \notin {"create_write", "reconcile"}
    BY Zenon DEF Drain, CancelStep, CancelRead, CancelWrite, CancelApproval
  <2> QED BY <2>1, <2>2, Zenon
<1>3. Creating \subseteq Creating'
  BY <1>2, StillCreating, Zenon
<1>4. list' = list
  <2>1. Drain(t) => list' = list
    BY Zenon DEF Drain
  <2>2. CancelStep(t) => list' = list
    BY Zenon DEF CancelStep, CancelRead, CancelWrite, CancelApproval
  <2> QED BY <2>1, <2>2, Zenon
<1>5. ASSUME \A r \in Runs : run'[r].status \in Pending /\ r \notin Doomed(t)'
               => run[r].status \in Pending /\ r \notin Doomed(t)
      PROVE  Left(t)' \subseteq Left(t)
  <2>1. DOMAIN list[t] \subseteq Runs
    BY Lists, Zenon DEF DataTyped
  <2> QED BY <1>3, <1>4, <1>5, <2>1, Zenon DEF Left
<1>6. ASSUME NEW label, Goto(t, label)
      PROVE  pc'[t] = label
  BY <1>6, Zenon DEF Goto, ControlTyped
<1>7. Return(t) /\ pc[t] \in Cancelling => pc'[t] \in {"reconcile", "approvals", "drain"}
  BY <1>1, Returns, Zenon DEF Arrives
<1>8. CASE Drain(t)
  <2>1. run' = run /\ pc[t] = "drain"
    BY <1>8, Zenon DEF Drain
  <2>2. Doomed(t) = todo[t]
    BY <2>1, Zenon DEF Doomed
  <2>3. CASE todo[t] = {}
    <3>1. todo' = todo
      BY <1>8, <2>3, Zenon DEF Drain
    <3>2. Left(t)' \subseteq Left(t)
      BY <1>5, <2>1, <2>2, <2>3, Zenon
    <3> QED BY <2>3, <3>1, <3>2, Zenon
  <2>4. CASE todo[t] # {}
    <3> DEFINE r == Min(todo[t])
    <3>1. /\ cur' = [cur EXCEPT ![t] = r] /\ todo' = [todo EXCEPT ![t] = todo[t] \ {r}]
          /\ Then(t, <<"cancel", "drain">>)
      BY <1>8, <2>4 DEF Drain
    <3> HIDE DEF r
    <3>2. cur'[t] = r /\ todo'[t] = todo[t] \ {r}
      BY <3>1, Zenon DEF DataTyped
    <3>3. pc'[t] = "cancel"
      BY <1>1, <2>1, <3>1, CallsDeeper, Zenon DEF Arrives
    <3>4. todo[t] \subseteq Doomed(t)'
      BY <3>2, <3>3, Zenon DEF Doomed
    <3>5. Left(t)' \subseteq Left(t)
      BY <1>5, <2>1, <2>2, <3>4, Zenon
    <3> QED BY <3>3, <3>5, Zenon
  <2> QED BY <2>3, <2>4, Zenon
<1>9. CASE CancelRead(t)
  <2>1. run' = run /\ todo' = todo /\ pc[t] = "cancel"
    BY <1>9, Zenon DEF CancelRead
  <2>2. Doomed(t) = todo[t] \cup {cur[t]}
    BY <2>1, Zenon DEF Doomed
  <2>3. CASE run[cur[t]].status = "ended"
    <3>1. Goto(t, "cancel_approval")
      BY <1>1, <1>9, <2>3, Zenon DEF CancelRead
    <3>2. pc'[t] = "cancel_approval"
      BY <1>6, <3>1, Zenon
    <3>3. run[cur[t]].status \notin Pending /\ todo[t] \subseteq Doomed(t)'
      BY <2>1, <2>3, Zenon DEF Pending, Doomed
    <3>4. Left(t)' \subseteq Left(t)
      BY <1>5, <2>1, <2>2, <3>3, Zenon
    <3> QED BY <3>2, <3>4, Zenon
  <2>4. CASE run[cur[t]].status # "ended"
    <3>1. Goto(t, "cancel_write") /\ cur' = cur
      BY <1>9, <2>4, Zenon DEF CancelRead
    <3>2. pc'[t] = "cancel_write"
      BY <1>6, <3>1, Zenon
    <3>3. Doomed(t)' = Doomed(t)
      BY <2>1, <2>2, <3>1, <3>2, Zenon DEF Doomed
    <3>4. Left(t)' \subseteq Left(t)
      BY <1>5, <2>1, <3>3, Zenon
    <3> QED BY <3>2, <3>4, Zenon
  <2> QED BY <2>3, <2>4, Zenon
<1>10. CASE CancelWrite(t)
  <2>1. /\ run' = [run EXCEPT ![cur[t]] = mem[t]] /\ todo' = todo /\ pc[t] = "cancel_write"
        /\ Goto(t, "cancel_approval")
    BY <1>10, Zenon DEF CancelWrite
  <2>2. Doomed(t) = todo[t] \cup {cur[t]} /\ mem[t].status \notin Pending
    BY <1>1, <2>1, Zenon DEF Doomed, Ready
  <2>3. pc'[t] = "cancel_approval" /\ todo[t] \subseteq Doomed(t)'
    BY <1>6, <2>1, Zenon DEF Doomed
  <2>4. ASSUME NEW r \in Runs, run'[r].status \in Pending, r \notin Doomed(t)'
        PROVE  run[r].status \in Pending /\ r \notin Doomed(t)
    <3>1. run \in [Runs -> Run]
      BY Zenon DEF DataTyped
    <3>2. r # cur[t]
      BY <2>1, <2>2, <2>4, <3>1, Zenon
    <3> QED BY <2>1, <2>2, <2>3, <2>4, <3>1, <3>2, Zenon
  <2>5. Left(t)' \subseteq Left(t)
    BY <1>5, <2>4, Zenon
  <2> QED BY <2>3, <2>5, Zenon
<1>11. CASE CancelApproval(t)
  <2>1. run' = run /\ todo' = todo /\ pc[t] = "cancel_approval" /\ pc[t] \in Cancelling /\ Return(t)
    BY <1>11, Zenon DEF CancelApproval, Cancelling
  <2>2. Doomed(t) = todo[t] /\ todo[t] \subseteq Doomed(t)'
    BY <2>1, Zenon DEF Doomed
  <2>3. Left(t)' \subseteq Left(t)
    BY <1>5, <2>1, <2>2, Zenon
  <2>4. pc'[t] # "snapshot"
    BY <1>7, <2>1, Zenon
  <2> QED BY <2>3, <2>4, Zenon
<1> QED BY <1>8, <1>9, <1>10, <1>11, Zenon DEF CancelStep

\* A step of another thread leaves no more runs than there were.
LEMMA OtherLimits ==
  ASSUME DataTyped, ControlTyped, ControlInv, NEW t \in Threads, NEW u \in Threads \ {t}, Step(u),
         "snapshot" \in Ahead(t)
  PROVE  Left(t)' \subseteq Left(t)
<1>1. recLock = t
  <2>1. Ready(t) /\ "snapshot" \in Ahead(t) \cap Reconciling
    BY Zenon DEF ControlInv, Reconciling
  <2> QED BY <2>1, Zenon DEF Ready
<1>2. Keeps(u) /\ Private(u)
  BY StepKeeps, StepPrivate, Zenon
<1>3. pc'[t] = pc[t] /\ list'[t] = list[t] /\ todo'[t] = todo[t] /\ cur'[t] = cur[t]
  BY <1>2, Zenon DEF Keeps, Elsewhere, Private
<1>4. Doomed(t)' = Doomed(t)
  BY <1>3, Zenon DEF Doomed
<1>5. Creating \subseteq Creating'
  BY <1>1, StillCreating, Zenon
<1>6. \A r \in Runs : run'[r].status \in Pending => run[r].status \in Pending \/ r \in Creating'
  BY <1>1, NoneRevived, Zenon
<1>7. DOMAIN list[t] \subseteq Runs
  BY Lists, Zenon DEF DataTyped
<1> QED BY <1>3, <1>4, <1>5, <1>6, <1>7, Zenon DEF Left

\* The limit is inductive, with the types and the control.
LEMMA LimitStep ==
  ASSUME DataTyped, ControlTyped, ControlInv, LimitInv, [Next]_vars
  PROVE  LimitInv'
<1>1. MaxPending \in Nat
  BY BoundAssumption, Zenon
<1>2. ASSUME NEW t \in Threads, "snapshot" \in Ahead(t), Left(t)' \subseteq Left(t)
      PROVE  Cardinality(Left(t)') <= MaxPending
  <2>1. Left(t) \in SUBSET Runs /\ Cardinality(Left(t)) <= MaxPending
    BY <1>2, LeftRuns, Zenon DEF LimitInv, Limited
  <2> QED BY <1>1, <1>2, <2>1, FewerLeft, Zenon
<1>3. ASSUME NEW t \in Threads, NEW u \in Threads, Step(u)
      PROVE  ("snapshot" \in Ahead(t)' => Cardinality(Left(t)') <= MaxPending)
               /\ (pc'[t] = "snapshot" => todo'[t] = {})
  <2>1. CASE u = t
    <3> SUFFICES ASSUME "snapshot" \in Ahead(t)'
                 PROVE  Cardinality(Left(t)') <= MaxPending /\ (pc'[t] = "snapshot" => todo'[t] = {})
      BY Zenon DEF Ahead
    <3>1. CancelOverflow(t) \/ ("snapshot" \in Behind(t) /\ (Drain(t) \/ CancelStep(t)))
      BY <1>3, <2>1, SnapshotAhead, Zenon
    <3>2. CASE CancelOverflow(t)
      BY <3>2, OverflowLimits, Zenon
    <3>3. CASE "snapshot" \in Behind(t) /\ (Drain(t) \/ CancelStep(t))
      <4>1. Left(t)' \subseteq Left(t) /\ (pc'[t] = "snapshot" => todo'[t] = {})
        BY <3>3, CancelLimits, Zenon
      <4>2. "snapshot" \in Ahead(t)
        BY <3>3, Zenon DEF Ahead
      <4> QED BY <1>2, <4>1, <4>2, Zenon
    <3> QED BY <3>1, <3>2, <3>3, Zenon
  <2>2. CASE u # t
    <3>1. Keeps(u) /\ Private(u)
      BY <1>3, StepKeeps, StepPrivate, Zenon
    <3>2. pc'[t] = pc[t] /\ stack'[t] = stack[t] /\ todo'[t] = todo[t]
      BY <2>2, <3>1, Zenon DEF Keeps, Elsewhere, Private
    <3>3. Ahead(t)' = Ahead(t)
      BY <3>2, Zenon DEF Ahead, Behind
    <3>4. "snapshot" \in Ahead(t) => Left(t)' \subseteq Left(t)
      BY <1>3, <2>2, OtherLimits, Zenon
    <3>5. pc[t] = "snapshot" => todo[t] = {}
      BY Zenon DEF LimitInv
    <3> QED BY <1>2, <3>2, <3>3, <3>4, <3>5, Zenon
  <2> QED BY <2>1, <2>2, Zenon
<1>4. (\E r \in Runs : DecideApproval(r) \/ Age(r)) \/ UNCHANGED vars => LimitInv'
  <2> HAVE (\E r \in Runs : DecideApproval(r) \/ Age(r)) \/ UNCHANGED vars
  <2>1. UNCHANGED <<run, recLock, pc, stack, mem, cur, list, todo>>
    BY NoStep, Zenon
  <2>2. Creating' = Creating
    BY <2>1, Zenon DEF Creating
  <2>3. \A t \in Threads : Left(t)' = Left(t) /\ Ahead(t)' = Ahead(t)
    BY <2>1, <2>2, Zenon DEF Left, Doomed, Ahead, Behind
  <2> QED BY <2>1, <2>3, Zenon DEF LimitInv, Limited
<1> QED BY <1>3, <1>4, NextSteps, Zenon DEF LimitInv, Limited

\* reconcile() keeps the queue within max_pending_tasks at its snapshot, for
\* any runs, threads and limits, and although the lock of reconcile() keeps
\* out neither the clients that create, start and cancel runs meanwhile nor
\* the run that process_queue() starts.
THEOREM LimitKept == Spec => []PendingWithinLimit
<1> DEFINE Inv == DataTyped /\ ControlTyped /\ ControlInv /\ LimitInv
<1>1. Init => Inv
  <2> HAVE Init
  <2>1. DataTyped /\ ControlTyped /\ ControlInv
    BY ControlInit, Zenon
  <2>2. LimitInv
    <3> SUFFICES ASSUME NEW t \in Threads
                 PROVE  "snapshot" \notin Ahead(t)
      BY Zenon DEF LimitInv, Limited, Ahead
    <3>1. pc[t] = "idle" /\ stack[t] = <<>>
      BY Zenon DEF Init
    <3>2. Behind(t) = {}
      BY <3>1, Places, Zenon DEF Behind
    <3> QED BY <3>1, <3>2, Zenon DEF Ahead
  <2> QED BY <2>1, <2>2, Zenon
<1>2. Inv /\ [Next]_vars => Inv'
  BY ControlStep, LimitStep, Zenon
<1>3. Inv => PendingWithinLimit
  <2> SUFFICES ASSUME Inv, NEW t \in Threads, pc[t] = "snapshot"
               PROVE  Cardinality({r \in DOMAIN list[t] \ Creating : run[r].status \in Pending}) <= MaxPending
    BY Zenon DEF PendingWithinLimit, At
  <2>1. "snapshot" \in Ahead(t) /\ Doomed(t) = {}
    BY Zenon DEF Ahead, Doomed, LimitInv
  <2>2. Left(t) = {r \in DOMAIN list[t] \ Creating : run[r].status \in Pending}
    BY <2>1, Zenon DEF Left
  <2> QED BY <2>1, <2>2, Zenon DEF LimitInv, Limited
<1> QED BY <1>1, <1>2, <1>3, PTL DEF Spec
=============================================================================
