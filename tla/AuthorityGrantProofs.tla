------------------------ MODULE AuthorityGrantProofs ------------------------
(* The invariants of AuthorityGrant and its refinement of GrantLedger, for *)
(* any set of callers, any limits and any bounds.                          *)
EXTENDS AuthorityGrant, TLAPS

\* The last complete record: what the next reader would have found before the
\* save in progress.
Current == IF grant = Torn THEN last ELSE grant

\* A copy respects the limit, and a pending one has not been used.
Within(g) ==
  /\ g.status = "pending" => g.used = 0
  /\ limit # NoLimit =>
       /\ g.used <= limit
       /\ g.used = limit /\ limit > 0 => g.status # "approved"

CopiesWithin ==
  /\ grant \in Record => Within(grant)
  /\ last \in Record => Within(last)
  /\ \A c \in Callers : Within(mem[c])

\* g is what one operation makes of the record r, and answer tells whether it
\* is a granted use.
Derived(r, g, answer) ==
  \/ /\ r = Absent
     /\ answer # "consumed"
     /\ g = Fresh("approved")
  \/ /\ r \in Record
     /\ answer # "consumed"
     /\ \E s \in Statuses :
          /\ \/ r.status = "pending" /\ s \in {"approved", "denied"}
             \/ r.status \in {"pending", "approved", "denied"} /\ s = "revoked"
             \/ r.status \in {"pending", "approved"} /\ s = "expired"
          /\ g = [r EXCEPT !.status = s]
  \/ /\ r \in Record
     /\ answer = "consumed"
     /\ r.status = "approved"
     /\ ~Spent(r.used)
     /\ g = Used(r)

\* A fresh copy is the record, and what a caller is about to save follows from
\* the record.
CopyExact(c) ==
  c \notin stale =>
    /\ pc[c] = "decide" => Current = mem[c]
    /\ pc[c] = "truncate" => Derived(Current, mem[c], after[c])

\* A caller that has the file open is the only one, and every other copy is
\* stale.
OpenExact(c) ==
  pc[c] = "fill" =>
    /\ c \notin stale
    /\ grant = Torn
    /\ Derived(last, mem[c], after[c])
    /\ \A d \in Callers \ {c} :
         /\ pc[d] # "fill"
         /\ pc[d] \in {"decide", "truncate"} => d \in stale

\* Until a stale copy is saved, the use count is exact.
Exact ==
  ~overwritten =>
    /\ uses = IF Current = Absent THEN 0 ELSE Current.used
    /\ \A c \in Callers : CopyExact(c) /\ OpenExact(c)

IndInv == TypeOK /\ CopiesWithin /\ Exact

(***************************************************************************)
(* Facts about records.                                                    *)
(***************************************************************************)

\* The records that the service makes are records.
LEMMA RecordFacts ==
  /\ \A s \in Statuses : Fresh(s) \in Record
  /\ NoCopy \in Record /\ NoCopy.status = "pending" /\ NoCopy.used = 0
  /\ \A g \in Record : g.status \in Statuses /\ g.used \in Nat
  /\ \A g \in Record, s \in Statuses : [g EXCEPT !.status = s] \in Record
  /\ \A g \in Record : Used(g) \in Record
BY DEF Fresh, NoCopy, Record, Statuses, Used

\* An operation on a record gives a record that respects the limit.
LEMMA DerivedWithin ==
  ASSUME TypeOK, NEW r \in Record, NEW g, NEW answer, Within(r), Derived(r, g, answer)
  PROVE  g \in Record /\ Within(g)
<1>1. limit \in Nat \cup {NoLimit}
  BY LimitAssumption, Zenon DEF TypeOK
<1>2. r # Absent
  BY FileAssumption, Zenon
<1>3. CASE answer # "consumed"
  <2>1. PICK s \in Statuses : /\ s # "pending"
                              /\ s = "approved" => r.status = "pending"
                              /\ g = [r EXCEPT !.status = s]
    BY <1>2, <1>3, Zenon DEF Derived
  <2>2. g \in Record /\ g.status = s /\ g.used = r.used
    BY <2>1, Zenon DEF Record
  <2> QED BY <2>1, <2>2, <1>1, LimitAssumption DEF Within
<1>4. CASE answer = "consumed"
  <2>1. r.status = "approved" /\ ~Spent(r.used) /\ g = Used(r)
    BY <1>2, <1>4, Zenon DEF Derived
  <2>2. r.used \in Nat
    BY Zenon DEF Record
  <2>3. g \in Record /\ g.used = r.used + 1
        /\ g.status = IF Spent(r.used + 1) THEN "expired" ELSE "approved"
    BY <2>1, <2>2 DEF Used, Record, Statuses
  <2> QED BY <2>1, <2>2, <2>3, <1>1, LimitAssumption DEF Within, Spent
<1> QED BY <1>3, <1>4, Zenon

\* Every method decides on its copy alone: it answers, or saves what one
\* operation makes of the copy.
Decision(c) ==
  /\ At(c, "decide")
  /\ Local
  /\ \/ Answer(c)
     \/ \E g \in Record, answer \in {"answer", "consumed"} :
          Derived(mem[c], g, answer) /\ Save(c, g, answer)

\* The seven decisions of the service have that form.
LEMMA Decisions ==
  ASSUME TypeOK, NEW c \in Callers,
         \/ ExpireIfNeeded(c) \/ Approve(c) \/ Deny(c) \/ Revoke(c)
         \/ ListGrants(c) \/ Refuse(c) \/ Consume(c)
  PROVE  Decision(c)
<1> DEFINE g0 == mem[c]
<1>1. g0 \in Record /\ g0.status \in Statuses
  BY RecordFacts, Zenon DEF TypeOK
<1>2. ASSUME NEW s \in Statuses,
             \/ g0.status = "pending" /\ s \in {"approved", "denied"}
             \/ g0.status \in {"pending", "approved", "denied"} /\ s = "revoked"
             \/ g0.status \in {"pending", "approved"} /\ s = "expired",
             At(c, "decide"), Local, Save(c, [g0 EXCEPT !.status = s], "answer")
      PROVE  Decision(c)
  <2>1. [g0 EXCEPT !.status = s] \in Record
    BY <1>1, RecordFacts, Zenon
  <2>2. Derived(g0, [g0 EXCEPT !.status = s], "answer")
    BY <1>1, <1>2, Zenon DEF Derived
  <2> QED BY <1>2, <2>1, <2>2, Zenon DEF Decision
<1>3. CASE ExpireIfNeeded(c)
  BY <1>2, <1>3, Zenon DEF ExpireIfNeeded, Expires, Statuses
<1>4. CASE Approve(c)
  BY <1>2, <1>4, Zenon DEF Approve, Decide, Decides, Statuses, Decision
<1>5. CASE Deny(c)
  BY <1>2, <1>5, Zenon DEF Deny, Decide, Decides, Statuses, Decision
<1>6. CASE Revoke(c)
  BY <1>1, <1>2, <1>6, Zenon DEF Revoke, Decides, Statuses, Decision
<1>7. CASE ListGrants(c)
  BY <1>7, Zenon DEF ListGrants, Decides, Decision
<1>8. CASE Refuse(c)
  BY <1>2, <1>8, Zenon DEF Refuse, Decides, Statuses, Decision
<1>9. CASE Consume(c)
  <2>1. Used(g0) \in Record
    BY <1>1, RecordFacts, Zenon
  <2>2. Derived(g0, Used(g0), "consumed")
    BY <1>1, <1>9, Zenon DEF Derived, Consume
  <2> QED BY <1>9, <2>1, <2>2, Zenon DEF Consume, Decides, Decision
<1> QED BY <1>3, <1>4, <1>5, <1>6, <1>7, <1>8, <1>9, Zenon

(***************************************************************************)
(* Type correctness.                                                       *)
(***************************************************************************)

\* The initial states have the right types.
LEMMA TypeInit == Init => TypeOK
<1> SUFFICES ASSUME Init PROVE TypeOK
  OBVIOUS
<1>1. NoCopy \in Record /\ Fresh("pending") \in Record
  BY RecordFacts, Zenon DEF Statuses
<1>2. limit \in Limits \cup {NoLimit} /\ grant \in Record \cup {Absent} /\ last = grant
  BY <1>1, Zenon DEF Init
<1>3. mem \in [Callers -> Record] /\ op \in [Callers -> Ops] /\ pc \in [Callers -> Labels]
      /\ after \in [Callers -> {"answer", "consumed", "read"}]
  BY <1>1, Zenon DEF Init, Ops, Labels
<1>4. /\ kind \in {"session", "mission"} /\ due \in BOOLEAN
      /\ stale \subseteq Callers /\ overwritten \in BOOLEAN
  BY Zenon DEF Init
<1>5. uses \in Nat /\ calls \in 0..MaxCalls /\ crashes \in 0..MaxCrashes
  BY BoundAssumption DEF Init
<1> QED BY <1>2, <1>3, <1>4, <1>5, Zenon DEF TypeOK

\* Every step keeps the types.
LEMMA TypeStep == TypeOK /\ [Next]_vars => TypeOK'
<1> SUFFICES ASSUME TypeOK, [Next]_vars PROVE TypeOK'
  OBVIOUS
<1> USE DEF TypeOK, file, locals, given, bounds, Local, Goto
<1>0. NoCopy \in Record /\ Fresh("approved") \in Record
  BY RecordFacts, Zenon DEF Statuses
<1>1. ASSUME NEW c \in Callers, NEW o \in Ops, Call(c, o) PROVE TypeOK'
  BY <1>1, BoundAssumption DEF Call, Labels
<1>2. ASSUME NEW c \in Callers, EnsureMissionGrant(c) PROVE TypeOK'
  <2>1. CASE grant = Absent
    BY <1>0, <1>2, <2>1, FileAssumption DEF EnsureMissionGrant, Took, Labels
  <2>2. CASE grant \in Record
    <3>1. [grant EXCEPT !.status = "expired"] \in Record
      BY <2>2, RecordFacts, Zenon DEF Statuses
    <3> QED BY <1>2, <2>2, <3>1, FileAssumption DEF EnsureMissionGrant, Took, Labels
  <2>3. CASE grant = Torn
    BY <1>0, <1>2, <2>3, FileAssumption
       DEF EnsureMissionGrant, Answer, Return, Labels, Ops
  <2> QED BY <2>1, <2>2, <2>3, Zenon
<1>3. ASSUME NEW c \in Callers, Read(c) PROVE TypeOK'
  <2>1. CASE grant \in Record
    BY <1>3, <2>1, FileAssumption DEF Read, Took, Labels
  <2>2. CASE grant \notin Record
    BY <1>0, <1>3, <2>2 DEF Read, Answer, Return, Labels, Ops
  <2> QED BY <2>1, <2>2, Zenon
<1>4. ASSUME NEW c \in Callers, Decision(c) PROVE TypeOK'
  <2>1. CASE Answer(c)
    BY <1>0, <1>4, <2>1, Zenon DEF Decision, Answer, Return, Labels, Ops
  <2>2. ASSUME NEW g \in Record, NEW answer \in {"answer", "consumed"}, Save(c, g, answer)
        PROVE  TypeOK'
    BY <1>4, <2>2, Zenon DEF Decision, Save, Labels
  <2> QED BY <1>4, <2>1, <2>2, Zenon DEF Decision
<1>5. ASSUME NEW c \in Callers, Truncate(c) PROVE TypeOK'
  BY <1>5, Zenon DEF Truncate, Labels
<1>6. ASSUME NEW c \in Callers, Fill(c) PROVE TypeOK'
  <2>1. mem[c] \in Record
    OBVIOUS
  <2>2. CASE after[c] # "read"
    BY <1>0, <1>6, <2>1, <2>2 DEF Fill, Return, Labels, Ops
  <2>3. CASE after[c] = "read"
    BY <1>6, <2>1, <2>3, Zenon DEF Fill, Labels
  <2> QED BY <2>2, <2>3, Zenon
<1>7. CASE TimePasses
  BY <1>7, Zenon DEF TimePasses
<1>8. CASE Crash
  BY <1>0, <1>8, BoundAssumption DEF Crash, Labels, Ops
<1>9. CASE UNCHANGED vars
  BY <1>9, Zenon DEF vars
<1> QED BY <1>1, <1>2, <1>3, <1>4, <1>5, <1>6, <1>7, <1>8, <1>9, Decisions, Zenon
        DEF Next, Step

(***************************************************************************)
(* The copies respect the limit.                                           *)
(***************************************************************************)

\* No operation on a copy that respects the limit gives one that does not.
LEMMA WithinStep == TypeOK /\ CopiesWithin /\ [Next]_vars => CopiesWithin'
<1> SUFFICES ASSUME TypeOK, CopiesWithin, [Next]_vars PROVE CopiesWithin'
  OBVIOUS
<1> USE DEF file, locals, given, bounds, Local, Goto
<1>0. limit \in Nat \cup {NoLimit} /\ mem \in [Callers -> Record]
  BY LimitAssumption, Zenon DEF TypeOK
<1>1. limit' = limit
  BY Zenon DEF Next, Step, Call, EnsureMissionGrant, Read, ExpireIfNeeded, Approve, Deny, Decide,
         Revoke, ListGrants, Refuse, Consume, Truncate, Fill, TimePasses, Crash, vars
<1>2. \A g : Within(g)' <=> Within(g)
  BY <1>1, Zenon DEF Within
<1>3. Within(NoCopy) /\ NoCopy \in Record
  BY <1>0, RecordFacts, LimitAssumption DEF Within
<1>4. Within(Fresh("approved")) /\ Fresh("approved") \in Record
  <2>1. /\ Fresh("approved") \in Record
        /\ Fresh("approved").status = "approved" /\ Fresh("approved").used = 0
    BY RecordFacts, Zenon DEF Fresh, Statuses
  <2> QED BY <1>0, <2>1, LimitAssumption DEF Within
<1>5. ASSUME NEW c \in Callers, NEW g, Within(g),
             mem' = [mem EXCEPT ![c] = g], UNCHANGED <<grant, last>>
      PROVE  CopiesWithin'
  BY <1>0, <1>2, <1>5, Zenon DEF CopiesWithin
<1>6. ASSUME NEW c \in Callers, EnsureMissionGrant(c) PROVE CopiesWithin'
  <2>1. CASE grant = Absent
    BY <1>4, <1>5, <1>6, <2>1, FileAssumption, Zenon DEF EnsureMissionGrant, Took
  <2>2. CASE grant \in Record
    <3>1. CASE Expires(grant)
      <4>1. Derived(grant, [grant EXCEPT !.status = "expired"], "read")
        BY <2>2, <3>1, RecordFacts, Zenon DEF Derived, Expires, Statuses
      <4>2. Within([grant EXCEPT !.status = "expired"])
        BY <2>2, <4>1, DerivedWithin, Zenon DEF CopiesWithin
      <4> QED BY <1>5, <1>6, <2>2, <3>1, <4>2, FileAssumption, Zenon DEF EnsureMissionGrant, Took
    <3>2. CASE ~Expires(grant)
      BY <1>2, <1>6, <2>2, <3>2, FileAssumption, Zenon DEF EnsureMissionGrant, CopiesWithin
    <3> QED BY <3>1, <3>2, Zenon
  <2>3. CASE grant = Torn
    BY <1>3, <1>5, <1>6, <2>3, FileAssumption, Zenon DEF EnsureMissionGrant, Answer, Return
  <2> QED BY <2>1, <2>2, <2>3, Zenon DEF TypeOK
<1>7. ASSUME NEW c \in Callers, Read(c) PROVE CopiesWithin'
  <2>1. CASE grant \in Record
    BY <1>5, <1>7, <2>1, FileAssumption, Zenon DEF Read, Took, CopiesWithin
  <2>2. CASE grant \notin Record
    BY <1>3, <1>5, <1>7, <2>2, Zenon DEF Read, Answer, Return
  <2> QED BY <2>1, <2>2, Zenon
<1>8. ASSUME NEW c \in Callers, Decision(c) PROVE CopiesWithin'
  <2>1. CASE Answer(c)
    BY <1>3, <1>5, <2>1, Zenon DEF Answer, Return
  <2>2. ASSUME NEW g \in Record, NEW answer \in {"answer", "consumed"},
               Derived(mem[c], g, answer), Save(c, g, answer)
        PROVE  CopiesWithin'
    <3>1. mem[c] \in Record /\ Within(mem[c])
      BY <1>0, Zenon DEF CopiesWithin
    <3>2. Within(g)
      BY <2>2, <3>1, DerivedWithin, Zenon
    <3> QED BY <1>5, <2>2, <3>2, Zenon DEF Save
  <2> QED BY <1>8, <2>1, <2>2, Zenon DEF Decision
<1>9. ASSUME NEW c \in Callers, Truncate(c) PROVE CopiesWithin'
  BY <1>2, <1>9, FileAssumption, Zenon DEF Truncate, CopiesWithin
<1>10. ASSUME NEW c \in Callers, Fill(c) PROVE CopiesWithin'
  <2>1. grant' \in Record => Within(grant')
    BY <1>10, FileAssumption, Zenon DEF Fill, CopiesWithin
  <2>2. Within(last')
    BY <1>10, Zenon DEF Fill, CopiesWithin
  <2>3. \A d \in Callers : Within(mem'[d])
    BY <1>0, <1>3, <1>10, Zenon DEF Fill, Return, CopiesWithin
  <2> QED BY <1>2, <2>1, <2>2, <2>3, Zenon DEF CopiesWithin
<1>11. CASE Crash
  BY <1>2, <1>3, <1>11, Zenon DEF Crash, CopiesWithin
<1>12. ASSUME UNCHANGED <<grant, last, mem>> PROVE CopiesWithin'
  BY <1>2, <1>12, Zenon DEF CopiesWithin
<1> QED BY <1>6, <1>7, <1>8, <1>9, <1>10, <1>11, <1>12, Decisions, Zenon
        DEF Next, Step, Call, TimePasses, vars

(***************************************************************************)
(* The record is exact until a stale copy is saved.                        *)
(***************************************************************************)

\* In the initial states nobody holds a copy and nothing has been used.
LEMMA ExactInit == Init => CopiesWithin /\ Exact
<1> SUFFICES ASSUME Init PROVE CopiesWithin /\ Exact
  OBVIOUS
<1>1. /\ Fresh("pending") \in Record
      /\ Fresh("pending").used = 0 /\ Fresh("pending").status = "pending"
  BY Zenon DEF Fresh, Record, Statuses
<1>2. Within(Fresh("pending"))
  <2>1. limit \in Nat \cup {NoLimit}
    BY LimitAssumption, TypeInit, Zenon DEF TypeOK
  <2> QED BY <1>1, <2>1, LimitAssumption DEF Within
<1>3. CopiesWithin
  BY <1>2, FileAssumption, Zenon DEF Init, CopiesWithin, NoCopy
<1>4. uses = IF Current = Absent THEN 0 ELSE Current.used
  <2>1. grant \in {Absent, Fresh("pending")} /\ uses = 0
    BY Zenon DEF Init
  <2>2. Current = grant
    BY <1>1, <2>1, FileAssumption, Zenon DEF Current
  <2> QED BY <1>1, <2>1, <2>2, Zenon
<1>5. \A c \in Callers : pc[c] = "idle"
  BY Zenon DEF Init
<1> QED BY <1>3, <1>4, <1>5, Zenon DEF Exact, CopyExact, OpenExact

\* Every step keeps the record exact.
LEMMA ExactStep == TypeOK /\ Exact /\ [Next]_vars => Exact'
<1> SUFFICES ASSUME TypeOK, Exact, [Next]_vars PROVE Exact'
  OBVIOUS
<1> USE DEF file, locals, given, bounds, Local, Goto
<1>1. /\ pc \in [Callers -> Labels] /\ mem \in [Callers -> Record]
      /\ after \in [Callers -> {"answer", "consumed", "read"}]
      /\ grant \in Record \cup {Absent, Torn}
  BY SMTT(30) DEF TypeOK
<1>2. limit' = limit
  BY Zenon
     DEF Next, Step, Call, EnsureMissionGrant, Read, ExpireIfNeeded, Approve, Deny, Decide,
         Revoke, ListGrants, Refuse, Consume, Truncate, Fill, TimePasses, Crash, vars
<1>3. \A r, g, a : Derived(r, g, a)' <=> Derived(r, g, a)
  BY <1>2 DEF Derived, Used, Spent
\* A step of one caller that leaves the file alone.
<1>4. ASSUME NEW c \in Callers,
             UNCHANGED <<grant, last, overwritten, uses>>,
             stale' = stale \/ stale' = stale \ {c},
             NEW g, NEW a, NEW l,
             pc' = [pc EXCEPT ![c] = l],
             mem' = [mem EXCEPT ![c] = g],
             after' = [after EXCEPT ![c] = a],
             pc[c] # "fill", l # "fill",
             ~overwritten /\ c \notin stale' =>
               /\ l = "decide" => Current = g
               /\ l = "truncate" => Derived(Current, g, a),
             l \in {"decide", "truncate"} =>
               grant # Torn \/ (pc[c] = "decide" /\ stale' = stale)
      PROVE  Exact'
  <2> SUFFICES ASSUME ~overwritten
               PROVE  /\ uses' = IF Current' = Absent THEN 0 ELSE Current'.used
                      /\ \A d \in Callers : CopyExact(d)' /\ OpenExact(d)'
    BY <1>4, Zenon DEF Exact
  <2>1. Current' = Current
    BY <1>4, Zenon DEF Current
  <2>2. \A d \in Callers : CopyExact(d) /\ OpenExact(d)
    BY Zenon DEF Exact
  <2>3. ASSUME NEW d \in Callers PROVE CopyExact(d)'
    <3>1. CASE d = c
      BY <1>1, <1>3, <1>4, <2>1, <3>1, Zenon DEF CopyExact
    <3>2. CASE d # c
      BY <1>1, <1>3, <1>4, <2>1, <2>2, <3>2, Zenon DEF CopyExact
    <3> QED BY <3>1, <3>2, Zenon
  <2>4. ASSUME NEW d \in Callers, pc'[d] = "fill" PROVE OpenExact(d)'
    <3>1. d # c /\ pc[d] = "fill"
      BY <1>1, <1>4, <2>4, Zenon
    <3>2. /\ d \notin stale /\ grant = Torn /\ Derived(last, mem[d], after[d])
          /\ \A e \in Callers \ {d} :
               pc[e] # "fill" /\ (pc[e] \in {"decide", "truncate"} => e \in stale)
      BY <2>2, <3>1, Zenon DEF OpenExact
    <3>3. d \notin stale' /\ grant' = Torn /\ Derived(last, mem[d], after[d])'
      BY <1>1, <1>3, <1>4, <3>1, <3>2, Zenon
    <3>4. ASSUME NEW e \in Callers \ {d}
          PROVE  pc'[e] # "fill" /\ (pc'[e] \in {"decide", "truncate"} => e \in stale')
      BY <1>1, <1>4, <3>1, <3>2, Zenon
    <3> QED BY <3>3, <3>4, Zenon DEF OpenExact
  <2>5. uses' = IF Current' = Absent THEN 0 ELSE Current'.used
    BY <1>4, <2>1, Zenon DEF Exact
  <2> QED BY <2>3, <2>4, <2>5, Zenon DEF OpenExact
<1>5. ASSUME NEW c \in Callers, NEW o \in Ops, Call(c, o) PROVE Exact'
  <2> DEFINE l == IF kind = "mission" /\ o \in {"check", "consume"} THEN "ensure" ELSE "read"
  <2>1. mem' = [mem EXCEPT ![c] = mem[c]] /\ after' = [after EXCEPT ![c] = after[c]]
    BY <1>1, <1>5, Zenon DEF Call
  <2>2. pc' = [pc EXCEPT ![c] = l] /\ l \notin {"decide", "truncate", "fill"} /\ pc[c] = "idle"
    BY <1>5, Zenon DEF Call, At
  <2>3. UNCHANGED <<grant, last, overwritten, uses, stale>>
    BY <1>5, Zenon DEF Call
  <2> HIDE DEF l
  <2> QED BY <1>4, <2>1, <2>2, <2>3, Zenon
<1>6. ASSUME NEW c \in Callers, Answer(c), Local, pc[c] # "fill" PROVE Exact'
  BY <1>4, <1>6, Zenon DEF Answer, Return
<1>7. ASSUME NEW c \in Callers, EnsureMissionGrant(c) PROVE Exact'
  <2>0. pc[c] = "ensure"
    BY <1>7, Zenon DEF EnsureMissionGrant, At
  <2>1. CASE grant = Absent
    <3>1. Derived(Current, Fresh("approved"), "read")
      BY <2>1, FileAssumption, Zenon DEF Current, Derived
    <3> QED BY <1>4, <1>7, <2>0, <2>1, <3>1, FileAssumption, Zenon DEF EnsureMissionGrant, Took
  <2>2. CASE grant \in Record /\ Expires(grant)
    <3>1. Derived(grant, [grant EXCEPT !.status = "expired"], "read")
      BY <2>2, RecordFacts, Zenon DEF Derived, Expires, Statuses
    <3>2. Current = grant /\ grant # Torn /\ grant # Absent
      BY <2>2, FileAssumption, Zenon DEF Current
    <3> QED BY <1>4, <1>7, <2>0, <2>2, <3>1, <3>2, Zenon DEF EnsureMissionGrant, Took
  <2>3. CASE grant \in Record /\ ~Expires(grant)
    <3>1. mem' = [mem EXCEPT ![c] = mem[c]] /\ after' = [after EXCEPT ![c] = after[c]]
      BY <1>1, <1>7, <2>3, FileAssumption, Zenon DEF EnsureMissionGrant
    <3>2. pc' = [pc EXCEPT ![c] = "read"] /\ UNCHANGED <<grant, last, overwritten, uses, stale>>
      BY <1>7, <2>3, FileAssumption, Zenon DEF EnsureMissionGrant
    <3> QED BY <1>4, <2>0, <3>1, <3>2, Zenon
  <2>4. CASE grant = Torn
    BY <1>6, <1>7, <2>0, <2>4, FileAssumption, Zenon DEF EnsureMissionGrant
  <2> QED BY <1>1, <2>1, <2>2, <2>3, <2>4, Zenon
<1>8. ASSUME NEW c \in Callers, Read(c) PROVE Exact'
  <2>0. pc[c] = "read"
    BY <1>8, Zenon DEF Read, At
  <2>1. CASE grant \in Record
    <3>1. Current = grant /\ grant # Torn
      BY <2>1, FileAssumption, Zenon DEF Current
    <3>2. after' = [after EXCEPT ![c] = after[c]]
      BY <1>1, <1>8, <2>1, FileAssumption, Zenon DEF Read
    <3> QED BY <1>4, <1>8, <2>0, <2>1, <3>1, <3>2, FileAssumption, Zenon DEF Read, Took
  <2>2. CASE grant \notin Record
    BY <1>6, <1>8, <2>0, <2>2, Zenon DEF Read
  <2> QED BY <2>1, <2>2, Zenon
<1>9. ASSUME NEW c \in Callers, Decision(c) PROVE Exact'
  <2>0. pc[c] = "decide" /\ Local
    BY <1>9, Zenon DEF Decision, At
  <2>1. CASE Answer(c)
    BY <1>6, <2>0, <2>1, Zenon
  <2>2. ASSUME NEW g \in Record, NEW answer \in {"answer", "consumed"},
               Derived(mem[c], g, answer), Save(c, g, answer)
        PROVE  Exact'
    <3>1. ~overwritten /\ c \notin stale => Current = mem[c]
      BY <2>0, Zenon DEF Exact, CopyExact
    <3> QED BY <1>4, <2>0, <2>2, <3>1, Zenon DEF Save
  <2> QED BY <1>9, <2>1, <2>2, Zenon DEF Decision
<1>10. ASSUME NEW c \in Callers, Truncate(c) PROVE Exact'
  <2>1. /\ pc[c] = "truncate" /\ pc' = [pc EXCEPT ![c] = "fill"] /\ grant' = Torn
        /\ last' = Current /\ stale' = stale \cup (Callers \ {c})
        /\ overwritten' = (overwritten \/ c \in stale)
        /\ UNCHANGED <<mem, after, uses>>
    BY <1>10, Zenon DEF Truncate, At, Current
  <2> SUFFICES ASSUME ~overwritten, c \notin stale
               PROVE  /\ uses' = IF Current' = Absent THEN 0 ELSE Current'.used
                      /\ \A d \in Callers : CopyExact(d)' /\ OpenExact(d)'
    BY <2>1, Zenon DEF Exact
  <2>2. Current' = Current
    BY <2>1, Zenon DEF Current
  <2>3. uses' = IF Current' = Absent THEN 0 ELSE Current'.used
    BY <2>1, <2>2, Zenon DEF Exact
  <2>4. Derived(last', mem'[c], after'[c])
    BY <2>1, Zenon DEF Exact, CopyExact
  <2>5. \A d \in Callers \ {c} : pc[d] # "fill" /\ pc'[d] = pc[d] /\ d \in stale'
    BY <1>1, <2>1, Zenon DEF Exact, OpenExact
  <2>6. pc'[c] = "fill" /\ c \notin stale'
    BY <1>1, <2>1, Zenon
  <2>7. OpenExact(c)'
    BY <1>3, <2>1, <2>4, <2>5, <2>6, Zenon DEF OpenExact
  <2> QED BY <2>3, <2>5, <2>6, <2>7, Zenon DEF CopyExact, OpenExact
<1>11. ASSUME NEW c \in Callers, Fill(c) PROVE Exact'
  <2> SUFFICES ASSUME ~overwritten
               PROVE  /\ uses' = IF Current' = Absent THEN 0 ELSE Current'.used
                      /\ \A d \in Callers : CopyExact(d)' /\ OpenExact(d)'
    BY <1>11, Zenon DEF Exact, Fill
  <2>1. pc[c] = "fill" /\ OpenExact(c)
    BY <1>11, Zenon DEF Fill, At, Exact
  <2>2. /\ grant = Torn /\ Derived(last, mem[c], after[c])
        /\ \A d \in Callers \ {c} :
             pc[d] # "fill" /\ (pc[d] \in {"decide", "truncate"} => d \in stale)
    BY <2>1, Zenon DEF OpenExact
  <2>3. /\ grant' = mem[c] /\ stale' = stale
        /\ uses' = IF after[c] = "consumed" THEN uses + 1 ELSE uses
    BY <1>11, <2>2, Zenon DEF Fill, At
  <2>4. mem[c] \in Record /\ Current' = mem[c]
    BY <1>1, <2>3, FileAssumption, Zenon DEF Current
  <2>5. uses' = Current'.used
    <3>1. uses = (IF last = Absent THEN 0 ELSE last.used)
      BY <2>2, Zenon DEF Exact, Current
    <3>2. CASE last = Absent
      BY <2>2, <2>3, <2>4, <3>1, <3>2, FileAssumption DEF Derived, Fresh
    <3>3. CASE last \in Record
      <4>1. last # Absent /\ uses = last.used /\ last.used \in Nat
        BY <3>1, <3>3, FileAssumption, RecordFacts, Zenon
      <4>2. CASE after[c] = "consumed"
        BY <2>2, <2>3, <2>4, <4>1, <4>2 DEF Derived, Used
      <4>3. CASE after[c] # "consumed"
        <5>1. PICK s \in Statuses : mem[c] = [last EXCEPT !.status = s]
          BY <2>2, <4>1, <4>3, Zenon DEF Derived
        <5>2. mem[c].used = last.used
          BY <3>3, <5>1, Zenon DEF Record
        <5> QED BY <2>3, <2>4, <4>1, <4>3, <5>2, Zenon
      <4> QED BY <4>2, <4>3, Zenon
    <3> QED BY <3>2, <3>3, Zenon DEF TypeOK
  <2>6. /\ pc'[c] \in {"idle", "read"}
        /\ \A d \in Callers \ {c} : pc'[d] = pc[d]
    BY <1>1, <1>11, Zenon DEF Fill, Return
  <2> QED BY <2>2, <2>3, <2>4, <2>5, <2>6, FileAssumption, Zenon DEF CopyExact, OpenExact
<1>12. CASE Crash
  <2>1. UNCHANGED <<grant, last, overwritten, uses>> /\ \A d \in Callers : pc'[d] = "idle"
    BY <1>12, Zenon DEF Crash
  <2>2. Current' = Current
    BY <2>1, Zenon DEF Current
  <2> QED BY <2>1, <2>2, Zenon DEF Exact, CopyExact, OpenExact
<1>13. ASSUME UNCHANGED <<file, locals, uses>> PROVE Exact'
  <2>1. Current' = Current
    BY <1>13, Zenon DEF Current
  <2> QED BY <1>3, <1>13, <2>1, Zenon DEF Exact, CopyExact, OpenExact
<1> QED BY <1>5, <1>7, <1>8, <1>9, <1>10, <1>11, <1>12, <1>13, Decisions, Zenon
        DEF Next, Step, TimePasses, vars

(***************************************************************************)
(* The theorems.                                                           *)
(***************************************************************************)

\* The inductive invariant holds in every reachable state.
THEOREM Inductive == Spec => []IndInv
<1>1. Init => IndInv
  BY TypeInit, ExactInit, Zenon DEF IndInv
<1>2. IndInv /\ [Next]_vars => IndInv'
  BY TypeStep, WithinStep, ExactStep, Zenon DEF IndInv
<1> QED BY <1>1, <1>2, PTL DEF Spec

\* Every variable of the service's model keeps its type.
THEOREM TypeCorrect == Spec => []TypeOK
<1>1. IndInv => TypeOK
  BY Zenon DEF IndInv
<1> QED BY <1>1, Inductive, PTL

\* The file of a grant never records more uses than max_uses allows, however
\* many callers read, decide and save at once.
THEOREM LimitRecorded == Spec => []RecordWithinLimit
<1>1. IndInv => RecordWithinLimit
  BY Zenon DEF IndInv, CopiesWithin, Within, RecordWithinLimit
<1> QED BY <1>1, Inductive, PTL

\* While no stale copy has been saved, the record counts exactly the uses
\* that consume() has granted.
THEOREM UsesCounted == Spec => []UsesExactUntilOverwritten
<1>1. ASSUME IndInv PROVE UsesExactUntilOverwritten
  <2> SUFFICES ASSUME ~overwritten, grant \in Record
               PROVE  uses = grant.used /\ (limit # NoLimit => uses <= limit)
    BY Zenon DEF UsesExactUntilOverwritten
  <2>1. Current = grant /\ grant # Absent
    BY FileAssumption, Zenon DEF Current
  <2>2. uses = grant.used
    BY <1>1, <2>1, Zenon DEF IndInv, Exact
  <2>3. limit # NoLimit => grant.used <= limit
    BY <1>1, Zenon DEF IndInv, CopiesWithin, Within
  <2> QED BY <2>2, <2>3, Zenon
<1> QED BY <1>1, Inductive, PTL

\* A half-written record stays as it is: no call uses, decides or replaces the
\* grant.
THEOREM TornStays == Spec => TornFailsClosed
<1>1. TypeOK /\ [Next]_vars => [Stuck => Stuck' /\ uses' = uses]_vars
  <2> SUFFICES ASSUME TypeOK, Next, Stuck PROVE Stuck' /\ uses' = uses
    BY Zenon DEF TypeOK
  <2> USE DEF file, locals, given, bounds, Local, Goto, Stuck
  <2>0. pc \in [Callers -> Labels] /\ grant = Torn /\ Torn \notin Record /\ Torn # Absent
    BY FileAssumption, Zenon DEF TypeOK
  <2>1. ASSUME NEW c \in Callers, Step(c) PROVE Stuck' /\ uses' = uses
    <3>1. EnsureMissionGrant(c) \/ Read(c)
      BY <2>0, <2>1, Zenon DEF Step, ExpireIfNeeded, Approve, Deny, Decide, Decides, Revoke,
                        ListGrants, Refuse, Consume, Truncate, Fill, At
    <3> QED BY <2>0, <3>1, Zenon DEF EnsureMissionGrant, Read, Answer, Return
  <2>2. ASSUME NEW c \in Callers, NEW o \in Ops, Call(c, o) PROVE Stuck' /\ uses' = uses
    BY <2>0, <2>2, Zenon DEF Call
  <2> QED BY <2>0, <2>1, <2>2, Zenon DEF Next, TimePasses, Crash
<1> QED BY <1>1, TypeCorrect, PTL DEF Spec, TornFailsClosed

\* The calls, with their separate reads and saves, implement the ledger.
THEOREM Refinement == Spec => ImplementsLedger
<1>1. ASSUME Init PROVE Ledger!Init
  BY <1>1, LimitAssumption, FileAssumption, RecordFacts, ZenonT(40)
     DEF Init, Ledger!Init, Ledger!Fresh, Fresh, Statuses
<1>2. ASSUME IndInv, IndInv', [Next]_vars PROVE [Ledger!Next]_Ledger!vars
  <2> USE DEF file, locals, given, bounds, Local, Goto
  <2>1. limit' = limit /\ TypeOK /\ Exact /\ CopiesWithin
    BY <1>2, Zenon DEF IndInv, Next, Step, Call, EnsureMissionGrant, Read, ExpireIfNeeded, Approve,
                Deny, Decide, Revoke, ListGrants, Refuse, Consume, Truncate, Fill,
                TimePasses, Crash, vars
  <2>2. ASSUME UNCHANGED <<grant, last, overwritten, uses>>
        PROVE  UNCHANGED Ledger!vars
    BY <2>1, <2>2, Zenon DEF Ledger!vars
  <2>3. ASSUME NEW c \in Callers, Truncate(c) PROVE [Ledger!Next]_Ledger!vars
    <3>1. Current' = Current /\ uses' = uses
      BY <2>3, Zenon DEF Truncate, Current
    <3>2. overwritten' = (overwritten \/ c \in stale)
      BY <2>3, Zenon DEF Truncate
    <3>3. overwritten \in BOOLEAN
      BY <2>1, Zenon DEF TypeOK
    <3>4. CASE ~overwritten /\ c \in stale
      BY <2>1, <3>1, <3>2, <3>4, Zenon DEF Current, Ledger!Next, Ledger!Spoil
    <3>5. CASE overwritten \/ c \notin stale
      <4>1. overwritten' = overwritten
        BY <3>2, <3>3, <3>5, Zenon
      <4> QED BY <2>1, <3>1, <4>1, Zenon DEF Current, Ledger!vars
    <3> QED BY <3>4, <3>5, Zenon
  <2>4. ASSUME NEW c \in Callers, Fill(c) PROVE [Ledger!Next]_Ledger!vars
    <3>1. overwritten' = overwritten
      BY <2>4, Zenon DEF Fill
    <3>2. CASE overwritten
      BY <2>1, <3>1, <3>2, Zenon DEF Ledger!Next, Ledger!Void
    <3>3. CASE ~overwritten
      <4>1. pc[c] = "fill" /\ OpenExact(c) /\ mem[c] \in Record
        BY <2>1, <2>4, <3>3, Zenon DEF Fill, At, Exact, TypeOK
      <4>2. /\ grant = Torn /\ Derived(last, mem[c], after[c])
            /\ \A d \in Callers \ {c} : pc[d] # "fill"
        BY <4>1, Zenon DEF OpenExact
      <4>3. /\ grant' = mem[c]
            /\ uses' = IF after[c] = "consumed" THEN uses + 1 ELSE uses
        BY <2>4, <4>2, Zenon DEF Fill, At
      <4>4. Current = last /\ Current' = mem[c]
        BY <4>1, <4>2, <4>3, FileAssumption, Zenon DEF Current
      <4>5. CASE last = Absent
        <5>1. after[c] # "consumed" /\ mem[c] = Fresh("approved")
          BY <4>2, <4>5, FileAssumption, Zenon DEF Derived
        <5>2. Ledger!Establish
          BY <4>3, <4>4, <4>5, <5>1, Zenon DEF Ledger!Establish, Ledger!Fresh, Fresh, Current
        <5> QED BY <2>1, <3>1, <3>3, <5>2, Zenon DEF Ledger!Next, Ledger!Keep
      <4>6. CASE last \in Record /\ after[c] = "consumed"
        <5>1. /\ last # Absent /\ last.status = "approved" /\ ~Spent(last.used)
              /\ mem[c] = Used(last)
          BY <4>2, <4>6, FileAssumption, Zenon DEF Derived
        <5>2. Ledger!Use
          BY <4>3, <4>4, <4>6, <5>1, Zenon DEF Ledger!Use, Ledger!Spent, Spent, Used, Current
        <5> QED BY <2>1, <3>1, <3>3, <5>2, Zenon DEF Ledger!Next, Ledger!Keep
      <4>7. CASE last \in Record /\ after[c] # "consumed"
        <5>1. last # Absent /\ uses' = uses
          BY <4>3, <4>7, FileAssumption, Zenon
        <5>2. PICK s \in Statuses :
                /\ \/ last.status = "pending" /\ s \in {"approved", "denied"}
                   \/ last.status \in {"pending", "approved", "denied"} /\ s = "revoked"
                   \/ last.status \in {"pending", "approved"} /\ s = "expired"
                /\ mem[c] = [last EXCEPT !.status = s]
          BY <4>2, <4>7, <5>1, Zenon DEF Derived
        <5>3. \/ Ledger!SetStatus({"pending"}, "approved")
              \/ Ledger!SetStatus({"pending"}, "denied")
              \/ Ledger!SetStatus({"pending", "approved", "denied"}, "revoked")
              \/ Ledger!SetStatus({"pending", "approved"}, "expired")
          BY <4>4, <5>1, <5>2, Zenon DEF Ledger!SetStatus, Current
        <5> QED BY <2>1, <3>1, <3>3, <5>3, Zenon DEF Ledger!Next, Ledger!Keep
      <4> QED BY <2>1, <4>5, <4>6, <4>7, Zenon DEF TypeOK
    <3> QED BY <3>2, <3>3, Zenon
  <2>5. ASSUME NEW c \in Callers, EnsureMissionGrant(c) \/ Read(c) \/ Decision(c)
        PROVE  UNCHANGED <<grant, last, overwritten, uses>>
    BY <2>5, Zenon DEF EnsureMissionGrant, Read, Decision, Took, Answer, Save
  <2> QED BY <1>2, <2>1, <2>2, <2>3, <2>4, <2>5, Decisions, Zenon
          DEF Next, Step, Call, TimePasses, Crash, vars
<1> QED BY <1>1, <1>2, Inductive, PTL DEF Spec, ImplementsLedger, Ledger!Spec
=============================================================================
