--------------------------- MODULE AuthorityGrant ---------------------------
(* AuthorityGrantService for one grant: a JSON file that request threads   *)
(* read, decide on and write back, without a lock and without a temporary  *)
(* file.  A save first empties the file and then fills it (write_text); a  *)
(* reader in between, or after a stop in between, cannot parse it.  A      *)
(* session grant is created pending and decided by chat commands; a        *)
(* mission grant is created approved, by the first decision_for_contract.  *)
EXTENDS Naturals

CONSTANTS
  Callers,      \* request threads
  Limits,       \* values of max_uses, besides None
  NoLimit,      \* max_uses is None
  Absent,       \* the file does not exist
  Torn,         \* the file exists and cannot be parsed
  MaxCalls,     \* bound: calls of the service
  MaxCrashes    \* bound: restarts of the process

ASSUME LimitAssumption == Limits \subseteq Nat /\ NoLimit \notin Nat
ASSUME BoundAssumption == MaxCalls \in Nat /\ MaxCrashes \in Nat

Statuses == {"pending", "approved", "denied", "expired", "revoked"}

Record == [status : Statuses, used : Nat]

ASSUME FileAssumption == Absent \notin Record /\ Torn \notin Record /\ Absent # Torn

VARIABLES
  grant,        \* contents of the grant's file
  kind,         \* "mission" when the grant is bound to a mission contract
  limit,        \* max_uses, written once
  due,          \* expires_at has passed
  pc,           \* next step of each caller
  op,           \* the method it is in
  mem,          \* its copy of the grant
  after,        \* what it does after a save
  last,         \* history: the last complete record of the file
  stale,        \* history: callers whose copy the file has moved away from
  overwritten,  \* history: somebody has saved a stale copy
  uses,         \* history: calls that answered grant_consumed
  calls,        \* calls so far
  crashes       \* restarts so far

file == <<grant, last, stale, overwritten>>
locals == <<pc, op, mem, after>>
given == <<kind, limit>>
bounds == <<calls, crashes>>
vars == <<file, locals, given, bounds, due, uses>>

Ops == {"approve", "deny", "revoke", "list", "check", "consume"}
Labels == {"idle", "ensure", "read", "decide", "truncate", "fill"}

Fresh(status) == [status |-> status, used |-> 0]

NoCopy == Fresh("pending")

At(c, label) == pc[c] = label

Goto(c, label) == pc' = [pc EXCEPT ![c] = label]

Spent(used) == limit # NoLimit /\ used >= limit

\* _expire_if_needed finds something to expire.
Expires(g) == g.status \in {"pending", "approved"} /\ due

(***************************************************************************)
(* Calls.                                                                  *)
(***************************************************************************)

\* decision_for_contract first ensures the mission's grant; chat commands and
\* direct calls go to the method at once.
Call(c, o) ==
  /\ At(c, "idle")
  /\ calls < MaxCalls
  /\ calls' = calls + 1
  /\ op' = [op EXCEPT ![c] = o]
  /\ Goto(c, IF kind = "mission" /\ o \in {"check", "consume"} THEN "ensure" ELSE "read")
  /\ UNCHANGED <<file, mem, after, given, crashes, due, uses>>

\* The copy a caller works on from here on.
Took(c, g) ==
  /\ mem' = [mem EXCEPT ![c] = g]
  /\ stale' = stale \ {c}
  /\ UNCHANGED <<grant, last, overwritten>>

\* The method returns or raises, and its locals are gone.
Return(c) ==
  /\ pc' = [pc EXCEPT ![c] = "idle"]
  /\ op' = [op EXCEPT ![c] = "list"]
  /\ mem' = [mem EXCEPT ![c] = NoCopy]
  /\ after' = [after EXCEPT ![c] = "answer"]

Answer(c) == Return(c) /\ UNCHANGED file

\* The method goes on to save g, and then to its answer: "consumed" is the
\* one that grants a use.
Save(c, g, answer) ==
  /\ Goto(c, "truncate")
  /\ mem' = [mem EXCEPT ![c] = g]
  /\ after' = [after EXCEPT ![c] = answer]
  /\ UNCHANGED <<op, file>>

Local == UNCHANGED <<given, bounds, due, uses>>

\* Mutant: a file that cannot be parsed counts as a missing one.
EnsureOverTorn(c) ==
  /\ At(c, "ensure")
  /\ \/ /\ grant \in {Absent, Torn}
        /\ Took(c, Fresh("approved"))
        /\ Goto(c, "truncate")
        /\ after' = [after EXCEPT ![c] = "read"]
        /\ UNCHANGED op
     \/ /\ grant \in Record
        /\ Goto(c, "read")
        /\ UNCHANGED <<file, op, mem, after>>
  /\ Local

\* ensure_mission_grant: the first caller creates the grant; a later one binds
\* to it, and expires it when it is due.
EnsureMissionGrant(c) ==
  /\ At(c, "ensure")
  /\ \/ /\ grant = Absent
        /\ Took(c, Fresh("approved"))
        /\ Goto(c, "truncate")
        /\ after' = [after EXCEPT ![c] = "read"]
        /\ UNCHANGED op
     \/ /\ grant \in Record
        /\ IF Expires(grant)
           THEN /\ Took(c, [grant EXCEPT !.status = "expired"])
                /\ Goto(c, "truncate")
                /\ after' = [after EXCEPT ![c] = "read"]
                /\ UNCHANGED op
           ELSE /\ Goto(c, "read")
                /\ UNCHANGED <<file, op, mem, after>>
     \/ /\ grant = Torn
        /\ Answer(c)
  /\ Local

\* _required: a missing or unreadable file raises; list_grants skips it.
Read(c) ==
  /\ At(c, "read")
  /\ \/ /\ grant \in Record
        /\ Took(c, grant)
        /\ Goto(c, "decide")
        /\ UNCHANGED <<op, after>>
     \/ /\ grant \in {Absent, Torn}
        /\ Answer(c)
  /\ Local

(***************************************************************************)
(* The decision on the copy.                                               *)
(***************************************************************************)

Decides(c, o) == At(c, "decide") /\ op[c] = o

\* _expire_if_needed, which every method but revoke() calls first.  An expired
\* grant is neither pending nor approved, so the method then only answers.
ExpireIfNeeded(c) ==
  /\ At(c, "decide")
  /\ op[c] # "revoke"
  /\ Expires(mem[c])
  /\ Save(c, [mem[c] EXCEPT !.status = "expired"], "answer")
  /\ Local

\* Mutant: the status of the copy is not tested.
DecideAnyStatus(c, o, status) ==
  /\ Decides(c, o)
  /\ ~Expires(mem[c])
  /\ Save(c, [mem[c] EXCEPT !.status = status], "answer")
  /\ Local

\* approve() and, through _terminalize_pending, deny().
Decide(c, o, status) ==
  /\ Decides(c, o)
  /\ ~Expires(mem[c])
  /\ IF mem[c].status = "pending"
     THEN Save(c, [mem[c] EXCEPT !.status = status], "answer")
     ELSE Answer(c)
  /\ Local

Approve(c) == Decide(c, "approve", "approved")

Deny(c) == Decide(c, "deny", "denied")

\* Mutant: revoke() writes a status that the schema does not have.
RevokeAsCancelled(c) ==
  /\ Decides(c, "revoke")
  /\ IF mem[c].status \in {"revoked", "expired"}
     THEN Answer(c)
     ELSE Save(c, [mem[c] EXCEPT !.status = "cancelled"], "answer")
  /\ Local

\* revoke() does not look at the clock.
Revoke(c) ==
  /\ Decides(c, "revoke")
  /\ IF mem[c].status \in {"revoked", "expired"}
     THEN Answer(c)
     ELSE Save(c, [mem[c] EXCEPT !.status = "revoked"], "answer")
  /\ Local

ListGrants(c) ==
  /\ Decides(c, "list")
  /\ ~Expires(mem[c])
  /\ Answer(c)
  /\ Local

\* is_effective() without a use, and the part of consume() that refuses: not
\* approved, out of scope (any reason of _scope_reason), or no use left.
Refuse(c) ==
  /\ \/ Decides(c, "check") \/ Decides(c, "consume")
  /\ ~Expires(mem[c])
  /\ \/ Answer(c)
     \/ /\ mem[c].status = "approved"
        /\ Spent(mem[c].used)
        /\ Save(c, [mem[c] EXCEPT !.status = "expired"], "answer")
  /\ Local

\* Mutant: the use is saved before it is counted.
UsedUncounted(g) ==
  [status |-> IF Spent(g.used + 1) THEN "expired" ELSE g.status, used |-> g.used]

Used(g) ==
  [status |-> IF Spent(g.used + 1) THEN "expired" ELSE g.status, used |-> g.used + 1]

\* Mutant: the limit is compared after the use, one too late.
ConsumeOneMore(c) ==
  /\ Decides(c, "consume")
  /\ ~Expires(mem[c])
  /\ mem[c].status = "approved"
  /\ ~(limit # NoLimit /\ mem[c].used > limit)
  /\ Save(c, Used(mem[c]), "consumed")
  /\ Local

Consume(c) ==
  /\ Decides(c, "consume")
  /\ ~Expires(mem[c])
  /\ mem[c].status = "approved"
  /\ ~Spent(mem[c].used)
  /\ Save(c, Used(mem[c]), "consumed")
  /\ Local

(***************************************************************************)
(* save(): write_text empties the file and then writes the record.         *)
(***************************************************************************)

Truncate(c) ==
  /\ At(c, "truncate")
  /\ grant' = Torn
  /\ last' = IF grant = Torn THEN last ELSE grant
  /\ overwritten' = (overwritten \/ c \in stale)
  /\ stale' = stale \cup (Callers \ {c})
  /\ Goto(c, "fill")
  /\ UNCHANGED <<op, mem, after>>
  /\ Local

\* Two callers that have the file open at once may leave a mixture behind: for
\* the moment, or for good when the later record is the shorter one.
Fill(c) ==
  /\ At(c, "fill")
  /\ \/ grant' = mem[c]
     \/ /\ grant # Torn \/ \E d \in Callers \ {c} : At(d, "fill")
        /\ grant' = Torn
  /\ last' = mem[c]
  /\ uses' = IF after[c] = "consumed" THEN uses + 1 ELSE uses
  /\ IF after[c] = "read"
     THEN Goto(c, "read") /\ UNCHANGED <<op, mem, after>>
     ELSE Return(c)
  /\ UNCHANGED <<stale, overwritten, given, bounds, due>>

(***************************************************************************)
(* The environment.                                                        *)
(***************************************************************************)

TimePasses ==
  /\ ~due
  /\ due' = TRUE
  /\ UNCHANGED <<file, locals, given, bounds, uses>>

Crash ==
  /\ crashes < MaxCrashes
  /\ crashes' = crashes + 1
  /\ pc' = [c \in Callers |-> "idle"]
  /\ op' = [c \in Callers |-> "list"]
  /\ mem' = [c \in Callers |-> NoCopy]
  /\ after' = [c \in Callers |-> "answer"]
  /\ UNCHANGED <<file, given, calls, due, uses>>

Init ==
  /\ kind \in {"session", "mission"}
  /\ limit \in IF kind = "mission" THEN {NoLimit} ELSE Limits \cup {NoLimit}
  /\ grant = IF kind = "mission" THEN Absent ELSE Fresh("pending")
  /\ last = grant
  /\ due = FALSE
  /\ pc = [c \in Callers |-> "idle"]
  /\ op = [c \in Callers |-> "list"]
  /\ mem = [c \in Callers |-> NoCopy]
  /\ after = [c \in Callers |-> "answer"]
  /\ stale = {}
  /\ overwritten = FALSE
  /\ uses = 0
  /\ calls = 0
  /\ crashes = 0

Step(c) ==
  \/ EnsureMissionGrant(c) \/ Read(c)
  \/ ExpireIfNeeded(c) \/ Approve(c) \/ Deny(c) \/ Revoke(c) \/ ListGrants(c)
  \/ Refuse(c) \/ Consume(c)
  \/ Truncate(c) \/ Fill(c)

Next ==
  \/ \E c \in Callers : Step(c) \/ \E o \in Ops : Call(c, o)
  \/ TimePasses
  \/ Crash

Spec == Init /\ [][Next]_vars

(***************************************************************************)
(* Properties.                                                             *)
(***************************************************************************)

TypeOK ==
  /\ grant \in Record \cup {Absent, Torn}
  /\ last \in Record \cup {Absent}
  /\ kind \in {"session", "mission"}
  /\ limit \in Limits \cup {NoLimit}
  /\ due \in BOOLEAN
  /\ pc \in [Callers -> Labels]
  /\ op \in [Callers -> Ops]
  /\ mem \in [Callers -> Record]
  /\ after \in [Callers -> {"answer", "consumed", "read"}]
  /\ stale \subseteq Callers
  /\ overwritten \in BOOLEAN
  /\ uses \in Nat
  /\ calls \in 0..MaxCalls
  /\ crashes \in 0..MaxCrashes

\* However the callers overlap, the file never records more uses than
\* max_uses, and a grant whose uses are all recorded is no longer approved:
\* consume() tests the count before it adds to it and ends the grant in the
\* same save.
RecordWithinLimit ==
  grant \in Record /\ limit # NoLimit =>
    /\ grant.used <= limit
    /\ grant.used = limit /\ limit > 0 => grant.status # "approved"

\* As long as no caller has saved a copy over a version it had not read, the
\* use count of the file is the number of uses granted, and so the limit holds
\* for the uses themselves; consume() has no lock, and this is the only way
\* in which a single-use grant is used twice.
UsesExactUntilOverwritten ==
  ~overwritten /\ grant \in Record =>
    /\ uses = grant.used
    /\ limit # NoLimit => uses <= limit

\* The file cannot be parsed, and nobody is about to write it.
Stuck ==
  /\ grant = Torn
  /\ \A c \in Callers : pc[c] \in {"idle", "ensure", "read"}

\* A record that a stop has left half-written fails closed: whatever is called
\* from then on, nobody uses, decides or replaces the grant any more.  In
\* particular the next ensure_mission_grant raises, and does not create a
\* fresh approved grant in the place of one that may have been revoked.
TornFailsClosed == [][Stuck => Stuck' /\ uses' = uses]_vars

\* The grant as the ledger sees it: while a save has the file open, the record
\* is the one before.
Ledger == INSTANCE GrantLedger
  WITH record <- IF grant = Torn THEN last ELSE grant,
       spoiled <- overwritten

\* Calls that read, decide and save in separate steps implement a grant whose
\* record changes in single steps, until the first stale save.
ImplementsLedger == Ledger!Spec
=============================================================================
