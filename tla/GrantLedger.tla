----------------------------- MODULE GrantLedger -----------------------------
(* What an authority grant promises to the people who give it and to the   *)
(* tools that use it: one record that changes in single steps.  A grant is *)
(* decided once, is used only while it is approved and never more often    *)
(* than its limit, and an ended grant stays ended.  The promise is void    *)
(* from the moment the record is spoiled: somebody has written the record  *)
(* over a version they had not seen.                                       *)
EXTENDS Naturals

CONSTANTS
  Absent,       \* there is no record yet
  NoLimit       \* max_uses is None

VARIABLES
  record,       \* status and use count of the grant, or Absent
  uses,         \* uses that were granted
  limit,        \* max_uses
  spoiled       \* a version of the record has been lost

vars == <<record, uses, limit, spoiled>>

Statuses == {"pending", "approved", "denied", "expired", "revoked"}

Record == [status : Statuses, used : Nat]

Fresh(status) == [status |-> status, used |-> 0]

\* status after the used-th use.
Spent(used) == limit # NoLimit /\ used >= limit

SetStatus(from, to) ==
  /\ record # Absent
  /\ record.status \in from
  /\ record' = [record EXCEPT !.status = to]
  /\ UNCHANGED uses

Establish ==
  /\ record = Absent
  /\ record' = Fresh("approved")
  /\ UNCHANGED uses

Use ==
  /\ record # Absent
  /\ record.status = "approved"
  /\ ~Spent(record.used)
  /\ record' = [status |-> IF Spent(record.used + 1) THEN "expired" ELSE "approved",
                used |-> record.used + 1]
  /\ uses' = uses + 1

Init ==
  /\ record \in {Absent, Fresh("pending")}
  /\ uses = 0
  /\ limit \in Nat \cup {NoLimit}
  /\ spoiled = FALSE

Keep ==
  /\ ~spoiled
  /\ \/ Establish
     \/ SetStatus({"pending"}, "approved")
     \/ SetStatus({"pending"}, "denied")
     \/ SetStatus({"pending", "approved", "denied"}, "revoked")
     \/ SetStatus({"pending", "approved"}, "expired")
     \/ Use
  /\ UNCHANGED <<limit, spoiled>>

Spoil == ~spoiled /\ spoiled' = TRUE /\ UNCHANGED <<record, uses, limit>>

Void == spoiled /\ UNCHANGED <<limit, spoiled>>

Next == Keep \/ Spoil \/ Void

Spec == Init /\ [][Next]_vars
=============================================================================
