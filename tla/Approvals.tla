------------------------------ MODULE Approvals ------------------------------
(* ApprovalService for one approval request: a JSON file that threads read,*)
(* decide on and write back through a temporary file, without a lock.      *)
(* approve, reject, cancel, refresh_policy and attach_runtime_context all  *)
(* start with get_approval, which expires an overdue request.              *)
EXTENDS Naturals

CONSTANTS
  Callers,        \* threads that use the service
  Deciders        \* those that come in through the approval endpoints

ASSUME DeciderAssumption == Deciders \subseteq Callers

VARIABLES
  approval,       \* status in the approval's file
  overdue,        \* expires_at has passed
  apc,            \* next step of each caller
  request,        \* the method it is in
  copy,           \* status in its copy of the request
  then,           \* where it goes on after a save
  requests,       \* calls so far
  consented,      \* history: the file has said "approved"
  behind,         \* history: callers whose copy the file has moved away from
  lost            \* history: somebody has saved such a copy

stored == <<approval, consented, lost>>
asking == <<apc, request, copy, then>>
approvalVars == <<stored, behind, asking, overdue, requests>>

Decisions == {"approved", "rejected", "cancelled"}
Terminal == Decisions \cup {"expired", "invalidated_by_policy_change"}
Statuses == {"pending"} \cup Terminal

\* Methods that the endpoints and the task runtime call.  A get through the
\* endpoint does no more than a decision that comes too late.
Requests == Decisions \cup {"attach", "refresh"}

Asks(c, label) == apc[c] = label

GoesTo(c, label) == apc' = [apc EXCEPT ![c] = label]

\* get_approval() and the methods built on it begin with a read.
Ask(c, o) ==
  /\ Asks(c, "idle")
  /\ apc' = [apc EXCEPT ![c] = "get"]
  /\ request' = [request EXCEPT ![c] = o]
  /\ UNCHANGED <<stored, behind, copy, then, overdue>>

\* A call through the endpoints (or, to attach, from a task run).
Request(c, o) ==
  /\ requests' = requests + 1
  /\ Ask(c, o)

\* The method returns or raises; a get leaves its answer in the copy.
Answered(c, status) ==
  /\ apc' = [apc EXCEPT ![c] = "idle"]
  /\ request' = [request EXCEPT ![c] = "get"]
  /\ copy' = [copy EXCEPT ![c] = status]
  /\ then' = [then EXCEPT ![c] = "idle"]
  /\ behind' = behind \ {c}
  /\ UNCHANGED stored

\* The method goes on to save its copy, with this status.
SaveThen(c, status, label) ==
  /\ GoesTo(c, "save")
  /\ copy' = [copy EXCEPT ![c] = status]
  /\ then' = [then EXCEPT ![c] = label]
  /\ UNCHANGED request

Unasked == UNCHANGED <<overdue, requests>>

\* store.get and _reconcile_expiration.
GetApproval(c) ==
  /\ Asks(c, "get")
  /\ behind' = behind \ {c}
  /\ IF approval = "pending" /\ overdue
     THEN SaveThen(c, "expired", "act")
     ELSE /\ GoesTo(c, "act")
          /\ copy' = [copy EXCEPT ![c] = approval]
          /\ UNCHANGED <<request, then>>
  /\ UNCHANGED stored
  /\ Unasked

Acts(c, o) == Asks(c, "act") /\ request[c] = o

Got(c) ==
  /\ Acts(c, "get")
  /\ Answered(c, copy[c])
  /\ Unasked

\* Mutant: a request that is no longer pending is decided again.
DecideAgain(c, decision) ==
  /\ Acts(c, decision)
  /\ SaveThen(c, IF overdue THEN "expired" ELSE decision, "idle")
  /\ UNCHANGED <<stored, behind>>
  /\ Unasked

\* _decide: only a pending request, and the clock is read once more.
Decide(c, decision) ==
  /\ Acts(c, decision)
  /\ IF copy[c] # "pending"
     THEN Answered(c, "pending")
     ELSE /\ SaveThen(c, IF overdue THEN "expired" ELSE decision, "idle")
          /\ UNCHANGED <<stored, behind>>
  /\ Unasked

\* attach_runtime_context saves its copy whatever the status.
AttachRuntimeContext(c) ==
  /\ Acts(c, "attach")
  /\ SaveThen(c, copy[c], "idle")
  /\ UNCHANGED <<stored, behind>>
  /\ Unasked

\* refresh_policy: a patch approval has no preview, so a pending one is
\* invalidated.
RefreshPolicy(c) ==
  /\ Acts(c, "refresh")
  /\ IF copy[c] = "pending"
     THEN /\ SaveThen(c, "invalidated_by_policy_change", "idle")
          /\ UNCHANGED <<stored, behind>>
     ELSE Answered(c, "pending")
  /\ Unasked

\* store.save: the replacement of the file is one step.
Save(c) ==
  /\ Asks(c, "save")
  /\ approval' = copy[c]
  /\ consented' = (consented \/ copy[c] = "approved")
  /\ lost' = (lost \/ c \in behind)
  /\ behind' = {d \in Callers \ {c} : apc[d] \in {"act", "save"}}
  /\ IF then[c] = "act"
     THEN GoesTo(c, "act") /\ UNCHANGED <<request, copy, then>>
     ELSE /\ GoesTo(c, "idle")
          /\ request' = [request EXCEPT ![c] = "get"]
          /\ copy' = [copy EXCEPT ![c] = "pending"]
          /\ then' = [then EXCEPT ![c] = "idle"]
  /\ Unasked

ApprovalStep(c) ==
  \/ GetApproval(c) \/ Got(c)
  \/ \E decision \in Decisions : Decide(c, decision)
  \/ AttachRuntimeContext(c) \/ RefreshPolicy(c)
  \/ Save(c)

TimePasses ==
  /\ ~overdue
  /\ overdue' = TRUE
  /\ UNCHANGED <<stored, behind, asking, requests>>

\* request_approval has created the request.
ApprovalInit ==
  /\ approval = "pending"
  /\ overdue = FALSE
  /\ apc = [c \in Callers |-> "idle"]
  /\ request = [c \in Callers |-> "get"]
  /\ copy = [c \in Callers |-> "pending"]
  /\ then = [c \in Callers |-> "idle"]
  /\ requests = 0
  /\ consented = FALSE
  /\ behind = {}
  /\ lost = FALSE

ApprovalTypeOK ==
  /\ approval \in Statuses
  /\ overdue \in BOOLEAN
  /\ apc \in [Callers -> {"idle", "get", "act", "save"}]
  /\ request \in [Callers -> Requests \cup {"get"}]
  /\ copy \in [Callers -> Statuses]
  /\ then \in [Callers -> {"idle", "act"}]
  /\ requests \in Nat
  /\ consented \in BOOLEAN
  /\ behind \subseteq Callers
  /\ lost \in BOOLEAN

\* A decision stands: once the file says approved, rejected, cancelled,
\* expired or invalidated it keeps saying so, whatever is called on the
\* request, as long as nobody has saved a copy that is older than the file.
\* _decide reads and saves without a lock, and attach_runtime_context saves
\* whatever status it has read; those are the only ways to undo a decision.
DecisionStands ==
  [][(approval \in Terminal /\ ~lost') => (approval' = approval)]_approvalVars
=============================================================================
