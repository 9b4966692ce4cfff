------------------------------ MODULE StateStore ------------------------------
(***************************************************************************)
(* The SQLite state store, src/internal/state/sqlite.go: three tables that  *)
(* survive a restart of the gateway.  Each method is one or two SQL         *)
(* statements, each a transaction of its own, so a caller may be interleaved*)
(* with other callers between any two of them; Gateway.tla does that.       *)
(*                                                                          *)
(* newUUID() gives every apply request its own approval id and operation    *)
(* id; the request itself stands for both.  The rows keep the columns a     *)
(* property can tell apart: the plan, the status and the decision.          *)
(***************************************************************************)
CONSTANTS
  ApplyReq,    \* apply requests, hence approval ids and operation ids
  DecideReq,   \* decision requests
  PlanIds,     \* ids the agent gives to plans; a plan's operation has that id
  Keys,        \* values of the Idempotency-Key header
  None         \* no row, no value yet

VARIABLES
  approvals,   \* approval_id -> row of table approvals
  operations,  \* operation_id -> status in table operations, "absent": no row
  idempotency  \* <<prefix, key>> -> operation_json in table idempotency

tables == <<approvals, operations, idempotency>>

Verdicts == {"approve", "reject", "other"}
OpIds == ApplyReq \cup PlanIds
OpStatus == {"planned", "pending_approval", "succeeded", "failed", "precondition_failed"}

(* Column `by` stands for decided_by, decided_at and decision_note, which   *)
(* one UPDATE writes together.                                              *)
ApprovalRow == [plan : PlanIds, status : {"pending", "approved", "rejected"},
                by : DecideReq \cup {None}]

(* An idempotency row is a copy of the operation as it was when PutIdempotency *)
(* ran; later changes of the operation do not reach it.                        *)
Snapshot == [op : OpIds, status : OpStatus]

(* The stored key is "plan:"+key or "apply:"+key. *)
IdemKeys == {"plan", "apply"} \X Keys

ASSUME NoneIsNoRow ==
  /\ None \notin ApprovalRow \cup Snapshot
  /\ None \notin ApplyReq \cup DecideReq \cup PlanIds \cup Keys \cup Verdicts
ASSUME OpIdsDistinct == ApplyReq \cap PlanIds = {}

StoreTypeOK ==
  /\ approvals \in [ApplyReq -> ApprovalRow \cup {None}]
  /\ operations \in [OpIds -> OpStatus \cup {"absent"}]
  /\ idempotency \in [IdemKeys -> Snapshot \cup {None}]

(* init(): CREATE TABLE IF NOT EXISTS. *)
StoreInit ==
  /\ approvals = [a \in ApplyReq |-> None]
  /\ operations = [o \in OpIds |-> "absent"]
  /\ idempotency = [i \in IdemKeys |-> None]

(* Mistake: the request is approved as it is created. *)
CreateApprovalApproved(a, p) ==
  /\ approvals' = [approvals EXCEPT ![a] = [plan |-> p, status |-> "approved", by |-> None]]
  /\ UNCHANGED <<operations, idempotency>>

CreateApproval(a, p) ==
  /\ approvals' = [approvals EXCEPT ![a] = [plan |-> p, status |-> "pending", by |-> None]]
  /\ UNCHANGED <<operations, idempotency>>

(* Mistake: no test that the approval is still pending. *)
DecideCheckAnyStatus(a, v) ==
  IF approvals[a] = None THEN "not found" ELSE IF v = "other" THEN "invalid decision" ELSE "ok"

(* DecideApproval is two statements.  First GetApproval and the checks... *)
DecideCheck(a, v) ==
  IF approvals[a] = None THEN "not found"
  ELSE IF approvals[a].status # "pending" THEN "already decided"
  ELSE IF v = "other" THEN "invalid decision" ELSE "ok"

(* Mistake: the UPDATE leaves out the decision columns. *)
DecideUpdateStatusOnly(a, d, v) ==
  /\ approvals' = [approvals EXCEPT ![a].status = IF v = "approve" THEN "approved" ELSE "rejected"]
  /\ UNCHANGED <<operations, idempotency>>

(* ...then an UPDATE whose WHERE clause names the id only, not the status. *)
DecideUpdate(a, d, v) ==
  /\ approvals' = [approvals EXCEPT ![a] =
       [plan |-> @.plan, status |-> IF v = "approve" THEN "approved" ELSE "rejected", by |-> d]]
  /\ UNCHANGED <<operations, idempotency>>

PutOperation(o, s) ==
  /\ operations' = [operations EXCEPT ![o] = s]
  /\ UNCHANGED <<approvals, idempotency>>

PutIdempotency(scope, k, o, s) ==
  /\ idempotency' = [idempotency EXCEPT ![<<scope, k>>] = [op |-> o, status |-> s]]
  /\ UNCHANGED <<approvals, operations>>
=============================================================================
