------------------------------- MODULE Gateway -------------------------------
(***************************************************************************)
(* The HTTP gateway, src/cmd/api/main.go: the handlers of POST /v1/plan,    *)
(* POST /v1/apply and POST /v1/approvals/{id}/decision, each request in a   *)
(* goroutine of its own, over the SQLite tables of StateStore.tla, and the  *)
(* agent process a decision launches.  The handlers take no lock and open   *)
(* no transaction: every database call is one action here and any other     *)
(* request may run between two of them.  Every call may fail (disk errors,  *)
(* SQLITE_BUSY: the pool sets no busy timeout) and the whole process may    *)
(* crash and restart, which keeps the tables and loses everything else.     *)
(*                                                                          *)
(* The GET handlers change nothing: what they return is the tables and the  *)
(* audit index, which the properties below read directly.                   *)
(***************************************************************************)
EXTENDS Naturals, StateStore

CONSTANTS
  PlanReq,      \* plan requests
  MaxFaults,    \* bound: failing database calls in one behaviour
  MaxCrashes    \* bound: crashes of the gateway in one behaviour

VARIABLES
  pc,       \* the next step of each request's goroutine
  key,      \* Idempotency-Key header of a plan or apply request
  plan,     \* plan_id in an apply request; plan id the agent gave a plan request
  target,   \* approval_id in the path of a decision request
  verdict,  \* "decision" field of a decision request
  reply,    \* what the client was answered, None before
  run,      \* the agent process a decision launched: "none", "running", or its end
  audit,    \* in-memory audit index: <<event type, request>>
  faults, crashes

inputs == <<key, plan, target, verdict>>
vars == <<tables, pc, inputs, reply, run, audit, faults, crashes>>

Keyed == PlanReq \cup ApplyReq
Requests == Keyed \cup DecideReq

ASSUME RequestsDistinct ==
  /\ PlanReq \cap ApplyReq = {} /\ PlanReq \cap DecideReq = {} /\ ApplyReq \cap DecideReq = {}
  /\ None \notin PlanReq
ASSUME BoundsAssumption == MaxFaults \in Nat /\ MaxCrashes \in Nat

(* A reply keeps the HTTP status and the operation id in the body, if any. *)
Reply == [code : {200, 202, 400, 404, 500}, op : OpIds \cup {None}]
ASSUME NoneIsNoReply == None \notin Reply

PlanSteps == {"lookup", "exec", "putOp", "putKey", "log"}
ApplySteps == {"lookup", "create", "putOp", "putKey", "log"}
DecideSteps == {"check", "update", "logDecision", "reload", "agent",
                "putResult", "putFailed", "logResult", "logFailed"}
Parked == {"idle", "done", "lost"}
PCs == Parked \cup PlanSteps \cup ApplySteps \cup DecideSteps
InFlight(r) == pc[r] \notin Parked

AgentEnds == {"succeeded", "failed", "precondition_failed"}   \* status in its JSON
AgentStates == {"none", "running", "error"} \cup AgentEnds

EventTypes == {"plan_created", "approval_requested", "approval_decided",
               "apply_completed", "apply_failed"}

TypeOK ==
  /\ StoreTypeOK
  /\ pc \in [Requests -> PCs]
  /\ \A q \in PlanReq : pc[q] \in Parked \cup PlanSteps
  /\ \A a \in ApplyReq : pc[a] \in Parked \cup ApplySteps
  /\ \A d \in DecideReq : pc[d] \in Parked \cup DecideSteps
  /\ key \in [Keyed -> Keys \cup {None}]
  /\ plan \in [Keyed -> PlanIds \cup {None}]
  /\ target \in [DecideReq -> ApplyReq \cup {None}]
  /\ verdict \in [DecideReq -> Verdicts \cup {None}]
  /\ reply \in [Requests -> Reply \cup {None}]
  /\ run \in [DecideReq -> AgentStates]
  /\ audit \subseteq EventTypes \X Requests
  /\ faults \in 0..MaxFaults
  /\ crashes \in 0..MaxCrashes

Init ==
  /\ StoreInit
  /\ pc = [r \in Requests |-> "idle"]
  /\ key = [r \in Keyed |-> None]
  /\ plan = [r \in Keyed |-> None]
  /\ target = [d \in DecideReq |-> None]
  /\ verdict = [d \in DecideReq |-> None]
  /\ reply = [r \in Requests |-> None]
  /\ run = [d \in DecideReq |-> "none"]
  /\ audit = {}
  /\ faults = 0
  /\ crashes = 0
-----------------------------------------------------------------------------
(* Steps of a goroutine. *)
Goto(r, from, to) == pc[r] = from /\ pc' = [pc EXCEPT ![r] = to]

Finish(r, code, op) ==
  /\ pc' = [pc EXCEPT ![r] = "done"]
  /\ reply' = [reply EXCEPT ![r] = [code |-> code, op |-> op]]

Refuse(r, code) == Finish(r, code, None)

(* logEvent ignores the error of Append, which has filled the index anyway. *)
LogEvent(type, r) == audit' = audit \cup {<<type, r>>}

(* The idempotency row a request finds under its key. *)
Prior(scope, r) == idempotency[<<scope, key[r]>>]
-----------------------------------------------------------------------------
(* POST /v1/plan. *)
PlanArrive(q) ==
  /\ Goto(q, "idle", "lookup")
  /\ \E k \in Keys : key' = [key EXCEPT ![q] = k]
  /\ UNCHANGED <<tables, plan, target, verdict, reply, run, audit, faults, crashes>>

(* A hit answers with the stored operation, a miss reads the body. *)
PlanLookup(q) ==
  /\ pc[q] = "lookup"
  /\ \/ /\ Prior("plan", q) # None
        /\ Finish(q, 200, Prior("plan", q).op)
     \/ /\ Prior("plan", q) = None
        /\ \/ Refuse(q, 400)
           \/ Goto(q, "lookup", "exec") /\ UNCHANGED reply
  /\ UNCHANGED <<tables, inputs, run, audit, faults, crashes>>

(* The agent's `plan` subcommand picks the id, or fails. *)
PlanExec(q) ==
  /\ pc[q] = "exec"
  /\ \/ /\ \E p \in PlanIds : plan' = [plan EXCEPT ![q] = p]
        /\ Goto(q, "exec", "putOp")
        /\ UNCHANGED reply
     \/ /\ Refuse(q, 500)
        /\ UNCHANGED plan
  /\ UNCHANGED <<tables, key, target, verdict, run, audit, faults, crashes>>

PlanPutOp(q) ==
  /\ Goto(q, "putOp", "putKey")
  /\ PutOperation(plan[q], "planned")
  /\ UNCHANGED <<inputs, reply, run, audit, faults, crashes>>

PlanPutKey(q) ==
  /\ Goto(q, "putKey", "log")
  /\ PutIdempotency("plan", key[q], plan[q], "planned")
  /\ UNCHANGED <<inputs, reply, run, audit, faults, crashes>>

PlanFinish(q) ==
  /\ pc[q] = "log"
  /\ LogEvent("plan_created", q)
  /\ Finish(q, 200, plan[q])
  /\ UNCHANGED <<tables, inputs, run, faults, crashes>>

PlanStep(q) == PlanLookup(q) \/ PlanExec(q) \/ PlanPutOp(q) \/ PlanPutKey(q) \/ PlanFinish(q)
-----------------------------------------------------------------------------
(* POST /v1/apply.  Nothing checks that the plan exists. *)
ApplyArrive(a) ==
  /\ Goto(a, "idle", "lookup")
  /\ \E k \in Keys : key' = [key EXCEPT ![a] = k]
  /\ \E p \in PlanIds : plan' = [plan EXCEPT ![a] = p]
  /\ UNCHANGED <<tables, target, verdict, reply, run, audit, faults, crashes>>

ApplyLookup(a) ==
  /\ pc[a] = "lookup"
  /\ \/ /\ Prior("apply", a) # None
        /\ Finish(a, 202, Prior("apply", a).op)
     \/ /\ Prior("apply", a) = None
        /\ \/ Refuse(a, 400)
           \/ Goto(a, "lookup", "create") /\ UNCHANGED reply
  /\ UNCHANGED <<tables, inputs, run, audit, faults, crashes>>

(* Mistake: the operation is left out. *)
ApplyCreateNoOp(a) ==
  /\ Goto(a, "create", "putKey")
  /\ CreateApproval(a, plan[a])
  /\ UNCHANGED <<inputs, reply, run, audit, faults, crashes>>

ApplyCreate(a) ==
  /\ Goto(a, "create", "putOp")
  /\ CreateApproval(a, plan[a])
  /\ UNCHANGED <<inputs, reply, run, audit, faults, crashes>>

ApplyPutOp(a) ==
  /\ Goto(a, "putOp", "putKey")
  /\ PutOperation(a, "pending_approval")
  /\ UNCHANGED <<inputs, reply, run, audit, faults, crashes>>

(* Mistake: the prefix of the other endpoint. *)
ApplyPutKeyPrefix(a) ==
  /\ Goto(a, "putKey", "log")
  /\ PutIdempotency("plan", key[a], a, "pending_approval")
  /\ UNCHANGED <<inputs, reply, run, audit, faults, crashes>>

(* Mistake: the error of the write is ignored. *)
ApplyPutKeyUnchecked(a) ==
  /\ Goto(a, "putKey", "log")
  /\ \/ PutIdempotency("apply", key[a], a, "pending_approval") /\ UNCHANGED faults
     \/ faults < MaxFaults /\ faults' = faults + 1 /\ UNCHANGED tables
  /\ UNCHANGED <<inputs, reply, run, audit, crashes>>

ApplyPutKey(a) ==
  /\ Goto(a, "putKey", "log")
  /\ PutIdempotency("apply", key[a], a, "pending_approval")
  /\ UNCHANGED <<inputs, reply, run, audit, faults, crashes>>

ApplyFinish(a) ==
  /\ pc[a] = "log"
  /\ LogEvent("approval_requested", a)
  /\ Finish(a, 202, a)
  /\ UNCHANGED <<tables, inputs, run, faults, crashes>>

ApplyStep(a) ==
  ApplyLookup(a) \/ ApplyCreate(a) \/ ApplyPutOp(a) \/ ApplyPutKey(a) \/ ApplyFinish(a)
-----------------------------------------------------------------------------
(* POST /v1/approvals/{approval_id}/decision.  The id may be one that is in *)
(* no row (yet): approvals are listed from the moment CreateApproval commits*)
(* and an id may be mistyped.                                               *)
DecideArrive(d) ==
  /\ Goto(d, "idle", "check")
  /\ \E a \in ApplyReq : target' = [target EXCEPT ![d] = a]
  /\ \E v \in Verdicts : verdict' = [verdict EXCEPT ![d] = v]
  /\ UNCHANGED <<tables, key, plan, reply, run, audit, faults, crashes>>

(* First half of DecideApproval. *)
DecideRead(d) ==
  /\ pc[d] = "check"
  /\ LET result == DecideCheck(target[d], verdict[d]) IN
       \/ result = "ok" /\ Goto(d, "check", "update") /\ UNCHANGED reply
       \/ result = "not found" /\ Refuse(d, 404)
       \/ result \in {"already decided", "invalid decision"} /\ Refuse(d, 400)
  /\ UNCHANGED <<tables, inputs, run, audit, faults, crashes>>

(* Second half of DecideApproval. *)
DecideWrite(d) ==
  /\ Goto(d, "update", "logDecision")
  /\ DecideUpdate(target[d], d, verdict[d])
  /\ UNCHANGED <<inputs, reply, run, audit, faults, crashes>>

(* Mistake: a rejected apply is executed too. *)
DecideLogAlwaysRuns(d) ==
  /\ Goto(d, "logDecision", "reload")
  /\ LogEvent("approval_decided", d)
  /\ UNCHANGED <<tables, inputs, reply, run, faults, crashes>>

(* Mistake: the decision is answered and the execution forgotten. *)
DecideLogNoRun(d) ==
  /\ pc[d] = "logDecision"
  /\ LogEvent("approval_decided", d)
  /\ Finish(d, 200, None)
  /\ UNCHANGED <<tables, inputs, run, faults, crashes>>

(* Mistake: the decision is not logged. *)
DecideLogSilent(d) ==
  /\ IF verdict[d] = "approve"
       THEN Goto(d, "logDecision", "reload") /\ UNCHANGED reply
       ELSE pc[d] = "logDecision" /\ Finish(d, 200, None)
  /\ UNCHANGED <<tables, inputs, run, audit, faults, crashes>>

(* The branch is on the record DecideApproval returned, not on the table. *)
DecideLog(d) ==
  /\ pc[d] = "logDecision"
  /\ LogEvent("approval_decided", d)
  /\ IF verdict[d] = "approve"
       THEN Goto(d, "logDecision", "reload") /\ UNCHANGED reply
       ELSE Finish(d, 200, None)
  /\ UNCHANGED <<tables, inputs, run, faults, crashes>>

(* executeApprovedApply: read the row again, for the stored request, and    *)
(* start the agent with approved=true; the row's status is not looked at.   *)
ExecLaunch(d) ==
  /\ Goto(d, "reload", "agent")
  /\ run' = [run EXCEPT ![d] = "running"]
  /\ UNCHANGED <<tables, inputs, reply, audit, faults, crashes>>

(* The agent process: it is not killed when the gateway crashes.  What it    *)
(* does to the repository is Agent.tla's; here it ends, with the status in   *)
(* its JSON or with "error": non-zero exit or output that is not JSON.       *)
AgentRun(d) ==
  /\ run[d] = "running"
  /\ \E end \in AgentEnds \cup {"error"} : run' = [run EXCEPT ![d] = end]
  /\ UNCHANGED <<tables, pc, inputs, reply, audit, faults, crashes>>

(* Mistake: the process is started and not waited for. *)
ExecReturnEarly(d) ==
  /\ Goto(d, "agent", "putResult")
  /\ UNCHANGED <<tables, inputs, reply, run, audit, faults, crashes>>

(* Mistake: the error of exec.Apply is ignored. *)
ExecReturnAnyEnd(d) ==
  /\ run[d] \notin {"none", "running"}
  /\ Goto(d, "agent", "putResult")
  /\ UNCHANGED <<tables, inputs, reply, run, audit, faults, crashes>>

(* Mistake: it waits for success. *)
ExecReturnOnSuccess(d) ==
  /\ run[d] = "succeeded"
  /\ Goto(d, "agent", "putResult")
  /\ UNCHANGED <<tables, inputs, reply, run, audit, faults, crashes>>

ExecReturn(d) ==
  /\ run[d] \notin {"none", "running"}
  /\ Goto(d, "agent", IF run[d] = "error" THEN "putFailed" ELSE "putResult")
  /\ UNCHANGED <<tables, inputs, reply, run, audit, faults, crashes>>

(* Mistake: exit code 0 is taken for success. *)
ExecPutSucceeded(d) ==
  /\ Goto(d, "putResult", "logResult")
  /\ PutOperation(target[d], "succeeded")
  /\ UNCHANGED <<inputs, reply, run, audit, faults, crashes>>

ExecPutResult(d) ==
  /\ Goto(d, "putResult", "logResult")
  /\ PutOperation(target[d], run[d])
  /\ UNCHANGED <<inputs, reply, run, audit, faults, crashes>>

ExecFinish(d) ==
  /\ pc[d] = "logResult"
  /\ LogEvent("apply_completed", d)
  /\ Finish(d, 200, None)
  /\ UNCHANGED <<tables, inputs, run, faults, crashes>>

(* Mistake: the operation is put back, to be tried again. *)
ExecPutBack(d) ==
  /\ Goto(d, "putFailed", "logFailed")
  /\ PutOperation(target[d], "pending_approval")
  /\ UNCHANGED <<inputs, reply, run, audit, faults, crashes>>

(* Mistake: the approval is opened again, to be tried again. *)
ExecReopen(d) ==
  /\ Goto(d, "putFailed", "logFailed")
  /\ approvals' = [approvals EXCEPT ![target[d]].status = "pending"]
  /\ UNCHANGED <<operations, idempotency, inputs, reply, run, audit, faults, crashes>>

(* The error of this write is ignored: see DbErrorIgnored. *)
ExecPutFailed(d) ==
  /\ Goto(d, "putFailed", "logFailed")
  /\ PutOperation(target[d], "failed")
  /\ UNCHANGED <<inputs, reply, run, audit, faults, crashes>>

ExecFail(d) ==
  /\ pc[d] = "logFailed"
  /\ LogEvent("apply_failed", d)
  /\ Refuse(d, 500)
  /\ UNCHANGED <<tables, inputs, run, faults, crashes>>

DecideStep(d) ==
  \/ DecideRead(d) \/ DecideWrite(d) \/ DecideLog(d)
  \/ ExecLaunch(d) \/ ExecReturn(d) \/ ExecPutResult(d) \/ ExecFinish(d)
  \/ ExecPutFailed(d) \/ ExecFail(d)
-----------------------------------------------------------------------------
(* Mistake: every error of the handler is reported as a bad decision. *)
ErrorCodeBadDecision(r) == 400

(* A database call fails: 500 for every call but the two of DecideApproval, *)
(* whose errors, "not found" apart, are all reported as 400.                *)
ErrorCode(r) == IF pc[r] \in {"check", "update"} THEN 400 ELSE 500

DbError(r) ==
  /\ faults < MaxFaults
  /\ pc[r] \in {"lookup", "create", "putOp", "putKey", "check", "update", "reload", "putResult"}
  /\ Refuse(r, ErrorCode(r))
  /\ faults' = faults + 1
  /\ UNCHANGED <<tables, inputs, run, audit, crashes>>

DbErrorIgnored(d) ==
  /\ faults < MaxFaults
  /\ Goto(d, "putFailed", "logFailed")
  /\ faults' = faults + 1
  /\ UNCHANGED <<tables, inputs, reply, run, audit, crashes>>

(* Requests in flight die with the process, their clients get no answer;    *)
(* main() builds a new audit.Logger, which does not read the old file.      *)
Crash ==
  /\ crashes < MaxCrashes
  /\ crashes' = crashes + 1
  /\ pc' = [r \in Requests |-> IF InFlight(r) THEN "lost" ELSE pc[r]]
  /\ audit' = {}
  /\ UNCHANGED <<tables, inputs, reply, run, faults>>

Next ==
  \/ \E q \in PlanReq : PlanArrive(q) \/ PlanStep(q)
  \/ \E a \in ApplyReq : ApplyArrive(a) \/ ApplyStep(a)
  \/ \E d \in DecideReq : DecideArrive(d) \/ DecideStep(d) \/ AgentRun(d) \/ DbErrorIgnored(d)
  \/ \E r \in Requests : DbError(r)
  \/ Crash

Spec == Init /\ [][Next]_vars

(* The scheduler runs every goroutine and the agent ends: the CLI it calls  *)
(* has an HTTP timeout and a bounded number of retries.  Clients owe nothing.*)
Fairness ==
  /\ \A q \in PlanReq : WF_vars(PlanStep(q))
  /\ \A a \in ApplyReq : WF_vars(ApplyStep(a))
  /\ \A d \in DecideReq : WF_vars(DecideStep(d)) /\ WF_vars(AgentRun(d))

FairSpec == Spec /\ Fairness
=============================================================================
