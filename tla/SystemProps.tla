----------------------------- MODULE SystemProps -----------------------------
(***************************************************************************)
(* What gateway, agent processes and audit file guarantee together.          *)
(***************************************************************************)
EXTENDS GatewayProps, System

CONSTANT MaxTroubles   \* bound: faults, crashes and kills of one behaviour together

Succeeded(a) == operations[a] = "succeeded"
-----------------------------------------------------------------------------
(* The repository is changed only after a decision `approve` was committed,  *)
(* by the plan that the decided approval names, with the content whose hash   *)
(* the approval shows, whatever has happened to the plan's file since         *)
(* (handleApprovals, executeApprovedApply, CLIExecutor.Apply, apply).         *)
ChangeWasApproved ==
  \A d \in DecideReq :
    changed[d] =>
      /\ verdict[d] = "approve" /\ Decided(target[d])
      /\ arg[d].id = approvals[target[d]].plan
      /\ loaded[d].content = body[target[d]].content

(* The status of an operation is true of the repository.  "succeeded": a     *)
(* process with the operation's key has run its plan to the end (it may have  *)
(* been another request's: the marker is per key).  "precondition_failed":    *)
(* the run that ended so has changed nothing.                                 *)
OperationIsHonest ==
  \A a \in ApplyReq :
    /\ Succeeded(a) =>
         \E d, e \in DecideReq :
           /\ target[d] = a /\ run[d] = "succeeded"
           /\ changed[e] /\ cli[e] = "ok" /\ arg[d].key = arg[e].key
    /\ operations[a] = "precondition_failed" =>
         \E d \in DecideReq : target[d] = a /\ run[d] = operations[a] /\ ~changed[d]

(* A client that reads "succeeded" and applies again with the same body key, *)
(* under another header key and with a new approval, changes nothing twice,   *)
(* unless the marker could not be written: no process with that key goes on    *)
(* to execute, across crashes and kills.                                       *)
ReportedIsNotRepeated ==
  [][\A a \in ApplyReq, d \in DecideReq :
       /\ Succeeded(a) /\ body[a].key # None
       /\ step[d] = "check" /\ step'[d] = "launch" /\ arg[d].key = body[a].key
       => writeFaults > 0]_sysVars

(* No change without a trace: before the repository changes, the decision    *)
(* behind it is in the audit file, where a crash does not reach it, unless    *)
(* the file could not be written (logEvent before executeApprovedApply).      *)
AuditFileTellsTheDecision ==
  \A d \in DecideReq :
    changed[d] => <<"approval_decided", d>> \in auditFile \/ auditFaults > 0

(* The composed system is a gateway, and its processes are agents.            *)
ImplementsGateway == Spec
ImplementsAgent == A!AgentSpec
-----------------------------------------------------------------------------
(* Clients that take one step after the other: requests for plans and applies *)
(* are never in flight together, an apply names a plan that was answered and   *)
(* a body key, an approver decides what is listed after its request has ended, *)
(* and no two decisions on one approval are in flight together.  The processes *)
(* of different approvals still run side by side.  The races this leaves out   *)
(* are those of Gateway.tla and Agent.tla.                                     *)
InSession ==
  /\ \A r, s \in Keyed : InFlight(r) /\ InFlight(s) => r = s
  /\ OneDeciderAtATime
  /\ \A a \in ApplyReq : pc[a] # "idle" => operations[plan[a]] = "planned" /\ body[a].key # None
  /\ \A d \in DecideReq : pc[d] # "idle" =>
       ~InFlight(target[d]) /\ approvals[target[d]] # None /\ verdict[d] # "other"

SessionNext ==
  /\ SysNext
  /\ InSession'
  /\ (faults + crashes + kills + writeFaults + auditFaults)' <= MaxTroubles

SessionInit == SysInit /\ \A p \in PlanIds : planFile[p] = None
SessionSpec == SessionInit /\ [][SessionNext]_sysVars
=============================================================================
