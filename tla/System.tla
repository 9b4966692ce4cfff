-------------------------------- MODULE System --------------------------------
(***************************************************************************)
(* The whole path of a change: the gateway of Gateway.tla, the agent         *)
(* processes of Agent.tla that src/internal/executor/executor.go starts for   *)
(* it, and the audit file of src/internal/audit/logger.go.  A plan request    *)
(* has the process `alfresco-agent plan` of its own, an approved decision the *)
(* process `alfresco-agent apply`; the gateway waits for the process and reads *)
(* its JSON.  The processes are children, not part of the gateway: they go on *)
(* when it crashes, and they can be killed without it.                        *)
(***************************************************************************)
EXTENDS Gateway

CONSTANTS
  Contents,        \* contents of plans, one per hash
  BodyKeys,        \* names of applied markers: idempotency_key in an apply body
  MaxAgentFaults,  \* bound: failing writes of agent processes in one behaviour
  MaxKills,        \* bound: killed agent processes in one behaviour
  MaxAuditFaults   \* bound: failing writes of the audit file in one behaviour

VARIABLES
  planFile, applied, step, arg, loaded, cli, changed, status, writeFaults, kills,
  body,        \* the rest of an apply request: plan_hash and idempotency_key
  auditFile,   \* lines of the audit file: <<event type, request>>
  auditFaults

A == INSTANCE Agent WITH
  PlanProc <- PlanReq, ApplyProc <- DecideReq, Keys <- BodyKeys, MaxFaults <- MaxAgentFaults

agentVars == <<planFile, applied, step, arg, loaded, cli, changed, status, writeFaults, kills>>
auditVars == <<auditFile, auditFaults>>
sysVars == <<vars, agentVars, body, auditVars>>

Body == [content : Contents, key : BodyKeys \cup {None}]
ASSUME NoneIsNoBody ==
  /\ None \notin Body \cup Contents \cup BodyKeys
  /\ None \notin A!Plan \cup {A!Partial} \cup A!PlanArgs \cup A!ApplyArgs
ASSUME ProcessBounds == {MaxAgentFaults, MaxKills, MaxAuditFaults} \subseteq Nat

SysTypeOK ==
  /\ TypeOK /\ A!AgentTypeOK
  /\ body \in [ApplyReq -> Body \cup {None}]
  /\ auditFile \subseteq EventTypes \X Requests
  /\ auditFaults \in 0..MaxAuditFaults

SysInit ==
  /\ Init /\ A!AgentInit
  /\ body = [a \in ApplyReq |-> None]
  /\ auditFile = {}
  /\ auditFaults = 0
-----------------------------------------------------------------------------
(* Mistake: what is logged waits in a buffer until the next event. *)
AppendFileBuffered ==
  /\ auditFile' = IF audit' = audit THEN auditFile ELSE auditFile \cup audit
  /\ UNCHANGED auditFaults

(* Append adds the event to the index and to the file in one critical        *)
(* section; logEvent ignores its error.                                       *)
AppendFile ==
  LET new == audit' \ audit IN
    \/ auditFile' = auditFile \cup new /\ UNCHANGED auditFaults
    \/ /\ new # {} /\ auditFaults < MaxAuditFaults
       /\ auditFaults' = auditFaults + 1
       /\ UNCHANGED auditFile

InGateway == AppendFile /\ UNCHANGED <<agentVars, body>>

(* Steps of the handlers that concern no process. *)
PlanHandler(q) ==
  /\ PlanLookup(q) \/ PlanPutOp(q) \/ PlanPutKey(q) \/ PlanFinish(q)
  /\ InGateway

ApplyHandler(a) == ApplyStep(a) /\ InGateway

DecideHandler(d) ==
  /\ \/ DecideRead(d) \/ DecideWrite(d) \/ DecideLog(d)
     \/ ExecReturn(d) \/ ExecPutResult(d) \/ ExecFinish(d) \/ ExecPutFailed(d) \/ ExecFail(d)
  /\ InGateway

(* Arrivals, failing database calls, a crash. *)
Outside ==
  /\ \/ \E q \in PlanReq : PlanArrive(q)
     \/ \E d \in DecideReq : DecideArrive(d) \/ DbErrorIgnored(d)
     \/ \E r \in Requests : DbError(r)
     \/ Crash
  /\ InGateway

(* The body of the request: nothing ties its key to the header's, nor its    *)
(* hash to the plan.                                                          *)
SubmitApply(a) ==
  /\ ApplyArrive(a)
  /\ \E b \in Body : body' = [body EXCEPT ![a] = b]
  /\ UNCHANGED <<agentVars, auditVars>>

(* Steps of the processes themselves; how they start is below. *)
PlanProcess(q) ==
  /\ A!PlanCreate(q) \/ A!PlanWrite(q)
  /\ UNCHANGED <<vars, body, auditVars>>

ApplyProcess(d) ==
  /\ \/ A!ApplyLoad(d) \/ A!ApplyCheck(d) \/ A!ApplyLaunch(d) \/ A!ApplyReturn(d)
     \/ A!ApplyMark(d) \/ A!ApplyPrint(d)
  /\ UNCHANGED <<vars, body, auditVars>>

CliProcess(d) == (A!CliChange(d) \/ A!CliExit(d)) /\ UNCHANGED <<vars, body, auditVars>>
Kill(p) == A!Kill(p) /\ UNCHANGED <<vars, body, auditVars>>
-----------------------------------------------------------------------------
(* CLIExecutor.Plan. *)
PlanLaunch(q) ==
  /\ pc[q] = "exec"
  /\ A!PlanStart(q)
  /\ UNCHANGED <<vars, body, auditVars>>

(* Exit code 0 and JSON: its plan_id is recorded as a planned operation,     *)
(* whether its status is "ready" or "blocked".  A process that could not be   *)
(* started, or was killed, is an error.                                       *)
PlanReturn(q) ==
  /\ pc[q] = "exec"
  /\ \/ /\ step[q] = "done"
        /\ plan' = [plan EXCEPT ![q] = arg[q].id]
        /\ Goto(q, "exec", "putOp")
        /\ UNCHANGED reply
     \/ /\ step[q] \in {"idle", "killed"}
        /\ Refuse(q, 500)
        /\ UNCHANGED plan
  /\ UNCHANGED <<tables, key, target, verdict, run, audit, faults, crashes>>
  /\ UNCHANGED <<agentVars, body, auditVars>>
-----------------------------------------------------------------------------
(* Mistake: the hash is not handed over, the agent takes the plan it finds. *)
LaunchArgsNoHash(d) ==
  [id : {approvals[target[d]].plan}, content : Contents,
   key : {body[target[d]].key}, approved : {TRUE}]

(* Mistake: the key is not handed over, the agent makes one up. *)
LaunchArgsNoKey(d) ==
  [id : {approvals[target[d]].plan}, content : {body[target[d]].content},
   key : BodyKeys, approved : {TRUE}]

(* CLIExecutor.Apply, with the request of the approval's row.  A key that is *)
(* missing is generated by the agent.                                         *)
LaunchArgs(d) ==
  LET b == body[target[d]] IN
  [id : {approvals[target[d]].plan}, content : {b.content},
   key : IF b.key = None THEN BodyKeys ELSE {b.key}, approved : {TRUE}]

ApplyLaunched(d) ==
  /\ Goto(d, "reload", "agent")
  /\ run' = [run EXCEPT ![d] = "running"]
  /\ A!ApplyStart(d)
  /\ arg'[d] \in LaunchArgs(d) /\ step'[d] = "load"
  /\ UNCHANGED <<tables, inputs, reply, audit, faults, crashes, body, auditVars>>

(* cmd.Run cannot start the binary: the process stays "idle". *)
ApplyNotLaunched(d) ==
  /\ Goto(d, "reload", "agent")
  /\ run' = [run EXCEPT ![d] = "running"]
  /\ UNCHANGED <<tables, inputs, reply, audit, faults, crashes>>
  /\ UNCHANGED <<agentVars, body, auditVars>>

(* Mistake: the way the process ended is taken for its status. *)
ApplyExitRaw(d) ==
  /\ run[d] = "running" /\ step[d] \in {"done", "idle", "killed"}
  /\ run' = [run EXCEPT ![d] = IF step[d] = "done" THEN status[d] ELSE step[d]]
  /\ UNCHANGED <<tables, pc, inputs, reply, audit, faults, crashes>>
  /\ UNCHANGED <<agentVars, body, auditVars>>

(* Mistake: exit code 0 is taken for success, the JSON is not read. *)
ApplyExitCode(d) ==
  /\ run[d] = "running" /\ step[d] \in {"done", "idle", "killed"}
  /\ run' = [run EXCEPT ![d] = IF step[d] = "done" THEN "succeeded" ELSE "error"]
  /\ UNCHANGED <<tables, pc, inputs, reply, audit, faults, crashes>>
  /\ UNCHANGED <<agentVars, body, auditVars>>

(* What cmd.Run finds when the process is gone. *)
ApplyExit(d) ==
  /\ run[d] = "running"
  /\ \/ step[d] = "done" /\ run' = [run EXCEPT ![d] = status[d]]
     \/ step[d] \in {"idle", "killed"} /\ run' = [run EXCEPT ![d] = "error"]
  /\ UNCHANGED <<tables, pc, inputs, reply, audit, faults, crashes>>
  /\ UNCHANGED <<agentVars, body, auditVars>>

SysNext ==
  \/ \E q \in PlanReq : PlanHandler(q) \/ PlanLaunch(q) \/ PlanProcess(q) \/ PlanReturn(q)
  \/ \E a \in ApplyReq : SubmitApply(a) \/ ApplyHandler(a)
  \/ \E d \in DecideReq :
       \/ DecideHandler(d) \/ ApplyLaunched(d) \/ ApplyNotLaunched(d) \/ ApplyExit(d)
       \/ ApplyProcess(d) \/ CliProcess(d)
  \/ \E p \in A!Procs : Kill(p)
  \/ Outside

SysSpec == SysInit /\ [][SysNext]_sysVars
=============================================================================
