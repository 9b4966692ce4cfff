----------------------------- MODULE SystemProofs -----------------------------
(***************************************************************************)
(* Proofs about System.tla: the composed system is a gateway (Spec) and its  *)
(* processes are agents (AgentSpec), so that what GatewayProofs and           *)
(* AgentProofs prove holds in it; and what the parts guarantee only together. *)
(***************************************************************************)
EXTENDS SystemProps, GatewaySerialProofs

AP == INSTANCE AgentProofs WITH
  PlanProc <- PlanReq, ApplyProc <- DecideReq, Keys <- BodyKeys, MaxFaults <- MaxAgentFaults

(* The assumptions of Agent.tla, for the system's processes. *)
LEMMA AgentAssumptions ==
  /\ PlanReq \cap DecideReq = {}
  /\ None \notin AP!Plan \cup {AP!Partial} \cup AP!PlanArgs \cup AP!ApplyArgs \cup Contents
  /\ MaxAgentFaults \in Nat /\ MaxKills \in Nat
BY RequestsDistinct, NoneIsNoBody, ProcessBounds
   DEF A!Plan, A!Partial, A!PlanArgs, A!ApplyArgs, AP!Plan, AP!Partial, AP!PlanArgs, AP!ApplyArgs

LEMMA AgentStaysInv == AP!AgentInv /\ [AP!AgentNext]_(AP!agentVars) => AP!AgentInv'
BY AP!NextInv, AgentAssumptions
-----------------------------------------------------------------------------
(* Every step of the system is a step of one of its agents, or leaves them    *)
(* alone.                                                                     *)
LEMMA PlanProcessStep ==
  ASSUME NEW q \in PlanReq, PlanLaunch(q) \/ PlanProcess(q)
  PROVE  AP!PlanProcess(q)
BY DEF PlanLaunch, PlanProcess, AP!PlanProcess, A!PlanStart, A!PlanCreate, A!PlanWrite,
   AP!PlanStart, AP!PlanCreate, AP!PlanWrite, A!Move, AP!Move, A!Answer, AP!Answer,
   A!WriteFault, AP!WriteFault, A!Partial, AP!Partial, A!files, AP!files, A!child, AP!child,
   A!bounds, AP!bounds

LEMMA ApplyProcessStep ==
  ASSUME NEW d \in DecideReq, ApplyLaunched(d) \/ ApplyProcess(d)
  PROVE  AP!ApplyProcess(d)
<1> USE DEF AP!ApplyProcess, A!Move, AP!Move, A!Answer, AP!Answer, A!WriteFault, AP!WriteFault,
    A!files, AP!files, A!child, AP!child, A!bounds, AP!bounds
<1>1. A!ApplyStart(d) => AP!ApplyStart(d)
  BY DEF A!ApplyStart, AP!ApplyStart, A!ApplyArgs, AP!ApplyArgs
<1>2. A!ApplyLoad(d) => AP!ApplyLoad(d)
  BY DEF A!ApplyLoad, AP!ApplyLoad, A!Plan, AP!Plan
<1>3. A!ApplyCheck(d) \/ A!ApplyLaunch(d) => AP!ApplyCheck(d) \/ AP!ApplyLaunch(d)
  BY DEF A!ApplyCheck, A!ApplyLaunch, AP!ApplyCheck, AP!ApplyLaunch
<1>4. A!ApplyReturn(d) \/ A!ApplyMark(d) \/ A!ApplyPrint(d)
        => AP!ApplyReturn(d) \/ AP!ApplyMark(d) \/ AP!ApplyPrint(d)
  BY DEF A!ApplyReturn, A!ApplyMark, A!ApplyPrint, AP!ApplyReturn, AP!ApplyMark, AP!ApplyPrint
<1> QED BY <1>1, <1>2, <1>3, <1>4 DEF ApplyLaunched, ApplyProcess

LEMMA ChildStep ==
  /\ \A d \in DecideReq : CliProcess(d) => AP!CliChange(d) \/ AP!CliExit(d)
  /\ \A p \in A!Procs : Kill(p) => p \in AP!Procs /\ AP!Kill(p)
BY DEF CliProcess, Kill, A!CliChange, A!CliExit, A!Kill, A!Live, A!Ended, A!Procs,
   AP!CliChange, AP!CliExit, AP!Kill, AP!Live, AP!Ended, AP!Procs,
   A!files, AP!files, A!child, AP!child, A!bounds, AP!bounds

LEMMA AgentsStep == [SysNext]_sysVars => [AP!AgentNext]_(AP!agentVars)
<1> SUFFICES ASSUME [SysNext]_sysVars PROVE AP!AgentNext \/ UNCHANGED agentVars
  BY DEF agentVars, AP!agentVars, AP!files, AP!child, AP!bounds
<1>1. ASSUME NEW q \in PlanReq, PlanLaunch(q) \/ PlanProcess(q) PROVE AP!AgentNext
  BY <1>1, PlanProcessStep DEF AP!AgentNext
<1>2. ASSUME NEW d \in DecideReq, ApplyLaunched(d) \/ ApplyProcess(d) \/ CliProcess(d)
      PROVE  AP!AgentNext
  BY <1>2, ApplyProcessStep, ChildStep DEF AP!AgentNext
<1>3. ASSUME NEW p \in A!Procs, Kill(p) PROVE AP!AgentNext
  BY <1>3, ChildStep DEF AP!AgentNext
<1> QED BY <1>1, <1>2, <1>3
        DEF SysNext, PlanHandler, PlanReturn, SubmitApply, ApplyHandler, DecideHandler,
            ApplyNotLaunched, ApplyExit, Outside, InGateway, sysVars

LEMMA AgentsInit == SysInit => AP!AgentInit /\ A!AgentInit
BY DEF SysInit, A!AgentInit, AP!AgentInit, A!Procs, AP!Procs

(* The processes of the system are agents; no property of the gateway is     *)
(* needed for it.                                                             *)
LEMMA AgentsSpec == SysSpec => AP!AgentSpec
<1>1. SysInit => AP!AgentInit
  BY AgentsInit
<1> QED BY <1>1, AgentsStep, PTL DEF SysSpec, AP!AgentSpec
-----------------------------------------------------------------------------
(* What joins the three parts.  A process is launched for a run, with the     *)
(* arguments of the approval's request, and the end of the run is its status. *)
Processes ==
  \A d \in DecideReq :
    /\ step[d] # "idle" => run[d] # "none" /\ arg[d] \in LaunchArgs(d)
    /\ step[d] = "done" => status[d] \in AgentEnds
    /\ run[d] \in AgentEnds => step[d] = "done" /\ status[d] = run[d]

(* The file has what the index has, and keeps the decision behind a run when  *)
(* a crash empties the index.                                                 *)
AuditKept ==
  auditFaults = 0 =>
    /\ audit \subseteq auditFile
    /\ \A d \in DecideReq : pc[d] = "reload" \/ run[d] # "none" =>
         <<"approval_decided", d>> \in auditFile

Surroundings ==
  /\ body \in [ApplyReq -> Body \cup {None}]
  /\ auditFile \subseteq EventTypes \X Requests
  /\ auditFaults \in 0..MaxAuditFaults

SysInv == IInv /\ AP!AgentInv /\ Surroundings /\ Processes /\ AuditKept

(* What the proofs below use of AP!AgentInv. *)
LEMMA AgentTypes ==
  ASSUME AP!AgentInv
  PROVE  /\ step \in [PlanReq \cup DecideReq -> AP!Ended \cup AP!PlanSteps \cup AP!ApplySteps]
         /\ status \in [PlanReq \cup DecideReq -> AP!Statuses]
         /\ arg \in [PlanReq \cup DecideReq -> AP!PlanArgs \cup AP!ApplyArgs \cup {None}]
         /\ \A q \in PlanReq : step[q] # "idle" => arg[q].id \in PlanIds
BY DEF AP!AgentInv, AP!AgentTypeOK, AP!Procs, AP!PlanArgs
-----------------------------------------------------------------------------
(* Every step of the system is a step of the gateway, or leaves it alone.    *)
LEMMA GatewayStep ==
  ASSUME IInv, AP!AgentInv, Processes, [SysNext]_sysVars
  PROVE  [Next]_vars
<1> SUFFICES Next \/ UNCHANGED vars
  OBVIOUS
<1>1. ASSUME NEW q \in PlanReq, PlanHandler(q) \/ PlanReturn(q) PROVE Next
  <2>1. CASE PlanHandler(q)
    BY <2>1 DEF PlanHandler, Next, PlanStep
  <2>2. CASE PlanReturn(q)
    <3>1. PlanExec(q)
      BY <2>2, AgentTypes DEF PlanReturn, PlanExec
    <3> QED BY <3>1 DEF Next, PlanStep
  <2> QED BY <1>1, <2>1, <2>2
<1>2. ASSUME NEW a \in ApplyReq, SubmitApply(a) \/ ApplyHandler(a) PROVE Next
  BY <1>2 DEF SubmitApply, ApplyHandler, Next
<1>3. ASSUME NEW d \in DecideReq, DecideHandler(d) PROVE Next
  BY <1>3 DEF DecideHandler, DecideStep, Next
<1>4. ASSUME NEW d \in DecideReq, ApplyLaunched(d) \/ ApplyNotLaunched(d) PROVE Next
  <2>1. ExecLaunch(d)
    BY <1>4 DEF ApplyLaunched, ApplyNotLaunched, ExecLaunch
  <2> QED BY <2>1 DEF Next, DecideStep
<1>5. ASSUME NEW d \in DecideReq, ApplyExit(d) PROVE Next
  <2>1. AgentRun(d)
    BY <1>5 DEF ApplyExit, AgentRun, Processes
  <2> QED BY <2>1 DEF Next
<1>6. Outside => Next
  BY DEF Outside, Next
<1> QED BY <1>1, <1>2, <1>3, <1>4, <1>5, <1>6
        DEF SysNext, PlanLaunch, PlanProcess, ApplyProcess, CliProcess, Kill, sysVars

(* A body is read when its request arrives; the audit file is touched only    *)
(* with the index.                                                            *)
LEMMA BodyStays ==
  ASSUME [SysNext]_sysVars
  PROVE  /\ UNCHANGED body \/ \E a \in ApplyReq : SubmitApply(a)
         /\ UNCHANGED <<auditVars, audit>> \/ AppendFile
BY DEF SysNext, PlanHandler, PlanLaunch, PlanProcess, PlanReturn, SubmitApply, ApplyHandler,
   DecideHandler, ApplyLaunched, ApplyNotLaunched, ApplyExit, ApplyProcess, CliProcess, Kill,
   Outside, InGateway, ApplyArrive, vars, sysVars

LEMMA SurroundingsStep ==
  ASSUME SysInv, [SysNext]_sysVars
  PROVE  Surroundings'
<1> USE DEF SysInv, Surroundings
<1>1. [Next]_vars /\ IInv'
  BY GatewayStep, NextIInv
<1>2. audit \subseteq EventTypes \X Requests /\ audit' \subseteq EventTypes \X Requests
  BY <1>1 DEF IInv, TypeOK
<1>3. UNCHANGED auditVars \/ AppendFile
  BY BodyStays
<1>4. auditFile' \subseteq EventTypes \X Requests /\ auditFaults' \in 0..MaxAuditFaults
  BY <1>2, <1>3, ProcessBounds DEF auditVars, AppendFile
<1>5. UNCHANGED body \/ \E a \in ApplyReq : SubmitApply(a)
  BY BodyStays
<1>6. body' \in [ApplyReq -> Body \cup {None}]
  BY <1>5 DEF SubmitApply
<1> QED BY <1>4, <1>6

(* The arguments of a launched process stay those of the approval's request:  *)
(* the approval names its plan for good, and a body is read once.             *)
LEMMA LaunchArgsStay ==
  ASSUME SysInv, [SysNext]_sysVars, NEW d \in DecideReq, run[d] # "none"
  PROVE  LaunchArgs(d)' = LaunchArgs(d)
<1>1. [Next]_vars
  BY GatewayStep DEF SysInv
<1>2. RowsStay
  BY <1>1, RowsStayStep DEF SysInv
<1>3. pc[d] # "idle" /\ target[d] \in ApplyReq /\ Decided(target[d])
  BY DEF SysInv, IInv, InputsArrived, DecideProgress, Undecided, Safety, NoRunWithoutDecision,
     Launched
<1>4. target'[d] = target[d] /\ approvals'[target[d]].plan = approvals[target[d]].plan
  BY <1>2, <1>3 DEF RowsStay, Decided
<1>5. body'[target[d]] = body[target[d]]
  <2>1. ASSUME NEW a \in ApplyReq, SubmitApply(a) PROVE a # target[d]
    BY <1>3, <2>1 DEF SubmitApply, ApplyArrive, Goto, SysInv, IInv, ApplyProgress, Fresh, Decided
  <2>2. UNCHANGED body \/ \E a \in ApplyReq : SubmitApply(a)
    BY BodyStays
  <2> QED BY <2>1, <2>2, <1>3 DEF SubmitApply, SysInv, Surroundings
<1> QED BY <1>4, <1>5 DEF LaunchArgs

(* Only its own steps change what a process of a decision is at, and only a   *)
(* launch and an exit change its run. *)
LEMMA ProcessesStep ==
  ASSUME SysInv, [SysNext]_sysVars
  PROVE  Processes'
<1>1. AP!AgentInv /\ [Next]_vars
  BY GatewayStep DEF SysInv
<1> SUFFICES ASSUME NEW d \in DecideReq
             PROVE  /\ step'[d] # "idle" => run'[d] # "none" /\ arg'[d] \in LaunchArgs(d)'
                    /\ step'[d] = "done" => status'[d] \in AgentEnds
                    /\ run'[d] \in AgentEnds => step'[d] = "done" /\ status'[d] = run'[d]
  BY DEF Processes
<1> DEFINE Mine == /\ step'[d] # "idle" => run'[d] # "none" /\ arg'[d] \in LaunchArgs(d)'
                   /\ step'[d] = "done" => status'[d] \in AgentEnds
                   /\ run'[d] \in AgentEnds => step'[d] = "done" /\ status'[d] = run'[d]
<1>2. /\ step[d] # "idle" => run[d] # "none" /\ arg[d] \in LaunchArgs(d)
      /\ step[d] = "done" => status[d] \in AgentEnds
      /\ run[d] \in AgentEnds => step[d] = "done" /\ status[d] = run[d]
  BY DEF SysInv, Processes
<1>3. run[d] # "none" => LaunchArgs(d)' = LaunchArgs(d)
  BY LaunchArgsStay
<1>4. ASSUME step'[d] = step[d], arg'[d] = arg[d], status'[d] = status[d], run'[d] = run[d]
      PROVE  Mine
  BY <1>2, <1>3, <1>4
<1> HIDE DEF Mine
<1>5. ASSUME UNCHANGED <<step, arg, status>>, UNCHANGED run PROVE Mine
  BY <1>4, <1>5
<1>6. ASSUME NEW q \in PlanReq, PlanHandler(q) \/ PlanReturn(q) PROVE Mine
  BY <1>5, <1>6 DEF PlanHandler, PlanReturn, PlanLookup, PlanPutOp, PlanPutKey, PlanFinish,
     InGateway, agentVars
<1>7. ASSUME NEW q \in PlanReq, PlanLaunch(q) \/ PlanProcess(q) PROVE Mine
  BY <1>1, <1>4, <1>7, AgentTypes, RequestsDistinct
     DEF PlanLaunch, PlanProcess, A!PlanStart, A!PlanCreate, A!PlanWrite, A!Move, A!Answer, vars
<1>8. ASSUME NEW a \in ApplyReq, SubmitApply(a) \/ ApplyHandler(a) PROVE Mine
  BY <1>5, <1>8 DEF SubmitApply, ApplyArrive, ApplyHandler, ApplyStep, ApplyLookup, ApplyCreate,
     ApplyPutOp, ApplyPutKey, ApplyFinish, InGateway, agentVars
<1>9. ASSUME NEW e \in DecideReq, DecideHandler(e) PROVE Mine
  BY <1>5, <1>9, DecideReadCases DEF DecideHandler, DecideWrite, DecideLog, ExecReturn,
     ExecPutResult, ExecFinish, ExecPutFailed, ExecFail, InGateway, agentVars
<1>10. Outside => Mine
  BY <1>5 DEF Outside, PlanArrive, DecideArrive, DbErrorIgnored, DbError, Crash, InGateway,
     agentVars
<1>11. ASSUME NEW e \in DecideReq, ApplyLaunched(e) PROVE Mine
  <2>1. UNCHANGED <<approvals, target, body>>
    BY <1>11 DEF ApplyLaunched, tables, inputs
  <2>2. CASE e = d
    <3>1. run'[d] = "running" /\ step'[d] = "load" /\ arg'[d] \in LaunchArgs(d)
      BY <1>11, <2>2 DEF ApplyLaunched, SysInv, IInv, TypeOK
    <3> QED BY <2>1, <3>1 DEF Mine, LaunchArgs, AgentEnds
  <2>3. CASE e # d
    BY <1>1, <1>4, <1>11, <2>3, AgentTypes
       DEF ApplyLaunched, A!ApplyStart, A!Move, A!Answer, SysInv, IInv, TypeOK
  <2> QED BY <2>2, <2>3
<1>12. ASSUME NEW e \in DecideReq, ApplyNotLaunched(e) PROVE Mine
  <2>1. run[e] = "none" /\ run' = [run EXCEPT ![e] = "running"] /\ UNCHANGED <<step, arg, status>>
    BY <1>12 DEF ApplyNotLaunched, Goto, SysInv, IInv, RunProgress, agentVars
  <2> QED BY <1>2, <1>4, <2>1 DEF Mine, SysInv, IInv, TypeOK, AgentEnds
<1>13. ASSUME NEW e \in DecideReq, ApplyExit(e) PROVE Mine
  <2>1. UNCHANGED <<step, arg, status>> /\ run[e] = "running"
    BY <1>13 DEF ApplyExit, agentVars
  <2>2. /\ run' \in [DecideReq -> AgentStates] /\ \A f \in DecideReq : f # e => run'[f] = run[f]
        /\ run'[e] # "none"
        /\ run'[e] \in AgentEnds => step[e] = "done" /\ status[e] = run'[e]
    BY <1>1, <1>13, NextIInv DEF ApplyExit, SysInv, IInv, TypeOK, Processes, AgentEnds
  <2>3. CASE e = d
    BY <1>2, <1>3, <2>1, <2>2, <2>3 DEF Mine
  <2>4. CASE e # d
    BY <1>4, <2>1, <2>2, <2>4
  <2> QED BY <2>3, <2>4
<1>14. ASSUME NEW e \in DecideReq, ApplyProcess(e) \/ CliProcess(e) PROVE Mine
  <2>1. CASE CliProcess(e)
    BY <1>4, <2>1 DEF CliProcess, A!CliChange, A!CliExit, vars
  <2>2. CASE ApplyProcess(e) /\ e # d
    BY <1>1, <1>4, <2>2, AgentTypes DEF ApplyProcess, A!ApplyLoad, A!ApplyCheck, A!ApplyLaunch,
       A!ApplyReturn, A!ApplyMark, A!ApplyPrint, A!Move, A!Answer, vars
  <2>3. CASE ApplyProcess(d)
    <3>1. /\ step[d] \notin {"idle", "done"} /\ UNCHANGED <<arg, run>>
          /\ step'[d] # "idle"
          /\ step'[d] = "done" => status'[d] \in AgentEnds \/ ~arg[d].approved
      BY <1>1, <2>3, AgentTypes DEF ApplyProcess, A!ApplyLoad, A!ApplyCheck, A!ApplyLaunch,
         A!ApplyReturn, A!ApplyMark, A!ApplyPrint, A!Move, A!Answer, vars, AgentEnds
    <3>2. arg[d].approved
      BY <1>2, <3>1 DEF LaunchArgs
    <3> QED BY <1>2, <1>3, <3>1, <3>2 DEF Mine
  <2> QED BY <1>14, <2>1, <2>2, <2>3
<1>15. ASSUME NEW p \in A!Procs, Kill(p) PROVE Mine
  <2>1. UNCHANGED <<arg, status, run>> /\ step[p] \notin {"idle", "done"}
        /\ step' = [step EXCEPT ![p] = "killed"]
    BY <1>15 DEF Kill, A!Kill, A!Live, A!Ended, vars
  <2> QED BY <1>1, <1>2, <1>3, <1>4, <2>1, AgentTypes DEF Mine
<1>16. UNCHANGED sysVars => Mine
  BY <1>5 DEF sysVars, agentVars, vars
<1>17. Mine
  BY <1>6, <1>7, <1>8, <1>9, <1>10, <1>11, <1>12, <1>13, <1>14, <1>15, <1>16 DEF SysNext
<1> QED BY <1>17 DEF Mine

(* What the index has is in the file; the decision is logged before its run.  *)
LEMMA AuditKeptStep ==
  ASSUME SysInv, [SysNext]_sysVars
  PROVE  AuditKept'
<1>1. [Next]_vars
  BY GatewayStep DEF SysInv
<1> SUFFICES ASSUME auditFaults' = 0
             PROVE  /\ audit' \subseteq auditFile'
                    /\ \A d \in DecideReq : pc'[d] = "reload" \/ run'[d] # "none" =>
                         <<"approval_decided", d>> \in auditFile'
  BY DEF AuditKept
<1>2. auditFaults = 0 /\ audit \subseteq auditFile /\ auditFile' = auditFile \cup (audit' \ audit)
  BY BodyStays DEF AppendFile, auditVars, SysInv, Surroundings, AuditKept
<1>3. ASSUME NEW d \in DecideReq, pc'[d] = "reload" \/ run'[d] # "none"
      PROVE  pc[d] = "reload" \/ run[d] # "none" \/ <<"approval_decided", d>> \in audit'
  <2>1. CASE run'[d] # "none" /\ run[d] = "none"
    <3>1. \E e \in DecideReq : ExecLaunch(e) \/ AgentRun(e)
      BY <1>1, <2>1, WhoWrites
    <3> QED BY <2>1, <3>1 DEF ExecLaunch, AgentRun, Goto, SysInv, IInv, TypeOK
  <2>2. CASE pc'[d] = "reload" /\ pc[d] # "reload"
    <3> USE DEF SysInv, IInv, TypeOK, Requests, Keyed, Goto, Refuse, Finish
    <3>1. DecideArrive(d) \/ DecideStep(d) \/ DbErrorIgnored(d)
      BY <1>1, <2>2, RequestsMove, RequestsDistinct
    <3>2. DecideRead(d) => FALSE
      BY <2>2, DecideReadCases
    <3>3. DecideLog(d)
      BY <2>2, <3>1, <3>2 DEF DecideArrive, DecideStep, DbErrorIgnored, DecideWrite, ExecLaunch,
         ExecReturn, ExecPutResult, ExecFinish, ExecPutFailed, ExecFail
    <3> QED BY <3>3 DEF DecideLog, LogEvent
  <2> QED BY <1>3, <2>1, <2>2
<1> QED BY <1>2, <1>3 DEF SysInv, AuditKept

LEMMA SysInitInv == SysInit => SysInv
<1> SUFFICES ASSUME SysInit PROVE SysInv
  OBVIOUS
<1>1. IInv
  BY InitIInv DEF SysInit
<1>2. AP!AgentInv
  BY AgentsInit, AP!InitInv, AgentAssumptions
<1>3. Surroundings /\ Processes /\ AuditKept
  BY ProcessBounds, RequestsDistinct DEF SysInit, Surroundings, Processes, AuditKept, Init,
     A!AgentInit, A!Procs, AgentEnds, Requests, Keyed
<1> QED BY <1>1, <1>2, <1>3 DEF SysInv

LEMMA SysNextInv == SysInv /\ [SysNext]_sysVars => SysInv'
<1> SUFFICES ASSUME SysInv, [SysNext]_sysVars PROVE SysInv'
  OBVIOUS
<1>1. IInv'
  BY GatewayStep, NextIInv DEF SysInv
<1>2. AP!AgentInv'
  BY AgentsStep, AgentStaysInv DEF SysInv
<1>3. Surroundings' /\ Processes' /\ AuditKept'
  BY SurroundingsStep, ProcessesStep, AuditKeptStep
<1> QED BY <1>1, <1>2, <1>3 DEF SysInv

(* The inductive invariant of the composed system.                           *)
THEOREM SysInvariance == SysSpec => []SysInv
  BY SysInitInv, SysNextInv, PTL DEF SysSpec

(* The composed system is a gateway: every property of Spec is one of it.    *)
THEOREM SystemIsGateway == SysSpec => ImplementsGateway
<1>1. SysInit => Init
  BY DEF SysInit
<1>2. SysInv /\ [SysNext]_sysVars => [Next]_vars
  BY GatewayStep DEF SysInv
<1> QED BY <1>1, <1>2, SysInvariance, PTL DEF SysSpec, Spec, ImplementsGateway

(* Its processes are agents. *)
THEOREM SystemHasAgents == SysSpec => ImplementsAgent
<1>1. SysInit => A!AgentInit
  BY DEF SysInit
<1>2. [SysNext]_sysVars => [A!AgentNext]_(A!agentVars)
  BY DEF SysNext, PlanHandler, PlanLaunch, PlanProcess, PlanReturn, SubmitApply, ApplyHandler,
     DecideHandler, ApplyLaunched, ApplyNotLaunched, ApplyExit, ApplyProcess, CliProcess, Kill,
     Outside, InGateway, A!AgentNext, A!PlanProcess, A!ApplyProcess, A!agentVars, A!files,
     A!child, A!bounds, agentVars, sysVars
<1> QED BY <1>1, <1>2, PTL DEF SysSpec, A!AgentSpec, ImplementsAgent

(* Every variable keeps its type. *)
THEOREM SystemTypes == SysSpec => []SysTypeOK
<1>1. AP!AgentTypeOK => A!AgentTypeOK
  BY DEF AP!AgentTypeOK, A!AgentTypeOK, AP!Procs, A!Procs, AP!File, A!File, AP!Plan, A!Plan,
     AP!Partial, A!Partial, AP!Ended, A!Ended, AP!PlanSteps, A!PlanSteps, AP!ApplySteps,
     A!ApplySteps, AP!PlanArgs, A!PlanArgs, AP!ApplyArgs, A!ApplyArgs, AP!CliEnds, A!CliEnds,
     AP!Statuses, A!Statuses
<1>2. SysInv => SysTypeOK
  BY <1>1 DEF SysInv, IInv, AP!AgentInv, Surroundings, SysTypeOK
<1> QED BY <1>2, SysInvariance, PTL

(* A child that has changed the repository belongs to a process that was      *)
(* launched for a run, and holds the plan it was asked for.                   *)
LEMMA ChangedWasLaunched ==
  ASSUME SysInv, NEW d \in DecideReq, changed[d]
  PROVE  /\ run[d] # "none" /\ arg[d] \in LaunchArgs(d)
         /\ loaded[d].content = arg[d].content
BY DEF SysInv, Processes, AP!AgentInv, AP!ApplyProgress

(* Nothing changes the repository but the plan of an approval, after an       *)
(* `approve` on it, with the content of its hash.                             *)
THEOREM ChangesAreApproved == SysSpec => []ChangeWasApproved
<1>1. SysInv => ChangeWasApproved
  BY ChangedWasLaunched DEF SysInv, IInv, Safety, NoRunWithoutDecision, Launched, LaunchArgs,
     ChangeWasApproved
<1> QED BY <1>1, SysInvariance, PTL

(* Before the repository changes, the decision is in the audit file.          *)
THEOREM ChangesAreAudited == SysSpec => []AuditFileTellsTheDecision
<1>1. SysInv => AuditFileTellsTheDecision
  BY ChangedWasLaunched DEF SysInv, AuditKept, Surroundings, AuditFileTellsTheDecision
<1> QED BY <1>1, SysInvariance, PTL

(* The status of an operation is true of the repository.                      *)
THEOREM HonestOperations == SysSpec => []OperationIsHonest
<1>1. SysInv => OperationIsHonest
  <2> SUFFICES ASSUME SysInv, NEW a \in ApplyReq
               PROVE  /\ Succeeded(a) =>
                           \E d, e \in DecideReq :
                             /\ target[d] = a /\ run[d] = "succeeded"
                             /\ changed[e] /\ cli[e] = "ok" /\ arg[d].key = arg[e].key
                      /\ operations[a] = "precondition_failed" =>
                           \E d \in DecideReq :
                             target[d] = a /\ run[d] = operations[a] /\ ~changed[d]
    BY DEF OperationIsHonest
  <2>1. ASSUME operations[a] \in {"succeeded", "precondition_failed"}
        PROVE  \E d \in DecideReq : target[d] = a /\ run[d] = operations[a] /\ status[d] = run[d]
    BY <2>1 DEF SysInv, IInv, Safety, StatusIsEarned, Final, Processes, AgentEnds
  <2>2. ASSUME NEW d \in DecideReq, status[d] = "succeeded"
        PROVE  \E e \in DecideReq : changed[e] /\ cli[e] = "ok" /\ arg[d].key = arg[e].key
    BY <2>2 DEF SysInv, AP!AgentInv, AP!SuccessIsEarned, AP!Executed, AP!SameKey
  <2>3. ASSUME NEW d \in DecideReq, status[d] = "precondition_failed"
        PROVE  ~changed[d]
    BY <2>3 DEF SysInv, AP!AgentInv, AP!ChangedAsApproved, AP!ApplyProgress
  <2> QED BY <2>1, <2>2, <2>3 DEF Succeeded
<1> QED BY <1>1, SysInvariance, PTL

(* What was reported as succeeded is not repeated under the same body key.    *)
THEOREM NoRepeat == SysSpec => ReportedIsNotRepeated
<1>1. SysInv /\ [SysNext]_sysVars =>
        [\A a \in ApplyReq, d \in DecideReq :
           /\ Succeeded(a) /\ body[a].key # None
           /\ step[d] = "check" /\ step'[d] = "launch" /\ arg[d].key = body[a].key
           => writeFaults > 0]_sysVars
  <2> SUFFICES ASSUME SysInv, [SysNext]_sysVars,
                      NEW a \in ApplyReq, NEW d \in DecideReq, Succeeded(a), body[a].key # None,
                      step[d] = "check", step'[d] = "launch", arg[d].key = body[a].key
               PROVE  writeFaults > 0
    OBVIOUS
  <2>1. PICK e \in DecideReq : target[e] = a /\ run[e] = "succeeded"
    BY DEF SysInv, IInv, Safety, StatusIsEarned, Final, Succeeded
  <2>2. status[e] = "succeeded" /\ arg[e].key = arg[d].key
    BY <2>1 DEF SysInv, Processes, AgentEnds, LaunchArgs
  <2>3. arg[d].key \in applied \/ writeFaults > 0
    BY <2>2 DEF SysInv, AP!AgentInv, AP!Marked
  <2>4. arg[d].key \notin applied
    BY AP!CheckLooks, AgentsStep, AgentAssumptions DEF SysInv
  <2> QED BY <2>3, <2>4
<1> QED BY <1>1, SysInvariance, PTL DEF SysSpec, ReportedIsNotRepeated

(* Clients that take one step after the other do not race, in the sense of    *)
(* GatewaySerialProofs: what is proved there holds in a session.              *)
LEMMA SessionIsSerial == SessionSpec => SerialSpec
<1>1. SysInv /\ [SessionNext]_sysVars => [SerialNext]_vars
  <2> SUFFICES ASSUME SysInv, SessionNext PROVE [SerialNext]_vars
    BY DEF sysVars, vars
  <2>1. [Next]_vars /\ OneDeciderAtATime'
    BY GatewayStep DEF SysInv, SessionNext, InSession
  <2>2. OneRequestPerKey'
    BY DEF SessionNext, InSession, OneRequestPerKey, Keyed
  <2> QED BY <2>1, <2>2 DEF SerialNext
<1>2. SessionSpec => Init /\ []SysInv
  <2>1. SessionInit => SysInit /\ Init
    BY DEF SessionInit, SysInit
  <2>2. [SessionNext]_sysVars => [SysNext]_sysVars
    BY DEF SessionNext
  <2> QED BY <2>1, <2>2, SysInvariance, PTL DEF SessionSpec, SysSpec
<1> QED BY <1>1, <1>2, PTL DEF SessionSpec, SerialSpec

(* In a session an approved execution is that of the decision in the row. *)
THEOREM SessionRunsAsDecided == SessionSpec => []RunMatchesDecision
  BY SessionIsSerial, ExecutedAsDecided

(* In a session one key makes one approval until something fails. *)
THEOREM SessionKeysDeduplicate == SessionSpec => []OneApprovalPerKey
  BY SessionIsSerial, KeysDeduplicate

(* In a session the approvals table is the store with an atomic Decide. *)
THEOREM SessionImplementsStore == SessionSpec => ImplementsApprovalStore
  BY SessionIsSerial, TableImplementsStore

(* What the documents say of decisions, and the runs gateway_double and       *)
(* gateway_outcome refute for clients that race, is so in a session: a second *)
(* decision is refused, and who approved finds the final status.             *)
THEOREM SessionKeepsPromises == SessionSpec => [](SecondDecisionRefused /\ ApprovalOutcomeShown)
<1>1. SessionSpec => []AnsweredFirst
  <2>1. SessionInit => AnsweredFirst
    BY DEF SessionInit, SysInit, Init, AnsweredFirst, Requests
  <2>2. AnsweredFirst /\ [SessionNext]_sysVars => AnsweredFirst'
    <3>1. SessionNext => AnsweredFirst'
      BY DEF SessionNext, InSession, AnsweredFirst
    <3>2. AnsweredFirst /\ UNCHANGED sysVars => AnsweredFirst'
      BY DEF AnsweredFirst, InFlight, sysVars, vars, inputs
    <3> QED BY <3>1, <3>2
  <2> QED BY <2>1, <2>2, PTL DEF SessionSpec
<1>2. SessionSpec => Spec
  <2>1. SerialSpec => Spec
    BY SerialNextIsNext, PTL DEF SerialSpec, Spec
  <2> QED BY <2>1, SessionIsSerial
<1> QED BY <1>1, <1>2, SessionIsSerial, OneDecisionIsAccepted, OutcomesAreShown, PTL
=============================================================================
