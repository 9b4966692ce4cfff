---------------------------- MODULE GatewayProofs ----------------------------
(***************************************************************************)
(* Proofs about the gateway of Gateway.tla: every request, key and plan, any *)
(* interleaving, any number of failing database calls and crashes.          *)
(*                                                                         *)
(* The properties of GatewayProps.tla are not inductive by themselves: they *)
(* relate tables, runs and replies, and say nothing of a request that is    *)
(* half-way.  IInv adds what each step of a handler may rely on; it is the   *)
(* invariant, and the properties are conjuncts of it.                       *)
(***************************************************************************)
EXTENDS GatewayProps, TLAPS

Fresh == {"idle", "lookup", "create"}
Undecided == {"idle", "check", "update"}
Executing == {"reload", "agent", "putResult", "putFailed", "logResult", "logFailed"}

(* A request that has arrived has its headers and its body. *)
InputsArrived ==
  /\ \A r \in Keyed : pc[r] # "idle" => key[r] \in Keys
  /\ \A a \in ApplyReq : pc[a] # "idle" => plan[a] \in PlanIds
  /\ \A q \in PlanReq : pc[q] \in {"putOp", "putKey", "log"} => plan[q] \in PlanIds
  /\ \A d \in DecideReq : pc[d] # "idle" => target[d] \in ApplyReq /\ verdict[d] \in Verdicts

(* The rows POST /v1/apply has written by each of its steps; before          *)
(* CreateApproval nothing has the ids it is about to use.                    *)
ApplyProgress ==
  \A a \in ApplyReq :
    /\ pc[a] \in Fresh => approvals[a] = None /\ operations[a] = "absent"
    /\ pc[a] \in {"putOp", "putKey", "log"} => approvals[a] # None
    /\ pc[a] \in {"putKey", "log"} => operations[a] # "absent"
    /\ pc[a] = "log" => idempotency[<<"apply", key[a]>>] # None

(* The same for POST /v1/plan. *)
PlanProgress ==
  \A q \in PlanReq :
    /\ pc[q] \in {"putKey", "log"} => operations[plan[q]] = "planned"
    /\ pc[q] = "log" => idempotency[<<"plan", key[q]>>] # None

(* A decision leaves no trace before its UPDATE, is about a decided approval *)
(* after it, and goes beyond the log only to execute an `approve`.           *)
DecideProgress ==
  \A d \in DecideReq :
    /\ pc[d] \in Undecided =>
         run[d] = "none" /\ \A a \in ApplyReq : approvals[a] # None => approvals[a].by # d
    /\ pc[d] = "update" => verdict[d] # "other" /\ approvals[target[d]] # None
    /\ pc[d] \in Executing \cup {"logDecision"} => Decided(target[d])
    /\ pc[d] \in Executing => verdict[d] = "approve"

(* How far the agent process is when its request is at each step. *)
RunProgress ==
  \A d \in DecideReq :
    /\ pc[d] \in {"logDecision", "reload"} => run[d] = "none"
    /\ pc[d] \in {"putResult", "logResult"} => run[d] \in AgentEnds
    /\ pc[d] \in {"putFailed", "logFailed"} => run[d] = "error"
    /\ pc[d] = "logResult" => operations[target[d]] # "absent"

AuditProgress ==
  \A d \in DecideReq :
    /\ pc[d] \in Executing => <<"approval_decided", d>> \in audit
    /\ <<"approval_decided", d>> \in audit => pc[d] # "idle"

(* A request is answered by its last step. *)
RepliesEnd == \A r \in Requests : reply[r] # None => pc[r] = "done"

Safety ==
  /\ NoRunWithoutDecision /\ WritesAreOrdered /\ StatusIsEarned /\ AckedRequestIsDurable
  /\ RefusedDecisionHasNoEffect /\ AckedApprovalHasRun /\ AuditTellsTheDecision

IInv ==
  /\ TypeOK /\ InputsArrived /\ ApplyProgress /\ PlanProgress /\ DecideProgress
  /\ RunProgress /\ AuditProgress /\ RepliesEnd /\ Safety
-----------------------------------------------------------------------------
(* A decision is read as acceptable only on a pending approval; otherwise it *)
(* is answered at once. *)
LEMMA DecideReadCases ==
  ASSUME NEW d \in DecideReq, DecideRead(d)
  PROVE  /\ pc[d] = "check"
         /\ UNCHANGED <<tables, inputs, run, audit, faults, crashes>>
         /\ \/ /\ approvals[target[d]] # None
               /\ approvals[target[d]].status = "pending"
               /\ verdict[d] # "other"
               /\ Goto(d, "check", "update")
               /\ UNCHANGED reply
            \/ \E code \in {400, 404} : Refuse(d, code)
<1> DEFINE res == DecideCheck(target[d], verdict[d])
<1>1. /\ pc[d] = "check"
      /\ UNCHANGED <<tables, inputs, run, audit, faults, crashes>>
      /\ \/ res = "ok" /\ Goto(d, "check", "update") /\ UNCHANGED reply
         \/ res = "not found" /\ Refuse(d, 404)
         \/ res \in {"already decided", "invalid decision"} /\ Refuse(d, 400)
  BY Zenon DEF DecideRead
<1>2. res = "ok" => /\ approvals[target[d]] # None
                    /\ approvals[target[d]].status = "pending"
                    /\ verdict[d] # "other"
  BY DEF DecideCheck
<1> HIDE DEF res
<1>3. CASE res = "ok" /\ Goto(d, "check", "update") /\ UNCHANGED reply
  BY <1>1, <1>2, <1>3, Zenon
<1>4. 400 \in {400, 404} /\ 404 \in {400, 404}
  OBVIOUS
<1>5. CASE Refuse(d, 404)
  BY <1>1, <1>4, <1>5, Zenon
<1>6. CASE Refuse(d, 400)
  BY <1>1, <1>4, <1>6, Zenon
<1> QED BY <1>1, <1>3, <1>5, <1>6, Zenon

(* The operation id a request finds under its key is one of an operation. *)
LEMMA PriorTypes ==
  ASSUME IInv, NEW scope \in {"plan", "apply"}, NEW r \in Keyed, pc[r] = "lookup",
         Prior(scope, r) # None
  PROVE  Prior(scope, r).op \in OpIds
<1>1. <<scope, key[r]>> \in IdemKeys
  BY DEF IInv, InputsArrived, IdemKeys
<1>2. Prior(scope, r) \in Snapshot
  BY <1>1 DEF IInv, TypeOK, StoreTypeOK, Prior
<1> QED BY <1>2 DEF Snapshot

(* A reply is given with an HTTP status and, if any, an operation id. *)
LEMMA ReplyTypes ==
  ASSUME IInv, [Next]_vars
  PROVE  reply' \in [Requests -> Reply \cup {None}]
<1>1. ASSUME NEW r \in Requests, NEW code \in {200, 202, 400, 404, 500},
             NEW op \in OpIds \cup {None}, Finish(r, code, op)
      PROVE  reply' \in [Requests -> Reply \cup {None}]
  BY <1>1 DEF IInv, TypeOK, Finish, Reply
<1>2. CASE UNCHANGED reply
  BY <1>2 DEF IInv, TypeOK
<1>3. ASSUME NEW q \in PlanReq, PlanStep(q)
      PROVE  UNCHANGED reply \/ \E code \in {200, 400, 500}, op \in OpIds \cup {None} : Finish(q, code, op)
  <2>1. CASE PlanLookup(q)
    BY <2>1, PriorTypes DEF PlanLookup, Refuse, Keyed
  <2>2. CASE PlanExec(q)
    BY <2>2 DEF PlanExec, Refuse
  <2>3. CASE PlanPutOp(q) \/ PlanPutKey(q)
    BY <2>3 DEF PlanPutOp, PlanPutKey
  <2>4. CASE PlanFinish(q)
    BY <2>4 DEF PlanFinish, IInv, InputsArrived, OpIds
  <2> QED BY <1>3, <2>1, <2>2, <2>3, <2>4 DEF PlanStep
<1>4. ASSUME NEW a \in ApplyReq, ApplyStep(a)
      PROVE  UNCHANGED reply \/ \E code \in {202, 400}, op \in OpIds \cup {None} : Finish(a, code, op)
  <2>1. CASE ApplyLookup(a)
    BY <2>1, PriorTypes DEF ApplyLookup, Refuse, Keyed
  <2>2. CASE ApplyCreate(a) \/ ApplyPutOp(a) \/ ApplyPutKey(a)
    BY <2>2 DEF ApplyCreate, ApplyPutOp, ApplyPutKey
  <2>3. CASE ApplyFinish(a)
    BY <2>3 DEF ApplyFinish, OpIds
  <2> QED BY <1>4, <2>1, <2>2, <2>3 DEF ApplyStep
<1>5. ASSUME NEW d \in DecideReq, DecideStep(d)
      PROVE  UNCHANGED reply \/ \E code \in {200, 400, 404, 500} : Finish(d, code, None)
  <2>1. CASE DecideRead(d) \/ DecideLog(d)
    BY <2>1, DecideReadCases DEF DecideLog, Refuse
  <2>2. CASE ExecFinish(d) \/ ExecFail(d)
    BY <2>2 DEF ExecFinish, ExecFail, Refuse
  <2>3. CASE DecideWrite(d) \/ ExecLaunch(d) \/ ExecReturn(d) \/ ExecPutResult(d) \/ ExecPutFailed(d)
    BY <2>3 DEF DecideWrite, ExecLaunch, ExecReturn, ExecPutResult, ExecPutFailed
  <2> QED BY <1>5, <2>1, <2>2, <2>3 DEF DecideStep
<1>6. ASSUME NEW r \in Requests, DbError(r)
      PROVE  \E code \in {400, 500} : Finish(r, code, None)
  BY <1>6 DEF DbError, Refuse, ErrorCode
<1>7. \/ UNCHANGED reply
      \/ \E r \in Requests, code \in {200, 202, 400, 404, 500}, op \in OpIds \cup {None} :
           Finish(r, code, op)
  BY <1>3, <1>4, <1>5, <1>6
     DEF Next, vars, PlanArrive, ApplyArrive, DecideArrive, AgentRun, DbErrorIgnored, Crash,
         Requests, Keyed
<1> QED BY <1>1, <1>2, <1>7

-----------------------------------------------------------------------------
(* Type correctness: every step keeps TypeOK, given the invariant. *)
LEMMA TypeStep ==
  ASSUME IInv, [Next]_vars
  PROVE  TypeOK'
<1>0. reply' \in [Requests -> Reply \cup {None}]
  BY ReplyTypes
<1> USE RequestsDistinct, OpIdsDistinct
    DEF IInv, vars, tables, inputs, TypeOK, StoreTypeOK, Goto, Refuse, LogEvent,
       Requests, Keyed, Parked,
    PlanSteps, ApplySteps, DecideSteps, PCs
<1>1. ASSUME NEW q \in PlanReq, PlanArrive(q) PROVE TypeOK'
  BY <1>1 DEF PlanArrive
<1>2. ASSUME NEW q \in PlanReq, PlanLookup(q) PROVE TypeOK'
  BY <1>2, <1>0 DEF PlanLookup, Finish
<1>3. ASSUME NEW q \in PlanReq, PlanExec(q) PROVE TypeOK'
  BY <1>3, <1>0 DEF PlanExec, Finish
<1>4. ASSUME NEW q \in PlanReq, PlanPutOp(q) PROVE TypeOK'
  BY <1>4 DEF PlanPutOp, PutOperation, InputsArrived, OpIds, OpStatus
<1>5. ASSUME NEW q \in PlanReq, PlanPutKey(q) PROVE TypeOK'
  BY <1>5 DEF PlanPutKey, PutIdempotency, InputsArrived, IdemKeys, Snapshot, OpIds, OpStatus
<1>6. ASSUME NEW q \in PlanReq, PlanFinish(q) PROVE TypeOK'
  BY <1>6, <1>0 DEF PlanFinish, Finish, EventTypes
<1>7. ASSUME NEW a \in ApplyReq, ApplyArrive(a) PROVE TypeOK'
  BY <1>7 DEF ApplyArrive
<1>8. ASSUME NEW a \in ApplyReq, ApplyLookup(a) PROVE TypeOK'
  BY <1>8, <1>0 DEF ApplyLookup, Finish
<1>9. ASSUME NEW a \in ApplyReq, ApplyCreate(a) PROVE TypeOK'
  BY <1>9 DEF ApplyCreate, CreateApproval, InputsArrived, ApprovalRow
<1>10. ASSUME NEW a \in ApplyReq, ApplyPutOp(a) PROVE TypeOK'
  BY <1>10 DEF ApplyPutOp, PutOperation, OpIds, OpStatus
<1>11. ASSUME NEW a \in ApplyReq, ApplyPutKey(a) PROVE TypeOK'
  BY <1>11 DEF ApplyPutKey, PutIdempotency, InputsArrived, IdemKeys, Snapshot, OpIds, OpStatus
<1>12. ASSUME NEW a \in ApplyReq, ApplyFinish(a) PROVE TypeOK'
  BY <1>12, <1>0 DEF ApplyFinish, Finish, OpIds, EventTypes
<1>13. ASSUME NEW d \in DecideReq, DecideArrive(d) PROVE TypeOK'
  BY <1>13 DEF DecideArrive
<1>14. ASSUME NEW d \in DecideReq, DecideRead(d) PROVE TypeOK'
  BY <1>14, <1>0, DecideReadCases DEF Finish
<1>15. ASSUME NEW d \in DecideReq, DecideWrite(d) PROVE TypeOK'
  BY <1>15 DEF DecideWrite, DecideUpdate, ApprovalRow, InputsArrived, DecideProgress
<1>16. ASSUME NEW d \in DecideReq, DecideLog(d) PROVE TypeOK'
  BY <1>16, <1>0 DEF DecideLog, Finish, EventTypes
<1>17. ASSUME NEW d \in DecideReq, ExecLaunch(d) PROVE TypeOK'
  BY <1>17 DEF ExecLaunch, AgentStates
<1>18. ASSUME NEW d \in DecideReq, AgentRun(d) PROVE TypeOK'
  BY <1>18 DEF AgentRun, AgentStates, AgentEnds
<1>19. ASSUME NEW d \in DecideReq, ExecReturn(d) PROVE TypeOK'
  BY <1>19 DEF ExecReturn
<1>20. ASSUME NEW d \in DecideReq, ExecPutResult(d) PROVE TypeOK'
  BY <1>20 DEF ExecPutResult, PutOperation, InputsArrived, RunProgress, OpIds, OpStatus,
     AgentEnds
<1>21. ASSUME NEW d \in DecideReq, ExecFinish(d) PROVE TypeOK'
  BY <1>21, <1>0 DEF ExecFinish, Finish, EventTypes
<1>22. ASSUME NEW d \in DecideReq, ExecPutFailed(d) PROVE TypeOK'
  BY <1>22 DEF ExecPutFailed, PutOperation, InputsArrived, OpIds, OpStatus
<1>23. ASSUME NEW d \in DecideReq, ExecFail(d) PROVE TypeOK'
  BY <1>23, <1>0 DEF ExecFail, Finish, EventTypes
<1>24. ASSUME NEW d \in DecideReq, DbErrorIgnored(d) PROVE TypeOK'
  BY <1>24, BoundsAssumption DEF DbErrorIgnored
<1>25. ASSUME NEW r \in Requests, DbError(r) PROVE TypeOK'
  BY <1>25, BoundsAssumption, <1>0 DEF DbError, Finish, ErrorCode
<1>26. CASE Crash
  BY <1>26, BoundsAssumption DEF Crash, InFlight, PCs
<1>27. CASE UNCHANGED vars
  BY <1>27
<1> QED BY <1>1, <1>2, <1>3, <1>4, <1>5, <1>6, <1>7, <1>8, <1>9, <1>10, <1>11, <1>12, <1>13,
   <1>14, <1>15, <1>16, <1>17, <1>18, <1>19, <1>20, <1>21, <1>22, <1>23, <1>24, <1>25,
   <1>26, <1>27 DEF Next, PlanStep, ApplyStep, DecideStep
(* The UPDATE of a decision, on the row it finds. *)
LEMMA DecideWriteRow ==
  ASSUME IInv, NEW d \in DecideReq, DecideWrite(d)
  PROVE  /\ target[d] \in ApplyReq /\ approvals[target[d]] # None
         /\ approvals'[target[d]] # None
         /\ approvals'[target[d]].plan = approvals[target[d]].plan
         /\ approvals'[target[d]].by = d
         /\ approvals'[target[d]].status = IF verdict[d] = "approve" THEN "approved" ELSE "rejected"
         /\ \A b \in ApplyReq : b # target[d] => approvals'[b] = approvals[b]
<1> DEFINE a == target[d]
           s == IF verdict[d] = "approve" THEN "approved" ELSE "rejected"
           row == [plan |-> approvals[a].plan, status |-> s, by |-> d]
<1>1. a \in ApplyReq /\ approvals[a] # None
  BY DEF DecideWrite, Goto, IInv, InputsArrived, DecideProgress
<1>2. approvals \in [ApplyReq -> ApprovalRow \cup {None}] /\ approvals[a] \in ApprovalRow
  BY <1>1 DEF IInv, TypeOK, StoreTypeOK
<1>3. approvals' = [approvals EXCEPT ![a] = row]
  BY <1>1, <1>2 DEF DecideWrite, DecideUpdate, ApprovalRow
<1>4. row \in ApprovalRow
  BY <1>2 DEF ApprovalRow
<1>5. row # None
  BY <1>4, NoneIsNoRow
<1> QED BY <1>1, <1>2, <1>3, <1>5

(* Which steps write which part of the state. *)
LEMMA WhoWrites ==
  ASSUME [Next]_vars
  PROVE  /\ \/ UNCHANGED approvals
            \/ \E a \in ApplyReq : ApplyCreate(a)
            \/ \E d \in DecideReq : DecideWrite(d)
         /\ \/ UNCHANGED operations
            \/ \E q \in PlanReq : PlanPutOp(q)
            \/ \E a \in ApplyReq : ApplyPutOp(a)
            \/ \E d \in DecideReq : ExecPutResult(d) \/ ExecPutFailed(d)
         /\ \/ UNCHANGED idempotency
            \/ \E q \in PlanReq : PlanPutKey(q)
            \/ \E a \in ApplyReq : ApplyPutKey(a)
         /\ \/ UNCHANGED run
            \/ \E d \in DecideReq : ExecLaunch(d) \/ AgentRun(d)
         /\ \/ UNCHANGED <<key, plan>>
            \/ \E q \in PlanReq : PlanArrive(q) \/ PlanExec(q)
            \/ \E a \in ApplyReq : ApplyArrive(a)
         /\ UNCHANGED <<target, verdict>> \/ \E d \in DecideReq : DecideArrive(d)
<1> USE DEF vars, tables, inputs
<1>1. ASSUME NEW q \in PlanReq, PlanStep(q)
      PROVE  /\ UNCHANGED <<approvals, run, target, verdict>>
             /\ UNCHANGED operations \/ PlanPutOp(q)
             /\ UNCHANGED idempotency \/ PlanPutKey(q)
             /\ UNCHANGED <<key, plan>> \/ PlanExec(q)
  BY <1>1 DEF PlanStep, PlanLookup, PlanExec, PlanPutOp, PlanPutKey, PlanFinish,
     PutOperation, PutIdempotency
<1>2. ASSUME NEW a \in ApplyReq, ApplyStep(a)
      PROVE  /\ UNCHANGED <<run, inputs>>
             /\ UNCHANGED approvals \/ ApplyCreate(a)
             /\ UNCHANGED operations \/ ApplyPutOp(a)
             /\ UNCHANGED idempotency \/ ApplyPutKey(a)
  BY <1>2 DEF ApplyStep, ApplyLookup, ApplyCreate, ApplyPutOp, ApplyPutKey, ApplyFinish,
     CreateApproval, PutOperation, PutIdempotency
<1>3. ASSUME NEW d \in DecideReq, DecideStep(d)
      PROVE  /\ UNCHANGED <<idempotency, inputs>>
             /\ UNCHANGED approvals \/ DecideWrite(d)
             /\ UNCHANGED operations \/ ExecPutResult(d) \/ ExecPutFailed(d)
             /\ UNCHANGED run \/ ExecLaunch(d)
  <2>1. CASE DecideRead(d) \/ DecideLog(d) \/ ExecReturn(d) \/ ExecFinish(d) \/ ExecFail(d)
    BY <2>1, DecideReadCases DEF DecideLog, ExecReturn, ExecFinish, ExecFail
  <2>2. CASE DecideWrite(d) \/ ExecLaunch(d)
    BY <2>2 DEF DecideWrite, ExecLaunch, DecideUpdate
  <2>3. CASE ExecPutResult(d) \/ ExecPutFailed(d)
    BY <2>3 DEF ExecPutResult, ExecPutFailed, PutOperation
  <2> QED BY <1>3, <2>1, <2>2, <2>3 DEF DecideStep
<1>4. ASSUME NEW r \in Requests, DbError(r) PROVE UNCHANGED <<tables, inputs, run>>
  BY <1>4 DEF DbError
<1>5. ASSUME NEW d \in DecideReq, DecideArrive(d) \/ DbErrorIgnored(d)
      PROVE  /\ UNCHANGED <<tables, run, key, plan>>
             /\ UNCHANGED <<target, verdict>> \/ DecideArrive(d)
  BY <1>5 DEF DecideArrive, DbErrorIgnored
<1>6. ASSUME NEW d \in DecideReq, AgentRun(d) PROVE UNCHANGED <<tables, inputs>>
  BY <1>6 DEF AgentRun
<1>7. ASSUME NEW q \in PlanReq, PlanArrive(q) PROVE UNCHANGED <<tables, run, target, verdict>>
  BY <1>7 DEF PlanArrive
<1>8. ASSUME NEW a \in ApplyReq, ApplyArrive(a)
      PROVE  UNCHANGED <<tables, run, target, verdict>>
  BY <1>8 DEF ApplyArrive
<1>9. CASE Crash
  BY <1>9 DEF Crash
<1>10. CASE UNCHANGED vars
  BY <1>10
<1> QED BY <1>1, <1>2, <1>3, <1>4, <1>5, <1>6, <1>7, <1>8, <1>9, <1>10 DEF Next

(* A request moves by its own steps, or is ended by a failure or a crash. *)
LEMMA RequestsMove ==
  ASSUME IInv, [Next]_vars, NEW r \in Requests, pc'[r] # pc[r]
  PROVE  \/ r \in PlanReq /\ (PlanArrive(r) \/ PlanStep(r))
         \/ r \in ApplyReq /\ (ApplyArrive(r) \/ ApplyStep(r))
         \/ r \in DecideReq /\ (DecideArrive(r) \/ DecideStep(r) \/ DbErrorIgnored(r))
         \/ DbError(r) /\ pc'[r] = "done"
         \/ Crash /\ pc'[r] = "lost"
<1> USE DEF IInv, TypeOK, Goto, Refuse, Finish, vars, Requests, Keyed
<1>1. ASSUME NEW q \in PlanReq, PlanArrive(q) \/ PlanStep(q) PROVE q = r
  BY <1>1 DEF PlanArrive, PlanStep, PlanLookup, PlanExec, PlanPutOp, PlanPutKey, PlanFinish
<1>2. ASSUME NEW a \in ApplyReq, ApplyArrive(a) \/ ApplyStep(a) PROVE a = r
  BY <1>2 DEF ApplyArrive, ApplyStep, ApplyLookup, ApplyCreate, ApplyPutOp, ApplyPutKey,
     ApplyFinish
<1>3. ASSUME NEW d \in DecideReq, DecideStep(d) PROVE d = r
  <2>1. CASE DecideRead(d) \/ DecideLog(d)
    BY <2>1, DecideReadCases DEF DecideLog
  <2>2. CASE ~(DecideRead(d) \/ DecideLog(d))
    BY <1>3, <2>2 DEF DecideStep, DecideWrite, ExecLaunch, ExecReturn, ExecPutResult,
       ExecFinish, ExecPutFailed, ExecFail
  <2> QED BY <2>1, <2>2
<1>4. ASSUME NEW d \in DecideReq, DecideArrive(d) \/ AgentRun(d) \/ DbErrorIgnored(d)
      PROVE  d = r /\ ~AgentRun(d)
  BY <1>4 DEF DecideArrive, AgentRun, DbErrorIgnored
<1>5. ASSUME NEW s \in Requests, DbError(s) PROVE s = r /\ pc'[r] = "done"
  BY <1>5 DEF DbError
<1>6. CASE Crash
  BY <1>6 DEF Crash
<1> QED BY <1>1, <1>2, <1>3, <1>4, <1>5, <1>6 DEF Next

(* The audit index grows until a crash empties it. *)
LEMMA AuditGrows ==
  ASSUME [Next]_vars, ~Crash
  PROVE  /\ \/ UNCHANGED audit
            \/ \E q \in PlanReq : PlanFinish(q)
            \/ \E a \in ApplyReq : ApplyFinish(a)
            \/ \E d \in DecideReq : DecideLog(d) \/ ExecFinish(d) \/ ExecFail(d)
         /\ audit \subseteq audit'
         /\ UNCHANGED crashes
<1>1. ASSUME NEW q \in PlanReq, PlanArrive(q) \/ PlanStep(q)
      PROVE  (UNCHANGED audit \/ PlanFinish(q)) /\ UNCHANGED crashes
  BY <1>1 DEF PlanArrive, PlanStep, PlanLookup, PlanExec, PlanPutOp, PlanPutKey, PlanFinish
<1>2. ASSUME NEW a \in ApplyReq, ApplyArrive(a) \/ ApplyStep(a)
      PROVE  (UNCHANGED audit \/ ApplyFinish(a)) /\ UNCHANGED crashes
  BY <1>2 DEF ApplyArrive, ApplyStep, ApplyLookup, ApplyCreate, ApplyPutOp, ApplyPutKey,
     ApplyFinish
<1>3. ASSUME NEW d \in DecideReq, DecideStep(d)
      PROVE  /\ UNCHANGED audit \/ DecideLog(d) \/ ExecFinish(d) \/ ExecFail(d)
             /\ UNCHANGED crashes
  BY <1>3, DecideReadCases DEF DecideStep, DecideWrite, DecideLog, ExecLaunch, ExecReturn,
     ExecPutResult, ExecFinish, ExecPutFailed, ExecFail
<1>4. /\ \/ UNCHANGED audit
         \/ \E q \in PlanReq : PlanFinish(q)
         \/ \E a \in ApplyReq : ApplyFinish(a)
         \/ \E d \in DecideReq : DecideLog(d) \/ ExecFinish(d) \/ ExecFail(d)
      /\ UNCHANGED crashes
  BY <1>1, <1>2, <1>3 DEF Next, vars, DecideArrive, AgentRun, DbErrorIgnored, DbError
<1>5. audit \subseteq audit'
  BY <1>4 DEF PlanFinish, ApplyFinish, DecideLog, ExecFinish, ExecFail, LogEvent
<1> QED BY <1>4, <1>5

(* Nothing that was written, answered or decided is undone. *)
RowsStay ==
  /\ \A a \in ApplyReq : approvals[a] # None =>
       /\ approvals'[a] # None /\ approvals'[a].plan = approvals[a].plan
       /\ Decided(a) => Decided(a)'
  /\ \A a \in ApplyReq : operations[a] # "absent" => operations'[a] # "absent"
  /\ \A p \in PlanIds : operations[p] = "planned" => operations'[p] = "planned"
  /\ \A i \in IdemKeys : idempotency[i] # None => idempotency'[i] # None
  /\ \A d \in DecideReq :
       run[d] \notin {"none", "running"} => run'[d] = run[d]
  /\ \A r \in Keyed : pc[r] # "idle" => key'[r] = key[r]
  /\ \A a \in ApplyReq : pc[a] # "idle" => plan'[a] = plan[a]
  /\ \A q \in PlanReq : pc[q] \in {"putOp", "putKey", "log"} => plan'[q] = plan[q]
  /\ \A d \in DecideReq : pc[d] # "idle" => target'[d] = target[d] /\ verdict'[d] = verdict[d]

LEMMA RowsStayStep ==
  ASSUME IInv, [Next]_vars
  PROVE  RowsStay
<1> USE RequestsDistinct, OpIdsDistinct
    DEF IInv, TypeOK, StoreTypeOK, InputsArrived, Goto, Requests, Keyed
<1>1. \A a \in ApplyReq : approvals[a] # None =>
        /\ approvals'[a] # None /\ approvals'[a].plan = approvals[a].plan
        /\ Decided(a) => Decided(a)'
  <2>1. ASSUME NEW b \in ApplyReq, ApplyCreate(b)
        PROVE  approvals[b] = None /\ \A a \in ApplyReq : a # b => approvals'[a] = approvals[a]
    BY <2>1 DEF ApplyCreate, CreateApproval, ApplyProgress, Fresh
  <2>2. ASSUME NEW d \in DecideReq, DecideWrite(d)
        PROVE  <1>1!:
    <3> HIDE DEF IInv
    <3> QED BY <2>2, DecideWriteRow DEF Decided
  <2> QED BY <2>1, <2>2, WhoWrites DEF Decided
<1>2. /\ \A a \in ApplyReq : operations[a] # "absent" => operations'[a] # "absent"
      /\ \A p \in PlanIds : operations[p] = "planned" => operations'[p] = "planned"
  <2>1. ASSUME NEW q \in PlanReq, PlanPutOp(q) PROVE <1>2!:
    BY <2>1 DEF PlanPutOp, PutOperation, OpIds
  <2>2. ASSUME NEW a \in ApplyReq, ApplyPutOp(a) PROVE <1>2!:
    BY <2>2 DEF ApplyPutOp, PutOperation, OpIds
  <2>3. ASSUME NEW d \in DecideReq, ExecPutResult(d) \/ ExecPutFailed(d) PROVE <1>2!:
    BY <2>3 DEF ExecPutResult, ExecPutFailed, PutOperation, RunProgress, AgentEnds, OpIds
  <2> QED BY <2>1, <2>2, <2>3, WhoWrites
<1>3. \A i \in IdemKeys : idempotency[i] # None => idempotency'[i] # None
  <2>1. ASSUME NEW q \in PlanReq, PlanPutKey(q) PROVE <1>3!:
    <3>1. [op |-> plan[q], status |-> "planned"] # None
      BY <2>1, NoneIsNoRow DEF PlanPutKey, Snapshot, OpIds, OpStatus
    <3> QED BY <2>1, <3>1 DEF PlanPutKey, PutIdempotency
  <2>2. ASSUME NEW a \in ApplyReq, ApplyPutKey(a) PROVE <1>3!:
    <3>1. [op |-> a, status |-> "pending_approval"] # None
      BY NoneIsNoRow DEF Snapshot, OpIds, OpStatus
    <3> QED BY <2>2, <3>1 DEF ApplyPutKey, PutIdempotency
  <2> QED BY <2>1, <2>2, WhoWrites
<1>4. \A d \in DecideReq :
        run[d] \notin {"none", "running"} => run'[d] = run[d]
  <2>1. ASSUME NEW d \in DecideReq, ExecLaunch(d) PROVE <1>4!:
    BY <2>1 DEF ExecLaunch, RunProgress
  <2>2. ASSUME NEW d \in DecideReq, AgentRun(d) PROVE <1>4!:
    BY <2>2 DEF AgentRun
  <2> QED BY <2>1, <2>2, WhoWrites
<1>5. /\ \A r \in Keyed : pc[r] # "idle" => key'[r] = key[r]
      /\ \A a \in ApplyReq : pc[a] # "idle" => plan'[a] = plan[a]
      /\ \A q \in PlanReq : pc[q] \in {"putOp", "putKey", "log"} => plan'[q] = plan[q]
  <2>1. ASSUME NEW q \in PlanReq, PlanArrive(q) \/ PlanExec(q) PROVE <1>5!:
    BY <2>1 DEF PlanArrive, PlanExec
  <2>2. ASSUME NEW a \in ApplyReq, ApplyArrive(a) PROVE <1>5!:
    BY <2>2 DEF ApplyArrive
  <2> QED BY <2>1, <2>2, WhoWrites
<1>6. \A d \in DecideReq : pc[d] # "idle" => target'[d] = target[d] /\ verdict'[d] = verdict[d]
  <2>1. ASSUME NEW d \in DecideReq, DecideArrive(d) PROVE <1>6!:
    BY <2>1 DEF DecideArrive
  <2> QED BY <2>1, WhoWrites
<1> QED BY <1>1, <1>2, <1>3, <1>4, <1>5, <1>6 DEF RowsStay

(* Headers and body of a request are read once, before anything else. *)
LEMMA InputsStep ==
  ASSUME IInv, [Next]_vars
  PROVE  InputsArrived'
<1>0. TypeOK'
  BY TypeStep
<1> USE <1>0, RequestsDistinct, OpIdsDistinct
    DEF IInv, vars, tables, inputs, Goto, Refuse, LogEvent, Requests, Keyed, Parked,
       InputsArrived, TypeOK, ApplySteps, PlanSteps, DecideSteps
<1>1. ASSUME NEW q \in PlanReq, PlanArrive(q) \/ PlanStep(q)
      PROVE  InputsArrived'
  BY <1>1 DEF PlanStep, PlanArrive, PlanLookup, Finish, PlanExec, PlanPutOp, PutOperation,
     PlanPutKey, PutIdempotency, PlanFinish
<1>2. ASSUME NEW a \in ApplyReq, ApplyArrive(a) \/ ApplyStep(a)
      PROVE  InputsArrived'
  BY <1>2 DEF ApplyStep, ApplyArrive, ApplyLookup, Finish, ApplyCreate, CreateApproval,
     ApplyPutOp, PutOperation, ApplyPutKey, PutIdempotency, ApplyFinish
<1>3. ASSUME NEW d \in DecideReq, DecideArrive(d) \/ DecideRead(d) \/ DecideWrite(d) \/ DecideLog(d)
      PROVE  InputsArrived'
  BY <1>3, DecideReadCases DEF DecideArrive, Finish, DecideWrite, DecideUpdate, DecideLog
<1>4. ASSUME NEW d \in DecideReq, ExecLaunch(d) \/ AgentRun(d) \/ ExecReturn(d)
      PROVE  InputsArrived'
  BY <1>4 DEF ExecLaunch, AgentRun, ExecReturn
<1>5. ASSUME NEW d \in DecideReq, ExecPutResult(d) \/ ExecPutFailed(d) \/ DbErrorIgnored(d)
      PROVE  InputsArrived'
  BY <1>5 DEF ExecPutResult, PutOperation, ExecPutFailed, DbErrorIgnored
<1>6. ASSUME NEW d \in DecideReq, ExecFinish(d) \/ ExecFail(d)
      PROVE  InputsArrived'
  BY <1>6 DEF ExecFinish, Finish, ExecFail
<1>7. ASSUME NEW r \in Requests, DbError(r)
      PROVE  InputsArrived'
  BY <1>7 DEF DbError, Finish
<1>8. CASE Crash
  BY <1>8 DEF Crash, InFlight
<1>9. CASE UNCHANGED vars
  BY <1>9
<1> QED BY <1>1, <1>2, <1>3, <1>4, <1>5, <1>6, <1>7, <1>8, <1>9 DEF Next, PlanStep,
   ApplyStep, DecideStep

(* An answered request takes no further step. *)
LEMMA RepliesStep ==
  ASSUME IInv, [Next]_vars
  PROVE  RepliesEnd'
<1>0. TypeOK'
  BY TypeStep
<1> USE <1>0, RequestsDistinct, OpIdsDistinct
    DEF IInv, vars, tables, inputs, Goto, Refuse, LogEvent, Requests, Keyed, Parked,
       RepliesEnd, TypeOK, PlanSteps, ApplySteps, DecideSteps
<1>1. ASSUME NEW q \in PlanReq, PlanArrive(q) \/ PlanStep(q)
      PROVE  RepliesEnd'
  BY <1>1 DEF PlanStep, PlanArrive, PlanLookup, Finish, PlanExec, PlanPutOp, PutOperation,
     PlanPutKey, PutIdempotency, PlanFinish
<1>2. ASSUME NEW a \in ApplyReq, ApplyArrive(a) \/ ApplyStep(a)
      PROVE  RepliesEnd'
  BY <1>2 DEF ApplyStep, ApplyArrive, ApplyLookup, Finish, ApplyCreate, CreateApproval,
     ApplyPutOp, PutOperation, ApplyPutKey, PutIdempotency, ApplyFinish
<1>3. ASSUME NEW d \in DecideReq, DecideArrive(d) \/ DecideRead(d) \/ DecideWrite(d) \/ DecideLog(d)
      PROVE  RepliesEnd'
  BY <1>3, DecideReadCases DEF DecideArrive, Finish, DecideWrite, DecideUpdate, DecideLog
<1>4. ASSUME NEW d \in DecideReq, ExecLaunch(d) \/ AgentRun(d) \/ ExecReturn(d)
      PROVE  RepliesEnd'
  BY <1>4 DEF ExecLaunch, AgentRun, ExecReturn
<1>5. ASSUME NEW d \in DecideReq, ExecPutResult(d) \/ ExecPutFailed(d) \/ DbErrorIgnored(d)
      PROVE  RepliesEnd'
  BY <1>5 DEF ExecPutResult, PutOperation, ExecPutFailed, DbErrorIgnored
<1>6. ASSUME NEW d \in DecideReq, ExecFinish(d) \/ ExecFail(d)
      PROVE  RepliesEnd'
  BY <1>6 DEF ExecFinish, Finish, ExecFail
<1>7. ASSUME NEW r \in Requests, DbError(r)
      PROVE  RepliesEnd'
  BY <1>7 DEF DbError, Finish
<1>8. CASE Crash
  BY <1>8 DEF Crash, InFlight
<1>9. CASE UNCHANGED vars
  BY <1>9
<1> QED BY <1>1, <1>2, <1>3, <1>4, <1>5, <1>6, <1>7, <1>8, <1>9 DEF Next, PlanStep,
   ApplyStep, DecideStep

(* An approval appears by its own request's INSERT. *)
LEMMA ApprovalAppears ==
  ASSUME IInv, [Next]_vars, NEW a \in ApplyReq, approvals[a] = None, approvals'[a] # None
  PROVE  ApplyCreate(a)
<1>1. ASSUME NEW b \in ApplyReq, ApplyCreate(b) PROVE b = a
  BY <1>1 DEF ApplyCreate, CreateApproval, IInv, TypeOK, StoreTypeOK
<1>2. ASSUME NEW d \in DecideReq, DecideWrite(d) PROVE FALSE
  <2>1. a # target[d] /\ approvals'[a] = approvals[a]
    BY <1>2, DecideWriteRow
  <2> QED BY <2>1
<1> QED BY <1>1, <1>2, WhoWrites

(* The rows of an apply request are written in order, by that request. *)
LEMMA ApplyProgressStep ==
  ASSUME IInv, [Next]_vars
  PROVE  ApplyProgress'
<1> SUFFICES ASSUME NEW a \in ApplyReq
             PROVE  /\ pc'[a] \in Fresh => approvals'[a] = None /\ operations'[a] = "absent"
                    /\ pc'[a] \in {"putOp", "putKey", "log"} => approvals'[a] # None
                    /\ pc'[a] \in {"putKey", "log"} => operations'[a] # "absent"
                    /\ pc'[a] = "log" => idempotency'[<<"apply", key'[a]>>] # None
  BY DEF ApplyProgress
<1>1. TypeOK /\ StoreTypeOK /\ ApplyProgress /\ RowsStay /\ InputsArrived
  BY RowsStayStep DEF IInv, TypeOK
<1>2. a \in Requests /\ a \in Keyed /\ a \in OpIds /\ a \notin PlanReq /\ a \notin DecideReq
  BY RequestsDistinct DEF Requests, Keyed, OpIds
<1>3. CASE pc'[a] = pc[a] /\ pc[a] \in Fresh
  <2>1. approvals[a] = None /\ operations[a] = "absent"
    BY <1>1, <1>3 DEF ApplyProgress
  <2>2. approvals'[a] = None
    <3>1. ~ApplyCreate(a)
      BY <1>1, <1>2, <1>3 DEF ApplyCreate, Goto, TypeOK
    <3> QED BY <2>1, <3>1, ApprovalAppears
  <2>3. operations'[a] = "absent"
    <3>1. ASSUME NEW q \in PlanReq, PlanPutOp(q) PROVE operations'[a] = operations[a]
      BY <1>1, <3>1, OpIdsDistinct
         DEF PlanPutOp, PutOperation, Goto, StoreTypeOK, OpIds, InputsArrived
    <3>2. ASSUME NEW b \in ApplyReq, ApplyPutOp(b) PROVE operations'[a] = operations[a]
      BY <1>1, <1>2, <1>3, <3>2 DEF ApplyPutOp, PutOperation, Goto, StoreTypeOK, TypeOK, Fresh
    <3>3. ASSUME NEW d \in DecideReq, ExecPutResult(d) \/ ExecPutFailed(d)
          PROVE  operations'[a] = operations[a]
      BY <1>1, <1>2, <2>1, <3>3 DEF ExecPutResult, ExecPutFailed, PutOperation, Goto,
         StoreTypeOK, IInv, DecideProgress, Executing, Decided
    <3> QED BY <2>1, <3>1, <3>2, <3>3, WhoWrites
  <2> QED BY <1>3, <2>2, <2>3 DEF Fresh
<1>4. CASE pc'[a] = pc[a] /\ pc[a] \notin Fresh
  <2>1. key'[a] = key[a] /\ <<"apply", key[a]>> \in IdemKeys
    BY <1>1, <1>2, <1>4 DEF Fresh, RowsStay, InputsArrived, IdemKeys
  <2> QED BY <1>1, <1>4, <2>1 DEF ApplyProgress, RowsStay
<1>5. CASE pc'[a] \in {"done", "lost"}
  BY <1>5 DEF Fresh
<1>6. CASE ApplyArrive(a) \/ ApplyLookup(a)
  BY <1>1, <1>2, <1>6
     DEF ApplyArrive, ApplyLookup, Refuse, Finish, Goto, tables, TypeOK, ApplyProgress, Fresh
<1>7. CASE ApplyCreate(a)
  <2>1. plan[a] \in PlanIds
    BY <1>1, <1>7 DEF ApplyCreate, Goto, InputsArrived
  <2>2. [plan |-> plan[a], status |-> "pending", by |-> None] # None
    BY <2>1, NoneIsNoRow DEF ApprovalRow
  <2> QED BY <1>1, <1>2, <1>7, <2>2
          DEF ApplyCreate, CreateApproval, Goto, TypeOK, StoreTypeOK, Fresh
<1>8. CASE ApplyPutOp(a)
  BY <1>1, <1>2, <1>8
     DEF ApplyPutOp, PutOperation, Goto, TypeOK, StoreTypeOK, ApplyProgress, Fresh
<1>9. CASE ApplyPutKey(a)
  <2>1. <<"apply", key[a]>> \in IdemKeys
    BY <1>1, <1>2, <1>9 DEF ApplyPutKey, Goto, InputsArrived, IdemKeys
  <2>2. [op |-> a, status |-> "pending_approval"] # None
    BY NoneIsNoRow DEF Snapshot, OpIds, OpStatus
  <2> QED BY <1>1, <1>2, <1>9, <2>1, <2>2
          DEF ApplyPutKey, PutIdempotency, Goto, inputs, TypeOK, StoreTypeOK, ApplyProgress,
             Fresh
<1>10. CASE ApplyFinish(a)
  BY <1>1, <1>2, <1>10 DEF ApplyFinish, Finish, TypeOK, Fresh
<1> QED BY <1>2, <1>3, <1>4, <1>5, <1>6, <1>7, <1>8, <1>9, <1>10, RequestsMove DEF ApplyStep

(* The rows of a plan request are written in order, by that request. *)
LEMMA PlanProgressStep ==
  ASSUME IInv, [Next]_vars
  PROVE  PlanProgress'
<1> SUFFICES ASSUME NEW q \in PlanReq
             PROVE  /\ pc'[q] \in {"putKey", "log"} => operations'[plan'[q]] = "planned"
                    /\ pc'[q] = "log" => idempotency'[<<"plan", key'[q]>>] # None
  BY DEF PlanProgress
<1>1. TypeOK /\ StoreTypeOK /\ PlanProgress /\ RowsStay /\ InputsArrived
  BY RowsStayStep DEF IInv, TypeOK
<1>2. q \in Requests /\ q \in Keyed /\ q \notin ApplyReq /\ q \notin DecideReq
  BY RequestsDistinct DEF Requests, Keyed
<1>3. CASE pc'[q] = pc[q] /\ pc[q] \in {"putKey", "log"}
  <2>1. /\ plan[q] \in PlanIds /\ plan'[q] = plan[q]
        /\ key'[q] = key[q] /\ <<"plan", key[q]>> \in IdemKeys
    BY <1>1, <1>2, <1>3 DEF RowsStay, InputsArrived, IdemKeys
  <2> QED BY <1>1, <1>3, <2>1 DEF PlanProgress, RowsStay
<1>4. CASE pc'[q] \notin {"putKey", "log"}
  BY <1>4
<1>5. CASE PlanPutOp(q)
  BY <1>1, <1>2, <1>5
     DEF PlanPutOp, PutOperation, Goto, inputs, TypeOK, StoreTypeOK, InputsArrived, OpIds
<1>6. CASE PlanPutKey(q)
  <2>1. <<"plan", key[q]>> \in IdemKeys /\ plan[q] \in PlanIds
    BY <1>1, <1>2, <1>6 DEF PlanPutKey, Goto, InputsArrived, IdemKeys
  <2>2. [op |-> plan[q], status |-> "planned"] # None
    BY <2>1, NoneIsNoRow DEF Snapshot, OpIds, OpStatus
  <2> QED BY <1>1, <1>2, <1>6, <2>1, <2>2
          DEF PlanPutKey, PutIdempotency, Goto, inputs, TypeOK, StoreTypeOK, PlanProgress
<1>7. CASE PlanArrive(q) \/ PlanLookup(q) \/ PlanExec(q) \/ PlanFinish(q)
  BY <1>1, <1>2, <1>7
     DEF PlanArrive, PlanLookup, PlanExec, PlanFinish, Refuse, Finish, Goto, TypeOK
<1> QED BY <1>2, <1>3, <1>4, <1>5, <1>6, <1>7, RequestsMove DEF PlanStep

(* The handler waits for the agent it launched, and launches one. *)
LEMMA RunProgressStep ==
  ASSUME IInv, [Next]_vars
  PROVE  RunProgress'
<1> SUFFICES ASSUME NEW d \in DecideReq
             PROVE  /\ pc'[d] \in {"logDecision", "reload"} => run'[d] = "none"
                    /\ pc'[d] \in {"putResult", "logResult"} => run'[d] \in AgentEnds
                    /\ pc'[d] \in {"putFailed", "logFailed"} => run'[d] = "error"
                    /\ pc'[d] = "logResult" => operations'[target'[d]] # "absent"
  BY DEF RunProgress
<1>1. TypeOK /\ StoreTypeOK /\ RunProgress /\ RowsStay /\ InputsArrived /\ DecideProgress
  BY RowsStayStep DEF IInv, TypeOK
<1>2. d \in Requests /\ d \notin PlanReq /\ d \notin ApplyReq
  BY RequestsDistinct DEF Requests, Keyed
<1>3. \/ UNCHANGED run \/ run'[d] = run[d]
      \/ ExecLaunch(d) \/ AgentRun(d)
  <2>1. ASSUME NEW e \in DecideReq, ExecLaunch(e) \/ AgentRun(e) PROVE e = d \/ run'[d] = run[d]
    BY <1>1, <2>1 DEF ExecLaunch, AgentRun, TypeOK
  <2> QED BY <2>1, WhoWrites
<1>4. CASE pc'[d] = pc[d]
  <2>1. ~ExecLaunch(d)
    BY <1>1, <1>2, <1>4 DEF ExecLaunch, Goto, TypeOK
  <2>2. run[d] = "running" => pc[d] \notin {"logDecision", "reload", "putResult", "logResult",
                                            "putFailed", "logFailed"}
    BY <1>1 DEF RunProgress, AgentEnds
  <2>3. pc[d] \in {"logDecision", "reload", "putResult", "logResult", "putFailed", "logFailed"}
          => run'[d] = run[d]
    BY <1>3, <2>1, <2>2 DEF AgentRun
  <2>4. pc[d] = "logResult" => target[d] \in ApplyReq /\ target'[d] = target[d]
    BY <1>1 DEF InputsArrived, RowsStay
  <2> QED BY <1>1, <1>4, <2>3, <2>4 DEF RunProgress, RowsStay
<1>5. CASE pc'[d] \in {"done", "lost"}
  BY <1>5
<1>6. CASE DecideArrive(d) \/ DecideRead(d)
  BY <1>1, <1>2, <1>6, DecideReadCases DEF DecideArrive, Refuse, Finish, Goto, TypeOK
<1>7. CASE DecideWrite(d)
  BY <1>1, <1>2, <1>7 DEF DecideWrite, Goto, TypeOK, DecideProgress, Undecided
<1>8. CASE DecideLog(d) \/ ExecFinish(d) \/ ExecFail(d)
  BY <1>1, <1>2, <1>8
     DEF DecideLog, ExecFinish, ExecFail, Refuse, Finish, Goto, TypeOK, RunProgress
<1>9. CASE ExecLaunch(d)
  BY <1>1, <1>2, <1>9 DEF ExecLaunch, Goto, TypeOK
<1>10. CASE ExecReturn(d)
  BY <1>1, <1>2, <1>10 DEF ExecReturn, Goto, TypeOK, AgentStates
<1>11. CASE ExecPutResult(d)
  <2>1. operations'[target'[d]] # "absent"
    BY <1>1, <1>11 DEF ExecPutResult, PutOperation, Goto, inputs, StoreTypeOK, InputsArrived,
       RunProgress, AgentEnds, OpIds
  <2> QED BY <1>1, <1>2, <1>11, <2>1
          DEF ExecPutResult, Goto, TypeOK, RunProgress
<1>12. CASE ExecPutFailed(d) \/ DbErrorIgnored(d)
  BY <1>1, <1>2, <1>12
     DEF ExecPutFailed, DbErrorIgnored, Goto, TypeOK, RunProgress
<1> QED BY <1>2, <1>4, <1>5, <1>6, <1>7, <1>8, <1>9, <1>10, <1>11, <1>12, RequestsMove
        DEF DecideStep

(* The decision is logged before anything is executed, and stays logged as  *)
(* long as its request is in flight.                                        *)
LEMMA AuditProgressStep ==
  ASSUME IInv, [Next]_vars
  PROVE  AuditProgress'
<1> SUFFICES ASSUME NEW d \in DecideReq
             PROVE  /\ pc'[d] \in Executing => <<"approval_decided", d>> \in audit'
                    /\ <<"approval_decided", d>> \in audit' => pc'[d] # "idle"
  BY DEF AuditProgress
<1>1. TypeOK /\ AuditProgress
  BY DEF IInv
<1>2. d \in Requests /\ d \notin PlanReq /\ d \notin ApplyReq
  BY RequestsDistinct DEF Requests, Keyed
<1>3. CASE Crash
  BY <1>2, <1>3 DEF Crash, InFlight, Parked, Executing
<1>4. CASE ~Crash /\ pc'[d] = pc[d]
  <2>1. audit \subseteq audit'
    BY <1>4, AuditGrows
  <2>2. <<"approval_decided", d>> \in audit' => <<"approval_decided", d>> \in audit
    <3>1. ~DecideLog(d)
      BY <1>1, <1>2, <1>4 DEF DecideLog, Finish, Goto, TypeOK
    <3> QED BY <1>4, <3>1, AuditGrows DEF PlanFinish, ApplyFinish, DecideLog, ExecFinish,
            ExecFail, LogEvent
  <2> QED BY <1>1, <1>4, <2>1, <2>2 DEF AuditProgress
<1>5. CASE ~Crash /\ pc'[d] # pc[d]
  <2>1. audit \subseteq audit' /\ pc'[d] # "idle"
    <3>1. pc'[d] # "idle"
      BY <1>1, <1>2, <1>5, RequestsMove, DecideReadCases DEF TypeOK, DecideArrive, DecideStep,
         DecideWrite, DecideLog, ExecLaunch, ExecReturn, ExecPutResult, ExecFinish,
         ExecPutFailed, ExecFail, DbErrorIgnored, Refuse, Finish, Goto
    <3> QED BY <1>5, <3>1, AuditGrows
  <2>2. CASE DecideLog(d)
    BY <2>1, <2>2 DEF DecideLog, LogEvent
  <2>3. CASE ~DecideLog(d) /\ pc'[d] \in Executing
    <3>1. pc[d] \in Executing
      BY <1>1, <1>2, <1>5, <2>3, RequestsMove, DecideReadCases DEF TypeOK, DecideArrive,
         DecideStep, DecideWrite, ExecLaunch, ExecReturn, ExecPutResult, ExecFinish,
         ExecPutFailed, ExecFail, DbErrorIgnored, Refuse, Finish, Goto, Executing
    <3> QED BY <1>1, <2>1, <3>1 DEF AuditProgress
  <2> QED BY <2>1, <2>2, <2>3
<1> QED BY <1>3, <1>4, <1>5

(* A decided approval stays decided while its execution goes on. *)
LEMMA DecideProgressStep ==
  ASSUME IInv, [Next]_vars
  PROVE  DecideProgress'
<1>0. TypeOK'
  BY TypeStep
<1> USE <1>0, RequestsDistinct, OpIdsDistinct
    DEF IInv, vars, tables, inputs, Goto, Refuse, LogEvent, Requests, Keyed, Parked,
       DecideProgress, TypeOK, StoreTypeOK, InputsArrived, ApplyProgress, Fresh, Decided,
       Executing, Undecided, ApprovalRow, ApplySteps, PlanSteps, DecideSteps
<1>1. ASSUME NEW q \in PlanReq, PlanArrive(q) \/ PlanStep(q)
      PROVE  DecideProgress'
  BY <1>1 DEF PlanStep, PlanArrive, PlanLookup, Finish, PlanExec, PlanPutOp, PutOperation,
     PlanPutKey, PutIdempotency, PlanFinish
<1>2. ASSUME NEW a \in ApplyReq, ApplyArrive(a) \/ ApplyLookup(a) \/ ApplyPutOp(a) \/ ApplyPutKey(a) \/ ApplyFinish(a)
      PROVE  DecideProgress'
  BY <1>2 DEF ApplyArrive, ApplyLookup, Finish, ApplyPutOp, PutOperation, ApplyPutKey,
     PutIdempotency, ApplyFinish
<1>3. ASSUME NEW a \in ApplyReq, ApplyCreate(a) PROVE DecideProgress'
  <2>1. plan[a] \in PlanIds /\ approvals[a] = None
    BY <1>3 DEF ApplyCreate
  <2>2. approvals' = [approvals EXCEPT ![a] = [plan |-> plan[a], status |-> "pending", by |-> None]]
    BY <1>3 DEF ApplyCreate, CreateApproval
  <2>3. approvals'[a] # None /\ approvals'[a].by = None
    BY <2>1, <2>2, NoneIsNoRow
  <2>4. \A b \in ApplyReq : b # a => approvals'[b] = approvals[b]
    BY <2>2
  <2>5. \A d \in DecideReq : d # None
    BY NoneIsNoRow
  <2> QED BY <1>3, <2>1, <2>3, <2>4, <2>5 DEF ApplyCreate, CreateApproval
<1>4. ASSUME NEW d \in DecideReq, DecideArrive(d) \/ DecideRead(d) \/ DecideLog(d)
      PROVE  DecideProgress'
  BY <1>4, DecideReadCases DEF DecideArrive, Finish, DecideLog
<1>5. ASSUME NEW d \in DecideReq, DecideWrite(d) PROVE DecideProgress'
  <2>1. target[d] \in ApplyReq /\ approvals[target[d]] # None
    BY <1>5 DEF DecideWrite, DecideProgress
  <2>2. /\ approvals'[target[d]] # None
        /\ approvals'[target[d]].by = d
        /\ approvals'[target[d]].status # "pending"
        /\ \A b \in ApplyReq : b # target[d] => approvals'[b] = approvals[b]
    BY <1>5, DecideWriteRow
  <2> QED BY <1>5, <2>1, <2>2 DEF DecideWrite, DecideUpdate
<1>6. ASSUME NEW d \in DecideReq, ExecLaunch(d) \/ AgentRun(d) \/ ExecReturn(d)
      PROVE  DecideProgress'
  BY <1>6 DEF ExecLaunch, AgentRun, ExecReturn
<1>7. ASSUME NEW d \in DecideReq, ExecPutResult(d) \/ ExecPutFailed(d) \/ DbErrorIgnored(d)
      PROVE  DecideProgress'
  BY <1>7 DEF ExecPutResult, PutOperation, ExecPutFailed, DbErrorIgnored
<1>8. ASSUME NEW d \in DecideReq, ExecFinish(d) \/ ExecFail(d)
      PROVE  DecideProgress'
  BY <1>8 DEF ExecFinish, Finish, ExecFail
<1>9. ASSUME NEW r \in Requests, DbError(r)
      PROVE  DecideProgress'
  BY <1>9 DEF DbError, Finish
<1>10. CASE Crash
  BY <1>10 DEF Crash, InFlight
<1>11. CASE UNCHANGED vars
  BY <1>11
<1> QED BY <1>1, <1>2, <1>3, <1>4, <1>5, <1>6, <1>7, <1>8, <1>9, <1>10, <1>11 DEF Next,
   PlanStep, ApplyStep, DecideStep

(* A run belongs to a committed approval: a decision that has launched its  *)
(* agent has passed DecideWrite, and the table keeps its decision.          *)
LEMMA NoRunStep ==
  ASSUME IInv, [Next]_vars
  PROVE  NoRunWithoutDecision'
<1> SUFFICES ASSUME NEW d \in DecideReq, Launched(d)'
             PROVE  verdict'[d] = "approve" /\ Decided(target[d])' /\ target'[d] = target[d]
  BY DEF NoRunWithoutDecision, Decided
<1>1. RowsStay
  BY RowsStayStep
<1>2. CASE Launched(d)
  <2>1. pc[d] # "idle" /\ verdict[d] = "approve" /\ Decided(target[d])
    BY <1>2 DEF IInv, Safety, NoRunWithoutDecision, DecideProgress, Undecided, Launched
  <2> QED BY <1>1, <2>1 DEF RowsStay, IInv, InputsArrived, Decided
<1>3. CASE ~Launched(d)
  <2>1. PICK e \in DecideReq : ExecLaunch(e) \/ AgentRun(e)
    BY <1>3, WhoWrites DEF Launched
  <2>2. e = d /\ ExecLaunch(d)
    BY <1>3, <2>1 DEF ExecLaunch, AgentRun, Launched, IInv, TypeOK
  <2>3. verdict[d] = "approve" /\ Decided(target[d]) /\ UNCHANGED <<target, verdict, approvals>>
    BY <2>2 DEF ExecLaunch, Goto, tables, inputs, IInv, DecideProgress, Executing
  <2> QED BY <2>3 DEF Decided
<1> QED BY <1>2, <1>3

(* Rows are written only after the rows they point to. *)
LEMMA WritesAreOrderedStep ==
  ASSUME IInv, [Next]_vars
  PROVE  WritesAreOrdered'
<1>1. RowsStay /\ TypeOK
  BY RowsStayStep DEF IInv
<1>2. ASSUME NEW a \in ApplyReq, operations'[a] # "absent" PROVE approvals'[a] # None
  <2>1. CASE operations[a] # "absent"
    BY <1>1, <2>1 DEF RowsStay, IInv, Safety, WritesAreOrdered
  <2>2. CASE operations[a] = "absent"
    <3>1. ASSUME NEW q \in PlanReq, PlanPutOp(q) PROVE FALSE
      BY <1>2, <2>2, <3>1, OpIdsDistinct
         DEF PlanPutOp, PutOperation, Goto, IInv, TypeOK, StoreTypeOK, InputsArrived
    <3>2. ASSUME NEW b \in ApplyReq, ApplyPutOp(b) PROVE approvals[a] # None
      BY <1>2, <2>2, <3>2
         DEF ApplyPutOp, PutOperation, Goto, OpIds, IInv, TypeOK, StoreTypeOK, ApplyProgress
    <3>3. ASSUME NEW d \in DecideReq, ExecPutResult(d) \/ ExecPutFailed(d)
          PROVE  approvals[a] # None
      BY <1>2, <2>2, <3>3
         DEF ExecPutResult, ExecPutFailed, PutOperation, Goto, OpIds, IInv, TypeOK, StoreTypeOK,
             InputsArrived, DecideProgress, Executing, Decided
    <3> QED BY <1>1, <1>2, <2>2, <3>1, <3>2, <3>3, WhoWrites DEF RowsStay
  <2> QED BY <2>1, <2>2
<1>3. ASSUME NEW k \in Keys, idempotency'[<<"apply", k>>] # None
      PROVE  LET row == idempotency'[<<"apply", k>>] IN
               row.op \in ApplyReq /\ operations'[row.op] # "absent" /\ key'[row.op] = k
  <2>1. CASE idempotency'[<<"apply", k>>] = idempotency[<<"apply", k>>]
    <3> DEFINE row == idempotency[<<"apply", k>>]
    <3>1. row.op \in ApplyReq /\ operations[row.op] # "absent" /\ key[row.op] = k
      BY <1>3, <2>1 DEF IInv, Safety, WritesAreOrdered
    <3>2. pc[row.op] # "idle"
      BY <3>1 DEF IInv, ApplyProgress, Fresh
    <3> QED BY <1>1, <2>1, <3>1, <3>2 DEF RowsStay, Keyed
  <2>2. CASE idempotency'[<<"apply", k>>] # idempotency[<<"apply", k>>]
    <3>1. ASSUME NEW q \in PlanReq, PlanPutKey(q) PROVE FALSE
      BY <2>2, <3>1 DEF PlanPutKey, PutIdempotency, IInv, TypeOK, StoreTypeOK, IdemKeys
    <3>2. PICK a \in ApplyReq : ApplyPutKey(a)
      BY <2>2, <3>1, WhoWrites
    <3>3. /\ key[a] = k
          /\ idempotency'[<<"apply", k>>] = [op |-> a, status |-> "pending_approval"]
          /\ UNCHANGED <<operations, key>>
      BY <2>2, <3>2
         DEF ApplyPutKey, PutIdempotency, inputs, IInv, TypeOK, StoreTypeOK, IdemKeys
    <3>4. operations[a] # "absent"
      BY <3>2 DEF ApplyPutKey, Goto, IInv, ApplyProgress
    <3> QED BY <3>3, <3>4
  <2> QED BY <2>1, <2>2
<1>4. ASSUME NEW k \in Keys, idempotency'[<<"plan", k>>] # None
      PROVE  LET row == idempotency'[<<"plan", k>>] IN
               row.op \in PlanIds /\ operations'[row.op] = "planned"
  <2>1. CASE idempotency'[<<"plan", k>>] = idempotency[<<"plan", k>>]
    BY <1>1, <1>4, <2>1 DEF RowsStay, IInv, Safety, WritesAreOrdered
  <2>2. CASE idempotency'[<<"plan", k>>] # idempotency[<<"plan", k>>]
    <3>1. ASSUME NEW a \in ApplyReq, ApplyPutKey(a) PROVE FALSE
      BY <2>2, <3>1 DEF ApplyPutKey, PutIdempotency, IInv, TypeOK, StoreTypeOK, IdemKeys
    <3>2. PICK q \in PlanReq : PlanPutKey(q)
      BY <2>2, <3>1, WhoWrites
    <3>3. /\ idempotency'[<<"plan", k>>] = [op |-> plan[q], status |-> "planned"]
          /\ UNCHANGED operations
      BY <2>2, <3>2
         DEF PlanPutKey, PutIdempotency, IInv, TypeOK, StoreTypeOK, IdemKeys
    <3>4. plan[q] \in PlanIds /\ operations[plan[q]] = "planned"
      BY <3>2 DEF PlanPutKey, Goto, IInv, InputsArrived, PlanProgress
    <3> QED BY <3>3, <3>4
  <2> QED BY <2>1, <2>2
<1> QED BY <1>2, <1>3, <1>4 DEF WritesAreOrdered

(* A final status is written by a decision whose agent has ended that way, *)
(* and what an agent has ended with does not change.                       *)
LEMMA StatusIsEarnedStep ==
  ASSUME IInv, [Next]_vars
  PROVE  StatusIsEarned'
<1> DEFINE Earned(d, a) == /\ target[d] = a
                           /\ run[d] = operations[a] \/ (run[d] = "error" /\ operations[a] = "failed")
<1> SUFFICES ASSUME NEW a \in ApplyReq, operations'[a] \in Final
             PROVE  \E d \in DecideReq : Earned(d, a)'
  BY DEF StatusIsEarned
<1>1. RowsStay
  BY RowsStayStep
<1>2. CASE operations'[a] = operations[a]
  <2>1. PICK d \in DecideReq : Earned(d, a)
    BY <1>2 DEF IInv, Safety, StatusIsEarned
  <2>2. run[d] \notin {"none", "running"}
    BY <1>2, <2>1 DEF Final
  <2>3. pc[d] # "idle"
    BY <2>2 DEF IInv, DecideProgress, Undecided
  <2> QED BY <1>1, <1>2, <2>1, <2>2, <2>3 DEF RowsStay
<1>3. CASE operations'[a] # operations[a]
  <2>1. ASSUME NEW q \in PlanReq, PlanPutOp(q) PROVE FALSE
    BY <1>3, <2>1, OpIdsDistinct
       DEF PlanPutOp, PutOperation, Goto, IInv, TypeOK, StoreTypeOK, InputsArrived, OpIds
  <2>2. ASSUME NEW b \in ApplyReq, ApplyPutOp(b) PROVE FALSE
    BY <1>3, <2>2 DEF ApplyPutOp, PutOperation, Final, IInv, TypeOK, StoreTypeOK, OpIds
  <2>3. PICK d \in DecideReq : ExecPutResult(d) \/ ExecPutFailed(d)
    BY <1>3, <2>1, <2>2, WhoWrites
  <2>4. UNCHANGED <<run, target>>
    BY <2>3 DEF ExecPutResult, ExecPutFailed, inputs
  <2>5. target[d] = a
    BY <1>3, <2>3 DEF ExecPutResult, ExecPutFailed, PutOperation, IInv, TypeOK, StoreTypeOK,
       OpIds
  <2>6. CASE ExecPutResult(d)
    <3>1. run[d] \in AgentEnds
      BY <2>6 DEF ExecPutResult, Goto, IInv, RunProgress
    <3>2. operations'[a] = run[d]
      BY <2>5, <2>6 DEF ExecPutResult, PutOperation, IInv, TypeOK, StoreTypeOK, OpIds
    <3> QED BY <2>4, <2>5, <3>1, <3>2
  <2>7. CASE ExecPutFailed(d)
    <3>1. run[d] = "error"
      BY <2>7 DEF ExecPutFailed, Goto, IInv, RunProgress
    <3>2. operations'[a] = "failed"
      BY <2>5, <2>7 DEF ExecPutFailed, PutOperation, IInv, TypeOK, StoreTypeOK, OpIds
    <3> QED BY <2>4, <2>5, <3>1, <3>2
  <2> QED BY <2>3, <2>6, <2>7
<1> QED BY <1>2, <1>3

(* Which steps answer a request, and with what status. *)
LEMMA WhoReplies ==
  ASSUME IInv, [Next]_vars, NEW r \in Requests, reply'[r] # reply[r]
  PROVE  /\ pc'[r] = "done"
         /\ \/ DbError(r) /\ reply'[r] = [code |-> ErrorCode(r), op |-> None]
            \/ r \in PlanReq /\ (PlanLookup(r) \/ PlanExec(r) \/ PlanFinish(r))
            \/ r \in ApplyReq /\ (ApplyLookup(r) \/ ApplyFinish(r))
            \/ r \in DecideReq /\ (DecideRead(r) \/ DecideLog(r) \/ ExecFinish(r) \/ ExecFail(r))
<1> USE DEF IInv, TypeOK, Refuse, Finish, Goto, vars, Requests, Keyed
<1>1. ASSUME NEW q \in PlanReq, PlanStep(q)
      PROVE  q = r /\ pc'[r] = "done" /\ (PlanLookup(r) \/ PlanExec(r) \/ PlanFinish(r))
  BY <1>1 DEF PlanStep, PlanLookup, PlanExec, PlanPutOp, PlanPutKey, PlanFinish
<1>2. ASSUME NEW a \in ApplyReq, ApplyStep(a)
      PROVE  a = r /\ pc'[r] = "done" /\ (ApplyLookup(r) \/ ApplyFinish(r))
  BY <1>2 DEF ApplyStep, ApplyLookup, ApplyCreate, ApplyPutOp, ApplyPutKey, ApplyFinish
<1>3. ASSUME NEW d \in DecideReq, DecideStep(d)
      PROVE  d = r /\ pc'[r] = "done"
               /\ (DecideRead(r) \/ DecideLog(r) \/ ExecFinish(r) \/ ExecFail(r))
  <2>1. CASE DecideRead(d)
    BY <2>1, DecideReadCases
  <2>2. CASE DecideLog(d) \/ ExecFinish(d) \/ ExecFail(d)
    BY <2>2 DEF DecideLog, ExecFinish, ExecFail
  <2>3. CASE DecideWrite(d) \/ ExecLaunch(d) \/ ExecReturn(d) \/ ExecPutResult(d) \/ ExecPutFailed(d)
    BY <2>3 DEF DecideWrite, ExecLaunch, ExecReturn, ExecPutResult, ExecPutFailed
  <2> QED BY <1>3, <2>1, <2>2, <2>3 DEF DecideStep
<1>4. ASSUME NEW s \in Requests, DbError(s)
      PROVE  s = r /\ pc'[r] = "done" /\ reply'[r] = [code |-> ErrorCode(r), op |-> None]
  BY <1>4 DEF DbError
<1> QED BY <1>1, <1>2, <1>3, <1>4
        DEF Next, PlanArrive, ApplyArrive, DecideArrive, AgentRun, DbErrorIgnored, Crash

(* 202 and plan's 200 are given only with the rows in place, which stay. *)
LEMMA AckedRequestStep ==
  ASSUME IInv, [Next]_vars
  PROVE  AckedRequestIsDurable'
<1>1. RowsStay /\ RepliesEnd /\ TypeOK /\ AckedRequestIsDurable /\ WritesAreOrdered
  BY RowsStayStep DEF IInv, Safety
<1>2. ASSUME NEW a \in ApplyReq, reply'[a] # None, reply'[a].code = 202
      PROVE  /\ reply'[a].op \in ApplyReq /\ approvals'[reply'[a].op] # None
             /\ operations'[reply'[a].op] # "absent"
             /\ idempotency'[<<"apply", key'[a]>>] # None
  <2>1. CASE reply'[a] = reply[a]
    <3>1. /\ reply[a].op \in ApplyReq /\ approvals[reply[a].op] # None
          /\ operations[reply[a].op] # "absent"
          /\ idempotency[<<"apply", key[a]>>] # None
      BY <1>1, <1>2, <2>1 DEF AckedRequestIsDurable
    <3>2. pc[a] # "idle" /\ <<"apply", key[a]>> \in IdemKeys /\ key'[a] = key[a]
      BY <1>1, <1>2, <2>1 DEF RepliesEnd, Requests, Keyed, RowsStay, IInv, InputsArrived,
         IdemKeys
    <3> QED BY <1>1, <2>1, <3>1, <3>2 DEF RowsStay
  <2>2. CASE reply'[a] # reply[a]
    <3>1. DbError(a) \/ ApplyLookup(a) \/ ApplyFinish(a)
      BY <2>2, WhoReplies, RequestsDistinct DEF Requests, Keyed
    <3>2. CASE DbError(a)
      BY <1>1, <1>2, <3>2 DEF DbError, Refuse, Finish, ErrorCode, TypeOK, Requests, Keyed
    <3>3. CASE ApplyLookup(a)
      <4>1. Prior("apply", a) # None /\ reply'[a].op = Prior("apply", a).op
        BY <1>1, <1>2, <2>2, <3>3 DEF ApplyLookup, Refuse, Finish, TypeOK, Requests, Keyed
      <4>2. key[a] \in Keys /\ UNCHANGED <<tables, key>>
        BY <3>3 DEF ApplyLookup, Refuse, Finish, Goto, inputs, IInv, InputsArrived, Keyed
      <4> QED BY <1>1, <4>1, <4>2 DEF WritesAreOrdered, Prior, tables
    <3>4. CASE ApplyFinish(a)
      <4>1. reply'[a].op = a /\ UNCHANGED <<tables, key>>
        BY <1>1, <3>4 DEF ApplyFinish, Finish, TypeOK, Requests, Keyed, inputs
      <4> QED BY <3>4, <4>1 DEF ApplyFinish, IInv, ApplyProgress, tables
    <3> QED BY <3>1, <3>2, <3>3, <3>4
  <2> QED BY <2>1, <2>2
<1>3. ASSUME NEW q \in PlanReq, reply'[q] # None, reply'[q].code = 200
      PROVE  /\ reply'[q].op \in PlanIds /\ operations'[reply'[q].op] = "planned"
             /\ idempotency'[<<"plan", key'[q]>>] # None
  <2>1. CASE reply'[q] = reply[q]
    <3>1. /\ reply[q].op \in PlanIds /\ operations[reply[q].op] = "planned"
          /\ idempotency[<<"plan", key[q]>>] # None
      BY <1>1, <1>3, <2>1 DEF AckedRequestIsDurable
    <3>2. pc[q] # "idle" /\ <<"plan", key[q]>> \in IdemKeys /\ key'[q] = key[q]
      BY <1>1, <1>3, <2>1 DEF RepliesEnd, Requests, Keyed, RowsStay, IInv, InputsArrived,
         IdemKeys
    <3> QED BY <1>1, <2>1, <3>1, <3>2 DEF RowsStay
  <2>2. CASE reply'[q] # reply[q]
    <3>1. DbError(q) \/ PlanLookup(q) \/ PlanExec(q) \/ PlanFinish(q)
      BY <2>2, WhoReplies, RequestsDistinct DEF Requests, Keyed
    <3>2. CASE DbError(q) \/ PlanExec(q)
      BY <1>1, <1>3, <2>2, <3>2
         DEF DbError, PlanExec, Refuse, Finish, ErrorCode, TypeOK, Requests, Keyed
    <3>3. CASE PlanLookup(q)
      <4>1. Prior("plan", q) # None /\ reply'[q].op = Prior("plan", q).op
        BY <1>1, <1>3, <2>2, <3>3 DEF PlanLookup, Refuse, Finish, TypeOK, Requests, Keyed
      <4>2. key[q] \in Keys /\ UNCHANGED <<tables, key>>
        BY <3>3 DEF PlanLookup, Refuse, Finish, Goto, inputs, IInv, InputsArrived, Keyed
      <4> QED BY <1>1, <4>1, <4>2 DEF WritesAreOrdered, Prior, tables
    <3>4. CASE PlanFinish(q)
      <4>1. reply'[q].op = plan[q] /\ UNCHANGED <<tables, key>>
        BY <1>1, <3>4 DEF PlanFinish, Finish, TypeOK, Requests, Keyed, inputs
      <4> QED BY <3>4, <4>1 DEF PlanFinish, IInv, PlanProgress, InputsArrived, tables
    <3> QED BY <3>1, <3>2, <3>3, <3>4
  <2> QED BY <2>1, <2>2
<1> QED BY <1>2, <1>3 DEF AckedRequestIsDurable

(* 400 and 404 are given only before the UPDATE of the decision. *)
LEMMA RefusedDecisionStep ==
  ASSUME IInv, [Next]_vars
  PROVE  RefusedDecisionHasNoEffect'
<1> SUFFICES ASSUME NEW d \in DecideReq, reply'[d] # None, reply'[d].code \in {400, 404}
             PROVE  run'[d] = "none" /\ \A a \in ApplyReq : approvals'[a] # None => approvals'[a].by # d
  BY DEF RefusedDecisionHasNoEffect, Launched
<1>1. TypeOK /\ RepliesEnd /\ RefusedDecisionHasNoEffect /\ DecideProgress /\ RunProgress
  BY DEF IInv, Safety
<1>2. CASE reply'[d] = reply[d]
  <2>1. /\ pc[d] = "done" /\ run[d] = "none"
        /\ \A a \in ApplyReq : approvals[a] # None => approvals[a].by # d
    BY <1>1, <1>2 DEF RepliesEnd, RefusedDecisionHasNoEffect, Launched, Requests
  <2>2. run'[d] = "none"
    <3>1. ASSUME NEW e \in DecideReq, ExecLaunch(e) \/ AgentRun(e) PROVE run'[d] = "none"
      BY <1>1, <2>1, <3>1 DEF ExecLaunch, AgentRun, Goto, TypeOK
    <3> QED BY <2>1, <3>1, WhoWrites
  <2>3. ASSUME NEW a \in ApplyReq, approvals'[a] # None PROVE approvals'[a].by # d
    <3>1. ASSUME NEW b \in ApplyReq, ApplyCreate(b) PROVE approvals'[a].by # d
      <4>1. approvals'[b].by = None /\ (a # b => approvals'[a] = approvals[a])
        BY <1>1, <3>1 DEF ApplyCreate, CreateApproval, TypeOK, StoreTypeOK
      <4> QED BY <2>1, <2>3, <4>1, NoneIsNoRow
    <3>2. ASSUME NEW e \in DecideReq, DecideWrite(e) PROVE approvals'[a].by # d
      <4>1. e # d
        BY <2>1, <3>2 DEF DecideWrite, Goto
      <4> QED BY <2>1, <2>3, <3>2, <4>1, DecideWriteRow
    <3> QED BY <2>1, <2>3, <3>1, <3>2, WhoWrites
  <2> QED BY <2>2, <2>3
<1>3. CASE reply'[d] # reply[d]
  <2>1. \/ DbError(d) /\ reply'[d] = [code |-> ErrorCode(d), op |-> None]
        \/ DecideRead(d) \/ DecideLog(d) \/ ExecFinish(d) \/ ExecFail(d)
    <3> d \in Requests /\ d \notin PlanReq /\ d \notin ApplyReq
      BY RequestsDistinct DEF Requests, Keyed
    <3> QED BY <1>3, WhoReplies
  <2>2. CASE DecideRead(d)
    BY <1>1, <2>2, DecideReadCases DEF DecideProgress, Undecided, tables
  <2>3. CASE DbError(d) /\ reply'[d] = [code |-> ErrorCode(d), op |-> None]
    <3>1. pc[d] \in {"check", "update"} /\ UNCHANGED <<tables, run>>
      BY <2>3 DEF DbError, ErrorCode
    <3> QED BY <1>1, <3>1 DEF DecideProgress, Undecided, tables
  <2>4. CASE DecideLog(d) \/ ExecFinish(d) \/ ExecFail(d)
    BY <1>1, <1>3, <2>4 DEF DecideLog, ExecFinish, ExecFail, Refuse, Finish, TypeOK, Requests
  <2> QED BY <2>1, <2>2, <2>3, <2>4
<1> QED BY <1>2, <1>3

(* 200 is given to `approve` only at the end of a run that was stored. *)
LEMMA AckedApprovalStep ==
  ASSUME IInv, [Next]_vars
  PROVE  AckedApprovalHasRun'
<1> SUFFICES ASSUME NEW d \in DecideReq, reply'[d] # None, reply'[d].code = 200, verdict'[d] = "approve"
             PROVE  run'[d] \in AgentEnds /\ operations'[target'[d]] # "absent"
  BY DEF AckedApprovalHasRun
<1>1. TypeOK /\ InputsArrived /\ RepliesEnd /\ AckedApprovalHasRun /\ RowsStay
  BY RowsStayStep DEF IInv, Safety
<1>2. CASE reply'[d] = reply[d]
  <2>1. pc[d] # "idle"
    BY <1>1, <1>2 DEF RepliesEnd, Requests
  <2>2. run[d] \in AgentEnds /\ operations[target[d]] # "absent"
    BY <1>1, <1>2, <2>1 DEF AckedApprovalHasRun, RowsStay
  <2> QED BY <1>1, <2>1, <2>2 DEF RowsStay, AgentEnds, InputsArrived
<1>3. CASE reply'[d] # reply[d]
  <2>1. DbError(d) \/ DecideRead(d) \/ DecideLog(d) \/ ExecFinish(d) \/ ExecFail(d)
    BY <1>3, WhoReplies, RequestsDistinct DEF Requests, Keyed
  <2>2. CASE DbError(d)
    BY <1>1, <2>2 DEF DbError, ErrorCode, Refuse, Finish, TypeOK, Requests
  <2>3. CASE DecideRead(d)
    BY <1>1, <1>3, <2>3, DecideReadCases DEF Refuse, Finish, TypeOK, Requests
  <2>4. CASE DecideLog(d) \/ ExecFail(d)
    BY <1>1, <1>3, <2>4 DEF DecideLog, ExecFail, Refuse, Finish, TypeOK, Requests, inputs
  <2>5. CASE ExecFinish(d)
    BY <2>5 DEF ExecFinish, IInv, RunProgress, tables, inputs
  <2> QED BY <2>1, <2>2, <2>3, <2>4, <2>5
<1> QED BY <1>2, <1>3

(* The index grows until a crash empties it, and the decision comes first. *)
LEMMA AuditStep ==
  ASSUME IInv, [Next]_vars
  PROVE  AuditTellsTheDecision'
<1> USE DEF IInv, Safety
<1>1. CASE Crash
  BY <1>1, BoundsAssumption DEF Crash, AuditTellsTheDecision, TypeOK
<1>2. CASE ~Crash
  <2>1. \/ UNCHANGED audit
        \/ \E q \in PlanReq : PlanFinish(q)
        \/ \E a \in ApplyReq : ApplyFinish(a)
        \/ \E d \in DecideReq : DecideLog(d) \/ ExecFinish(d) \/ ExecFail(d)
    BY <1>2, AuditGrows
  <2>2. audit \subseteq audit' /\ crashes' = crashes
    BY <1>2, AuditGrows
  <2>3. ASSUME NEW d \in DecideReq,
               <<"apply_completed", d>> \in audit' \/ <<"apply_failed", d>> \in audit'
        PROVE  <<"approval_decided", d>> \in audit'
    <3>1. CASE <<"apply_completed", d>> \in audit \/ <<"apply_failed", d>> \in audit
      BY <2>2, <3>1 DEF AuditTellsTheDecision
    <3>2. CASE ~(<<"apply_completed", d>> \in audit \/ <<"apply_failed", d>> \in audit)
      <4>1. ExecFinish(d) \/ ExecFail(d)
        BY <2>1, <2>3, <3>2 DEF PlanFinish, ApplyFinish, DecideLog, ExecFinish, ExecFail,
           LogEvent
      <4>2. <<"approval_decided", d>> \in audit
        BY <4>1 DEF ExecFinish, ExecFail, AuditProgress, Executing
      <4> QED BY <2>2, <4>2
    <3> QED BY <3>1, <3>2
  <2>4. ASSUME NEW a \in ApplyReq, crashes' = 0, operations'[a] \in Final
        PROVE  \E d \in DecideReq : target'[d] = a /\ <<"approval_decided", d>> \in audit'
    <3>1. CASE operations'[a] = operations[a]
      <4>1. PICK d \in DecideReq : target[d] = a /\ <<"approval_decided", d>> \in audit
        BY <2>2, <2>4, <3>1 DEF AuditTellsTheDecision
      <4>2. pc[d] # "idle"
        BY <4>1 DEF AuditProgress
      <4> QED BY <2>2, <4>1, <4>2, RowsStayStep DEF RowsStay
    <3>2. CASE operations'[a] # operations[a]
      <4>1. ASSUME NEW q \in PlanReq, PlanPutOp(q) PROVE FALSE
        BY <3>2, <4>1, OpIdsDistinct
           DEF PlanPutOp, PutOperation, Goto, TypeOK, StoreTypeOK, InputsArrived, OpIds
      <4>2. ASSUME NEW b \in ApplyReq, ApplyPutOp(b) PROVE FALSE
        BY <2>4, <3>2, <4>2 DEF ApplyPutOp, PutOperation, Final, TypeOK, StoreTypeOK, OpIds
      <4>3. PICK d \in DecideReq : ExecPutResult(d) \/ ExecPutFailed(d)
        BY <3>2, <4>1, <4>2, WhoWrites
      <4>4. target'[d] = a
        BY <3>2, <4>3
           DEF ExecPutResult, ExecPutFailed, PutOperation, TypeOK, StoreTypeOK, OpIds, inputs
      <4>5. <<"approval_decided", d>> \in audit
        BY <4>3 DEF ExecPutResult, ExecPutFailed, Goto, AuditProgress, Executing
      <4> QED BY <2>2, <4>4, <4>5
    <3> QED BY <3>1, <3>2
  <2> QED BY <2>3, <2>4 DEF AuditTellsTheDecision
<1> QED BY <1>1, <1>2

(* A final status is written only by the two writes of an execution, but for *)
(* the apply handler's own first write, during which it is in flight.        *)
LEMMA FinalStaysStep ==
  ASSUME IInv, [Next]_vars, NEW a \in ApplyReq, operations[a] \in Final, ~InFlight(a)
  PROVE  operations'[a] \in Final
<1> USE DEF IInv, TypeOK, StoreTypeOK, OpIds, Goto, PutOperation
<1>1. ASSUME NEW q \in PlanReq, PlanPutOp(q) PROVE operations'[a] \in Final
  BY <1>1, OpIdsDistinct DEF PlanPutOp, InputsArrived
<1>2. ASSUME NEW b \in ApplyReq, ApplyPutOp(b) PROVE operations'[a] \in Final
  BY <1>2 DEF ApplyPutOp, InFlight, Parked
<1>3. ASSUME NEW d \in DecideReq, ExecPutResult(d) \/ ExecPutFailed(d)
      PROVE  operations'[a] \in Final
  BY <1>3 DEF ExecPutResult, ExecPutFailed, RunProgress, AgentEnds, Final
<1> QED BY <1>1, <1>2, <1>3, WhoWrites
-----------------------------------------------------------------------------
(* The theorems about every behaviour. *)
LEMMA InitIInv == Init => IInv
<1> SUFFICES ASSUME Init PROVE IInv
  OBVIOUS
<1> USE RequestsDistinct, BoundsAssumption DEF Init, StoreInit
<1>1. TypeOK
  BY DEF TypeOK, StoreTypeOK, PCs, Parked, AgentStates, Requests, Keyed
<1>2. InputsArrived /\ ApplyProgress /\ PlanProgress /\ DecideProgress
  BY DEF InputsArrived, ApplyProgress, PlanProgress, DecideProgress, Fresh, Undecided,
     Executing, Requests, Keyed, OpIds
<1>3. RunProgress /\ AuditProgress /\ RepliesEnd
  BY DEF RunProgress, AuditProgress, RepliesEnd, Executing, Requests, Keyed
<1>4. NoRunWithoutDecision /\ RefusedDecisionHasNoEffect /\ AckedApprovalHasRun
  BY DEF NoRunWithoutDecision, RefusedDecisionHasNoEffect, AckedApprovalHasRun, Launched,
     Requests, Keyed
<1>5. WritesAreOrdered /\ AckedRequestIsDurable
  BY DEF WritesAreOrdered, AckedRequestIsDurable, OpIds, IdemKeys, Requests, Keyed
<1>6. StatusIsEarned /\ AuditTellsTheDecision
  BY DEF StatusIsEarned, AuditTellsTheDecision, Final, OpIds
<1> QED BY <1>1, <1>2, <1>3, <1>4, <1>5, <1>6 DEF IInv, Safety

LEMMA NextIInv == IInv /\ [Next]_vars => IInv'
<1> SUFFICES ASSUME IInv, [Next]_vars PROVE IInv'
  OBVIOUS
<1>1. TypeOK' /\ InputsArrived' /\ ApplyProgress' /\ PlanProgress' /\ DecideProgress'
  BY TypeStep, InputsStep, ApplyProgressStep, PlanProgressStep, DecideProgressStep
<1>2. RunProgress' /\ AuditProgress' /\ RepliesEnd'
  BY RunProgressStep, AuditProgressStep, RepliesStep
<1>3. /\ NoRunWithoutDecision' /\ WritesAreOrdered' /\ StatusIsEarned' /\ AckedRequestIsDurable'
      /\ RefusedDecisionHasNoEffect' /\ AckedApprovalHasRun' /\ AuditTellsTheDecision'
  BY NoRunStep, WritesAreOrderedStep, StatusIsEarnedStep, AckedRequestStep,
     RefusedDecisionStep, AckedApprovalStep, AuditStep
<1> QED BY <1>1, <1>2, <1>3 DEF IInv, Safety

(* The inductive invariant holds. *)
THEOREM Invariance == Spec => []IInv
  BY InitIInv, NextIInv, PTL DEF Spec

(* Every variable keeps its type. *)
THEOREM TypeCorrect == Spec => []TypeOK
<1>1. IInv => TypeOK
  BY DEF IInv
<1> QED BY <1>1, Invariance, PTL

(* Approval gating: no agent without an accepted `approve` on an approval. *)
THEOREM ApprovalGating == Spec => []NoRunWithoutDecision
<1>1. IInv => NoRunWithoutDecision
  BY DEF IInv, Safety
<1> QED BY <1>1, Invariance, PTL

(* A failure half-way through a handler leaves no dangling reference. *)
THEOREM NoDanglingRows == Spec => []WritesAreOrdered
<1>1. IInv => WritesAreOrdered
  BY DEF IInv, Safety
<1> QED BY <1>1, Invariance, PTL

(* A reported result is one an agent ended with. *)
THEOREM HonestStatus == Spec => []StatusIsEarned
<1>1. IInv => StatusIsEarned
  BY DEF IInv, Safety
<1> QED BY <1>1, Invariance, PTL

(* ResultsAreGated: a final status goes back to a committed decision. *)
THEOREM GatedResults == Spec => []ResultsAreGated
BY ApprovalGating, HonestStatus, PTL DEF ResultsAreGated

(* What was acknowledged is in the tables, after any failure and crash. *)
THEOREM Durability == Spec => []AckedRequestIsDurable
<1>1. IInv => AckedRequestIsDurable
  BY DEF IInv, Safety
<1> QED BY <1>1, Invariance, PTL

(* What the approver is told: 400 and 404 mean no effect, 200 a stored run. *)
THEOREM HonestAnswers == Spec => []DecisionIsAnsweredTruly
<1>1. IInv => DecisionIsAnsweredTruly
  BY DEF IInv, Safety, DecisionIsAnsweredTruly
<1> QED BY <1>1, Invariance, PTL

(* The audit index holds the decision behind every run it reports. *)
THEOREM AuditOrder == Spec => []AuditTellsTheDecision
<1>1. IInv => AuditTellsTheDecision
  BY DEF IInv, Safety
<1> QED BY <1>1, Invariance, PTL

(* A decision is never taken back. *)
THEOREM DecisionsAreFinal == Spec => DecisionStays
<1>1. IInv /\ [Next]_vars =>
        [\A a \in ApplyReq :
           approvals[a] # None =>
             /\ approvals'[a] # None /\ approvals'[a].plan = approvals[a].plan
             /\ Decided(a) => Decided(a)']_vars
  BY RowsStayStep DEF RowsStay
<1> QED BY <1>1, Invariance, PTL DEF Spec, DecisionStays

(* A final status stays final once the apply request has been answered. *)
THEOREM ResultsAreFinal == Spec => FinalStays
<1>1. IInv /\ [Next]_vars =>
        [\A a \in ApplyReq :
           operations[a] \in Final /\ ~InFlight(a) => operations'[a] \in Final]_vars
  BY FinalStaysStep
<1> QED BY <1>1, Invariance, PTL DEF Spec, FinalStays

(* OutcomesStay: both of the above. *)
THEOREM OutcomesAreFinal == Spec => OutcomesStay
BY DecisionsAreFinal, ResultsAreFinal DEF OutcomesStay
-----------------------------------------------------------------------------
(* Approvers who decide after the apply request has been answered, or its     *)
(* process has crashed. *)
AnsweredFirst == \A d \in DecideReq : pc[d] # "idle" => ~InFlight(target[d])

(* From the write of the result on, the status is final. *)
OutcomeWritten ==
  \A d \in DecideReq :
    pc[d] = "logResult" \/ (reply[d] # None /\ reply[d].code = 200 /\ verdict[d] = "approve")
      => operations[target[d]] \in Final

LEMMA OutcomeStep ==
  ASSUME IInv, AnsweredFirst, OutcomeWritten, [Next]_vars
  PROVE  OutcomeWritten'
<1> DEFINE Shown(d) ==
      pc[d] = "logResult" \/ (reply[d] # None /\ reply[d].code = 200 /\ verdict[d] = "approve")
<1> SUFFICES ASSUME NEW d \in DecideReq, Shown(d)' PROVE operations'[target'[d]] \in Final
  BY DEF OutcomeWritten
<1>1. TypeOK /\ InputsArrived /\ RepliesEnd /\ RowsStay
  BY RowsStayStep DEF IInv
<1>2. d \in Requests /\ d \notin PlanReq /\ d \notin ApplyReq
  BY RequestsDistinct DEF Requests, Keyed
<1>3. CASE ExecPutResult(d)
  <2>1. target[d] \in ApplyReq /\ run[d] \in AgentEnds /\ target' = target
    BY <1>1, <1>3 DEF ExecPutResult, Goto, IInv, InputsArrived, RunProgress, inputs
  <2>2. operations'[target[d]] = run[d]
    BY <1>1, <1>3, <2>1 DEF ExecPutResult, PutOperation, TypeOK, StoreTypeOK, OpIds
  <2> QED BY <2>1, <2>2 DEF AgentEnds, Final
<1>4. CASE ~ExecPutResult(d)
  <2>1. pc[d] # "idle" /\ Shown(d)
    <3>1. CASE pc'[d] = "logResult"
      <4>1. pc[d] = "logResult"
        <5>1. CASE pc'[d] # pc[d]
          <6>1. DecideArrive(d) \/ DecideStep(d) \/ DbErrorIgnored(d)
            BY <1>2, <3>1, <5>1, RequestsMove
          <6>2. CASE DecideRead(d)
            BY <1>1, <1>2, <3>1, <6>2, DecideReadCases DEF Refuse, Finish, Goto, TypeOK
          <6>3. CASE ~DecideRead(d)
            BY <1>1, <1>2, <1>4, <3>1, <6>1, <6>3
               DEF DecideArrive, DecideStep, DbErrorIgnored, DecideWrite, DecideLog, ExecLaunch, ExecReturn,
                   ExecFinish, ExecPutFailed, ExecFail, Refuse, Finish, Goto, TypeOK
          <6> QED BY <6>2, <6>3
        <5> QED BY <3>1, <5>1
      <4> QED BY <4>1
    <3>2. CASE reply'[d] # None /\ reply'[d].code = 200 /\ verdict'[d] = "approve"
      <4>1. CASE reply'[d] = reply[d]
        <5>1. pc[d] # "idle"
          BY <1>1, <1>2, <3>2, <4>1 DEF RepliesEnd
        <5> QED BY <1>1, <3>2, <4>1, <5>1 DEF RowsStay
      <4>2. CASE reply'[d] # reply[d]
        <5>1. DbError(d) \/ DecideRead(d) \/ DecideLog(d) \/ ExecFinish(d) \/ ExecFail(d)
          BY <1>2, <4>2, WhoReplies
        <5>2. CASE DbError(d)
          BY <1>1, <1>2, <3>2, <5>2 DEF DbError, ErrorCode, Refuse, Finish, TypeOK
        <5>3. CASE DecideRead(d)
          BY <1>1, <1>2, <3>2, <4>2, <5>3, DecideReadCases DEF Refuse, Finish, TypeOK
        <5>4. CASE DecideLog(d) \/ ExecFail(d)
          BY <1>1, <1>2, <3>2, <4>2, <5>4 DEF DecideLog, ExecFail, Refuse, Finish, TypeOK, inputs
        <5>5. CASE ExecFinish(d)
          BY <5>5 DEF ExecFinish
        <5> QED BY <5>1, <5>2, <5>3, <5>4, <5>5
      <4> QED BY <4>1, <4>2
    <3> QED BY <3>1, <3>2
  <2>2. target[d] \in ApplyReq /\ target'[d] = target[d] /\ ~InFlight(target[d])
    BY <1>1, <2>1 DEF InputsArrived, RowsStay, AnsweredFirst
  <2>3. operations[target[d]] \in Final
    BY <2>1 DEF OutcomeWritten
  <2> QED BY <2>2, <2>3, FinalStaysStep
<1> QED BY <1>3, <1>4

(* "After approval, call get_operation_status and report final status"        *)
(* (agent_instructions.md:13) is right for approvers who wait for the answer  *)
(* to the apply request: whoever is told 200 finds a final status.  The run   *)
(* gateway_outcome shows that it takes a decision before that answer.         *)
THEOREM OutcomesAreShown == Spec /\ []AnsweredFirst => []ApprovalOutcomeShown
<1>1. Init => OutcomeWritten
  BY DEF Init, OutcomeWritten, Requests
<1>2. IInv /\ AnsweredFirst /\ OutcomeWritten /\ [Next]_vars => OutcomeWritten'
  BY OutcomeStep
<1>3. OutcomeWritten => ApprovalOutcomeShown
  BY DEF OutcomeWritten, ApprovalOutcomeShown
<1> QED BY <1>1, <1>2, <1>3, Invariance, PTL DEF Spec

-----------------------------------------------------------------------------
(* What ApprovedIsExecuted rests on: while no call fails and nothing         *)
(* crashes, an approved apply is in the hands of the request that approved   *)
(* it last, which has yet to launch the agent, or has launched it.           *)
InHand(a, d) ==
  /\ target[d] = a /\ verdict[d] = "approve"
  /\ pc[d] \in {"logDecision", "reload"} \/ run[d] # "none"

ApprovedInHand ==
  \A a \in ApplyReq :
    approvals[a] # None /\ approvals[a].status = "approved" /\ faults = 0 /\ crashes = 0 =>
      \E d \in DecideReq : approvals[a].by = d /\ InHand(a, d)

LEMMA InHandStays ==
  ASSUME IInv, [Next]_vars, faults' = 0, crashes' = 0,
         NEW a \in ApplyReq, NEW d \in DecideReq, InHand(a, d)
  PROVE  InHand(a, d)'
<1>1. TypeOK /\ RunProgress /\ RowsStay /\ InputsArrived /\ DecideProgress
  BY RowsStayStep DEF IInv
<1>2. d \in Requests /\ d \notin PlanReq /\ d \notin ApplyReq
  BY RequestsDistinct DEF Requests, Keyed
<1>3. pc[d] # "idle"
  BY <1>1 DEF InHand, DecideProgress, Undecided
<1>4. target'[d] = a /\ verdict'[d] = "approve"
  BY <1>1, <1>3 DEF RowsStay, InHand
<1>5. run[d] # "none" => run'[d] # "none"
  <2>1. ASSUME NEW e \in DecideReq, ExecLaunch(e) \/ AgentRun(e), run[d] # "none" PROVE run'[d] # "none"
    BY <1>1, <2>1 DEF ExecLaunch, AgentRun, TypeOK, AgentEnds
  <2> QED BY <2>1, WhoWrites
<1>6. pc[d] \in {"logDecision", "reload"} => pc'[d] \in {"logDecision", "reload"} \/ run'[d] # "none"
  <2> SUFFICES ASSUME pc[d] \in {"logDecision", "reload"}, pc'[d] # pc[d]
               PROVE  pc'[d] = "reload" \/ run'[d] # "none"
    OBVIOUS
  <2>1. faults \in Nat /\ crashes \in Nat
    BY <1>1, BoundsAssumption DEF TypeOK
  <2>2. ~DbError(d) /\ ~DbErrorIgnored(d) /\ ~Crash
    BY <2>1 DEF DbError, DbErrorIgnored, Crash
  <2>3. DecideArrive(d) \/ DecideStep(d)
    BY <1>2, <2>2, RequestsMove
  <2>4. DecideLog(d) \/ ExecLaunch(d)
    BY <2>3, DecideReadCases DEF DecideStep, DecideArrive, DecideWrite, ExecReturn, ExecPutResult, ExecFinish,
       ExecPutFailed, ExecFail, Goto
  <2>5. CASE DecideLog(d)
    BY <1>1, <1>2, <2>5 DEF DecideLog, InHand, Goto, TypeOK
  <2>6. CASE ExecLaunch(d)
    BY <1>1, <2>6 DEF ExecLaunch, TypeOK
  <2> QED BY <2>4, <2>5, <2>6
<1> QED BY <1>4, <1>5, <1>6 DEF InHand

LEMMA ApprovedInHandStep == IInv /\ ApprovedInHand /\ [Next]_vars => ApprovedInHand'
<1> SUFFICES ASSUME IInv, ApprovedInHand, [Next]_vars,
                    NEW a \in ApplyReq, approvals'[a] # None, approvals'[a].status = "approved",
                    faults' = 0, crashes' = 0
             PROVE  \E d \in DecideReq : approvals'[a].by = d /\ InHand(a, d)'
  BY DEF ApprovedInHand
<1>0. TypeOK /\ StoreTypeOK /\ InputsArrived /\ DecideProgress
  BY DEF IInv, TypeOK
<1>1. faults = 0 /\ crashes = 0
  <2>1. faults \in Nat /\ crashes \in Nat
    BY <1>0, BoundsAssumption DEF TypeOK
  <2>2. faults' = faults \/ faults' = faults + 1
    BY DEF Next, vars, PlanArrive, PlanStep, PlanLookup, PlanExec, PlanPutOp, PlanPutKey, PlanFinish,
       ApplyArrive, ApplyStep, ApplyLookup, ApplyCreate, ApplyPutOp, ApplyPutKey, ApplyFinish,
       DecideArrive, DecideStep, DecideRead, DecideWrite, DecideLog, ExecLaunch, ExecReturn, ExecPutResult,
       ExecFinish, ExecPutFailed, ExecFail, AgentRun, DbErrorIgnored, DbError, Crash
  <2>3. crashes' = crashes \/ crashes' = crashes + 1
    BY AuditGrows DEF Crash
  <2> QED BY <2>1, <2>2, <2>3
<1>2. CASE approvals'[a] = approvals[a]
  <2>1. PICK d \in DecideReq : approvals[a].by = d /\ InHand(a, d)
    BY <1>1, <1>2 DEF ApprovedInHand
  <2>2. InHand(a, d)'
    BY <2>1, InHandStays
  <2> QED BY <1>2, <2>1, <2>2
<1>3. ASSUME NEW b \in ApplyReq, ApplyCreate(b) PROVE approvals'[a] = approvals[a]
  <2>1. approvals' = [approvals EXCEPT ![b] = [plan |-> plan[b], status |-> "pending", by |-> None]]
    BY <1>3 DEF ApplyCreate, CreateApproval
  <2>2. a # b
    BY <1>0, <2>1 DEF StoreTypeOK
  <2> QED BY <1>0, <2>1, <2>2 DEF StoreTypeOK
<1>4. ASSUME NEW d \in DecideReq, DecideWrite(d), approvals'[a] # approvals[a]
      PROVE  \E e \in DecideReq : approvals'[a].by = e /\ InHand(a, e)'
  <2>1. /\ target[d] = a /\ approvals'[a].by = d
        /\ approvals'[a].status = IF verdict[d] = "approve" THEN "approved" ELSE "rejected"
    BY <1>4, DecideWriteRow
  <2>2. verdict[d] = "approve"
    BY <2>1
  <2>3. UNCHANGED <<target, verdict>> /\ pc'[d] = "logDecision"
    <3>1. d \in Requests
      BY DEF Requests
    <3> QED BY <1>0, <1>4, <3>1 DEF DecideWrite, inputs, Goto, TypeOK
  <2>4. InHand(a, d)'
    BY <2>1, <2>2, <2>3 DEF InHand
  <2> QED BY <2>1, <2>4
<1> QED BY <1>2, <1>3, <1>4, WhoWrites

(* No approved apply is forgotten: as long as nothing fails or crashes, the   *)
(* request that approved it is about to launch the agent, or has done so      *)
(* (handleApprovalDecision between DecideApproval and executeApprovedApply).  *)
THEOREM ApprovalsAreInHand == Spec => []ApprovedInHand
<1>1. Init => ApprovedInHand
  BY DEF Init, ApprovedInHand, StoreInit
<1> QED BY <1>1, ApprovedInHandStep, Invariance, PTL DEF Spec
=============================================================================
