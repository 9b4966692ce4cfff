---------------------------- MODULE GatewayProps ----------------------------
(***************************************************************************)
(* What the gateway of Gateway.tla guarantees, and what it does not.        *)
(***************************************************************************)
EXTENDS Gateway

Final == {"succeeded", "failed", "precondition_failed"}
Decided(a) == approvals[a] # None /\ approvals[a].status # "pending"
Launched(d) == run[d] # "none"
-----------------------------------------------------------------------------
(* Properties of every behaviour: any interleaving, failing database calls, *)
(* crashes.                                                                 *)

(* The agent is launched only for an approval that exists, by a decision    *)
(* `approve` on it, after some decision has been committed: approval gating *)
(* of apply (executeApprovedApply does not look at the status itself).      *)
NoRunWithoutDecision ==
  \A d \in DecideReq : Launched(d) => verdict[d] = "approve" /\ Decided(target[d])

(* A row is written only after the rows it points to: an operation of an    *)
(* apply request has its approval, an idempotency row has its operation and *)
(* was written by a request with that key.  A handler that dies or fails    *)
(* half-way leaves a prefix, never a dangling reference.                    *)
WritesAreOrdered ==
  /\ \A a \in ApplyReq : operations[a] # "absent" => approvals[a] # None
  /\ \A k \in Keys :
       LET row == idempotency[<<"apply", k>>] IN
       row # None => row.op \in ApplyReq /\ operations[row.op] # "absent" /\ key[row.op] = k
  /\ \A k \in Keys :
       LET row == idempotency[<<"plan", k>>] IN
       row # None => row.op \in PlanIds /\ operations[row.op] = "planned"

(* An operation is reported with an agent's result only if an agent run for *)
(* its approval ended that way.                                             *)
StatusIsEarned ==
  \A a \in ApplyReq :
    operations[a] \in Final =>
      \E d \in DecideReq :
        /\ target[d] = a
        /\ run[d] = operations[a] \/ (run[d] = "error" /\ operations[a] = "failed")

(* What an operation reports goes back to a decision: a final status is that *)
(* of a run, and a run follows a committed decision.                         *)
ResultsAreGated == NoRunWithoutDecision /\ StatusIsEarned

(* 200 and 202 are durable promises: the operation the client was given, its *)
(* approval and the key's row survive every later failure and crash.         *)
AckedRequestIsDurable ==
  /\ \A a \in ApplyReq :
       reply[a] # None /\ reply[a].code = 202 =>
         /\ reply[a].op \in ApplyReq /\ approvals[reply[a].op] # None
         /\ operations[reply[a].op] # "absent"
         /\ idempotency[<<"apply", key[a]>>] # None
  /\ \A q \in PlanReq :
       reply[q] # None /\ reply[q].code = 200 =>
         /\ reply[q].op \in PlanIds /\ operations[reply[q].op] = "planned"
         /\ idempotency[<<"plan", key[q]>>] # None

(* An approver who is told 400 or 404 has caused nothing: no agent, and the *)
(* approval carries nothing of that decision.                               *)
RefusedDecisionHasNoEffect ==
  \A d \in DecideReq :
    reply[d] # None /\ reply[d].code \in {400, 404} =>
      ~Launched(d) /\ \A a \in ApplyReq : approvals[a] # None => approvals[a].by # d

(* An approver who is told 200 after approving has a finished run whose     *)
(* result was stored as the operation's status.                             *)
AckedApprovalHasRun ==
  \A d \in DecideReq :
    reply[d] # None /\ reply[d].code = 200 /\ verdict[d] = "approve" =>
      run[d] \in AgentEnds /\ operations[target[d]] # "absent"

(* What an approver is told is true, whatever failed on the way. *)
DecisionIsAnsweredTruly == RefusedDecisionHasNoEffect /\ AckedApprovalHasRun

(* The audit index tells the story in order: a run is reported only after   *)
(* the decision it follows, and until a crash empties the index every final *)
(* status has its decision in it.                                           *)
AuditTellsTheDecision ==
  /\ \A d \in DecideReq :
       <<"apply_completed", d>> \in audit \/ <<"apply_failed", d>> \in audit =>
         <<"approval_decided", d>> \in audit
  /\ crashes = 0 =>
       \A a \in ApplyReq : operations[a] \in Final =>
         \E d \in DecideReq : target[d] = a /\ <<"approval_decided", d>> \in audit

(* Once the apply handler has ended, a final status is never replaced by a  *)
(* status that is not final (while it runs, it can be: ApprovalOutcomeShown)*)
FinalStays ==
  [][\A a \in ApplyReq :
       operations[a] \in Final /\ ~InFlight(a) => operations'[a] \in Final]_vars

(* A decided approval never goes back to pending, and its plan never changes. *)
DecisionStays ==
  [][\A a \in ApplyReq :
       approvals[a] # None =>
         /\ approvals'[a] # None /\ approvals'[a].plan = approvals[a].plan
         /\ Decided(a) => Decided(a)']_vars

(* What was decided and what came of it are not taken back. *)
OutcomesStay == DecisionStays /\ FinalStays
-----------------------------------------------------------------------------
(* Liveness, under Fairness. *)

(* Every request is answered unless the process crashes under it. *)
EveryRequestAnswered ==
  \A r \in Requests : InFlight(r) ~> pc[r] \in {"done", "lost"}

(* An approved apply is executed, unless a call fails or the process crashes *)
(* on the way: nothing ever picks up an approval whose decision was committed *)
(* and whose agent was not launched.                                          *)
ApprovedIsExecuted ==
  \A a \in ApplyReq :
    approvals[a] # None /\ approvals[a].status = "approved"
      ~> \/ faults > 0 \/ crashes > 0
         \/ \E d \in DecideReq : target[d] = a /\ run[d] \notin {"none", "running"}
-----------------------------------------------------------------------------
(* Clients that do not race: two decisions on one approval, or two requests *)
(* with one key, are never in flight together.  Such an environment is an   *)
(* assumption; the code does not enforce it.                                *)
OneDeciderAtATime ==
  \A d, e \in DecideReq : d # e /\ InFlight(d) /\ InFlight(e) => target[d] # target[e]
OneRequestPerKey ==
  \A a, b \in ApplyReq : a # b /\ InFlight(a) /\ InFlight(b) => key[a] # key[b]

SerialNext == Next /\ OneDeciderAtATime' /\ OneRequestPerKey'
SerialSpec == Init /\ [][SerialNext]_vars

(* An approval is executed at most once, whatever fails and crashes. *)
AtMostOneRun ==
  \A d, e \in DecideReq : Launched(d) /\ Launched(e) /\ target[d] = target[e] => d = e

(* What was executed is what the approval says: approved, by that decision. *)
RunMatchesDecision ==
  \A d \in DecideReq :
    Launched(d) => approvals[target[d]].status = "approved" /\ approvals[target[d]].by = d

(* The table behaves like the in-memory store with its atomic Decide. *)
Abstract == INSTANCE ApprovalStore WITH
  Ids <- ApplyReq, Plans <- PlanIds, Deciders <- DecideReq, records <- approvals
ImplementsApprovalStore == Abstract!Spec

(* With no failing call and no crash, one key makes one approval. *)
OneApprovalPerKey ==
  \A a, b \in ApplyReq :
    approvals[a] # None /\ approvals[b] # None /\ key[a] = key[b]
      /\ faults = 0 /\ crashes = 0 => a = b
-----------------------------------------------------------------------------
(* Statements of the repository that the program does not keep. *)

(* sqlite.go:231 "approval already decided": a second decision on an        *)
(* approval is refused, so no two decisions are both accepted.              *)
SecondDecisionRefused ==
  \A d, e \in DecideReq :
    /\ d # e /\ target[d] = target[e]
    /\ reply[d] # None /\ reply[d].code = 200
    => reply[e] = None \/ reply[e].code # 200

(* agent_instructions.md:13 "After approval, call get_operation_status and  *)
(* report final status": after an accepted approval the status is final.    *)
ApprovalOutcomeShown ==
  \A d \in DecideReq :
    reply[d] # None /\ reply[d].code = 200 /\ verdict[d] = "approve"
      => operations[target[d]] \in Final
=============================================================================
