------------------------- MODULE GatewaySerialProofs -------------------------
(***************************************************************************)
(* Proofs about the gateway when clients do not race (SerialSpec): an        *)
(* approval is executed at most once and as decided, one key makes one       *)
(* approval, and the approvals table implements the atomic store of          *)
(* ApprovalStore.tla.  Without that assumption the two statements of a       *)
(* decision, and the look-up and the write of a key, may interleave.         *)
(***************************************************************************)
EXTENDS GatewayProofs

(* A decision in progress finds the row as it left it: pending before its   *)
(* UPDATE, its own after.                                                   *)
DecisionKept ==
  \A d \in DecideReq :
    /\ pc[d] = "update" => approvals[target[d]].status = "pending"
    /\ pc[d] \in Executing \cup {"logDecision"} \/ Launched(d) =>
         /\ approvals[target[d]].by = d
         /\ verdict[d] = "approve" => approvals[target[d]].status = "approved"

(* Until something fails, an approval's key is held: by its request while   *)
(* that is in flight, by the idempotency row after.                         *)
KeyHeld ==
  faults = 0 /\ crashes = 0 =>
    \A a \in ApplyReq :
      /\ approvals[a] # None => InFlight(a) \/ idempotency[<<"apply", key[a]>>] # None
      /\ pc[a] = "create" => idempotency[<<"apply", key[a]>>] = None

SerialInv ==
  /\ IInv /\ OneDeciderAtATime /\ OneRequestPerKey /\ DecisionKept /\ KeyHeld
  /\ OneApprovalPerKey

(* Serial behaviours are behaviours: IInv holds in them. *)
LEMMA SerialNextIsNext == [SerialNext]_vars => [Next]_vars
  BY DEF SerialNext

(* The assumption on clients is part of every step. *)
LEMMA EnvironmentStep ==
  ASSUME SerialInv, [SerialNext]_vars
  PROVE  OneDeciderAtATime' /\ OneRequestPerKey'
<1>1. CASE SerialNext
  BY <1>1 DEF SerialNext
<1>2. CASE UNCHANGED vars
  BY <1>2 DEF SerialInv, OneDeciderAtATime, OneRequestPerKey, InFlight, vars, inputs
<1> QED BY <1>1, <1>2

(* A decision reaches its UPDATE, its log and its run by its own steps. *)
LEMMA DecidersMove ==
  ASSUME IInv, [Next]_vars, NEW d \in DecideReq
  PROVE  /\ pc'[d] = "update" => pc[d] = "update" \/ DecideRead(d)
         /\ pc'[d] \in Executing \cup {"logDecision"} =>
              pc[d] \in Executing \cup {"logDecision"} \/ DecideWrite(d)
         /\ Launched(d)' => Launched(d) \/ ExecLaunch(d)
<1>1. d \in Requests /\ d \notin PlanReq /\ d \notin ApplyReq /\ TypeOK
  BY RequestsDistinct DEF Requests, Keyed, IInv
<1>2. ASSUME DecideStep(d), ~DecideRead(d), ~DecideWrite(d)
      PROVE  pc[d] \in Executing \cup {"logDecision"} /\ pc'[d] # "update"
  BY <1>1, <1>2 DEF DecideStep, DecideLog, ExecLaunch, ExecReturn, ExecPutResult, ExecFinish,
     ExecPutFailed, ExecFail, Refuse, Finish, Goto, TypeOK, Executing
<1>3. /\ DecideArrive(d) => pc'[d] = "check"
      /\ DbErrorIgnored(d) => pc[d] \in Executing
  BY <1>1 DEF DecideArrive, DbErrorIgnored, Goto, TypeOK, Executing
<1>4. DecideRead(d) => pc'[d] \in {"update", "done"}
  BY <1>1, DecideReadCases DEF Refuse, Finish, Goto, TypeOK
<1>5. DecideWrite(d) \/ DbErrorIgnored(d) => pc'[d] # "update"
  BY <1>1 DEF DecideWrite, DbErrorIgnored, Goto, TypeOK
<1>6. Launched(d)' => Launched(d) \/ ExecLaunch(d)
  <2>1. ASSUME NEW e \in DecideReq, ExecLaunch(e) \/ AgentRun(e)
        PROVE  Launched(d)' => Launched(d) \/ ExecLaunch(d)
    BY <1>1, <2>1 DEF ExecLaunch, AgentRun, Launched, TypeOK
  <2> QED BY <2>1, WhoWrites DEF Launched
<1>7. \/ pc'[d] = pc[d] \/ pc'[d] \in {"done", "lost"}
      \/ DecideArrive(d) \/ DecideStep(d) \/ DbErrorIgnored(d)
  BY <1>1, RequestsMove
<1> QED BY <1>2, <1>3, <1>4, <1>5, <1>6, <1>7 DEF Executing

(* Only a decision in flight changes a row that exists, and under           *)
(* OneDeciderAtATime it meets neither a reader nor a writer of that row.    *)
LEMMA DecisionKeptStep ==
  ASSUME SerialInv, [SerialNext]_vars
  PROVE  DecisionKept'
<1>1. IInv /\ [Next]_vars /\ RowsStay /\ DecisionKept /\ OneDeciderAtATime
  BY SerialNextIsNext, RowsStayStep DEF SerialInv
<1>2. ASSUME NEW a \in ApplyReq, approvals[a] # None,
             \A e \in DecideReq : DecideWrite(e) => target[e] # a
      PROVE  approvals'[a] = approvals[a]
  <2>1. ASSUME NEW b \in ApplyReq, ApplyCreate(b) PROVE approvals'[a] = approvals[a]
    BY <1>1, <1>2, <2>1
       DEF ApplyCreate, CreateApproval, Goto, IInv, TypeOK, StoreTypeOK, ApplyProgress, Fresh
  <2>2. ASSUME NEW e \in DecideReq, DecideWrite(e) PROVE approvals'[a] = approvals[a]
    BY <1>1, <1>2, <2>2, DecideWriteRow
  <2> QED BY <1>1, <2>1, <2>2, WhoWrites
<1>3. ASSUME NEW d \in DecideReq, pc'[d] = "update"
      PROVE  approvals'[target'[d]].status = "pending"
  <2>1. CASE DecideRead(d)
    BY <1>1, <1>3, <2>1, DecideReadCases
       DEF Refuse, Finish, IInv, TypeOK, Requests, tables, inputs
  <2>2. CASE pc[d] = "update"
    <3>1. target[d] \in ApplyReq /\ approvals[target[d]] # None /\ target'[d] = target[d]
      BY <1>1, <2>2 DEF IInv, InputsArrived, DecideProgress, RowsStay
    <3>2. ASSUME NEW e \in DecideReq, DecideWrite(e) PROVE target[e] # target[d]
      <4>1. e # d
        BY <1>1, <1>3, <3>2 DEF DecideWrite, Goto, IInv, TypeOK, Requests
      <4> QED BY <1>1, <2>2, <3>2, <4>1 DEF OneDeciderAtATime, InFlight, Parked,
         DecideWrite, Goto
    <3> QED BY <1>1, <1>2, <2>2, <3>1, <3>2 DEF DecisionKept
  <2> QED BY <1>1, <1>3, <2>1, <2>2, DecidersMove
<1>4. ASSUME NEW d \in DecideReq, pc'[d] \in Executing \cup {"logDecision"} \/ Launched(d)'
      PROVE  /\ approvals'[target'[d]].by = d
             /\ verdict'[d] = "approve" => approvals'[target'[d]].status = "approved"
  <2>1. CASE DecideWrite(d)
    BY <1>1, <2>1, DecideWriteRow DEF DecideWrite, inputs
  <2>2. CASE pc[d] \in Executing \cup {"logDecision"} \/ Launched(d)
    <3>1. /\ pc[d] # "idle" /\ target[d] \in ApplyReq /\ Decided(target[d])
      BY <1>1, <2>2 DEF IInv, Safety, NoRunWithoutDecision, DecideProgress, InputsArrived,
         Undecided, Executing, Launched
    <3>2. target'[d] = target[d] /\ verdict'[d] = verdict[d] /\ approvals[target[d]] # None
      BY <1>1, <3>1 DEF RowsStay, Decided
    <3>3. ASSUME NEW e \in DecideReq, DecideWrite(e) PROVE target[e] # target[d]
      BY <1>1, <3>1, <3>3 DEF DecisionKept, DecideWrite, Goto, Decided
    <3>4. approvals'[target[d]] = approvals[target[d]]
      BY <1>2, <3>1, <3>2, <3>3
    <3> QED BY <1>1, <2>2, <3>2, <3>4 DEF DecisionKept
  <2>3. ExecLaunch(d) => pc[d] \in Executing
    BY DEF ExecLaunch, Goto, Executing
  <2> QED BY <1>1, <1>4, <2>1, <2>2, <2>3, DecidersMove
<1> QED BY <1>3, <1>4 DEF DecisionKept

(* Faults and crashes are counted and never forgotten. *)
LEMMA CountersGrow ==
  ASSUME IInv, [Next]_vars, faults' = 0, crashes' = 0
  PROVE  faults = 0 /\ crashes = 0 /\ ~Crash /\ \A r \in Requests : ~DbError(r)
<1> USE DEF IInv, TypeOK
<1>1. ASSUME NEW q \in PlanReq, PlanArrive(q) \/ PlanStep(q) PROVE UNCHANGED <<faults, crashes>>
  BY <1>1 DEF PlanArrive, PlanStep, PlanLookup, PlanExec, PlanPutOp, PlanPutKey, PlanFinish
<1>2. ASSUME NEW a \in ApplyReq, ApplyArrive(a) \/ ApplyStep(a)
      PROVE  UNCHANGED <<faults, crashes>>
  BY <1>2 DEF ApplyArrive, ApplyStep, ApplyLookup, ApplyCreate, ApplyPutOp, ApplyPutKey,
     ApplyFinish
<1>3. ASSUME NEW d \in DecideReq, DecideStep(d) PROVE UNCHANGED <<faults, crashes>>
  BY <1>3, DecideReadCases DEF DecideStep, DecideWrite, DecideLog, ExecLaunch, ExecReturn,
     ExecPutResult, ExecFinish, ExecPutFailed, ExecFail
<1>4. ASSUME NEW d \in DecideReq, DecideArrive(d) \/ AgentRun(d)
      PROVE  UNCHANGED <<faults, crashes>>
  BY <1>4 DEF DecideArrive, AgentRun
<1>5. ASSUME NEW d \in DecideReq, DbErrorIgnored(d) PROVE FALSE
  BY <1>5, BoundsAssumption DEF DbErrorIgnored
<1>6. ASSUME NEW r \in Requests, DbError(r) PROVE FALSE
  BY <1>6, BoundsAssumption DEF DbError
<1>7. CASE Crash
  BY <1>7, BoundsAssumption DEF Crash
<1>8. CASE UNCHANGED vars
  BY <1>8, <1>6, <1>7, BoundsAssumption DEF vars, Crash, DbError
<1> QED BY <1>1, <1>2, <1>3, <1>4, <1>5, <1>6, <1>7, <1>8 DEF Next

(* A key passes from the request in flight to the row without a gap. *)
LEMMA KeyHeldStep ==
  ASSUME SerialInv, [SerialNext]_vars
  PROVE  KeyHeld'
<1> SUFFICES ASSUME faults' = 0, crashes' = 0, NEW a \in ApplyReq
             PROVE  /\ approvals'[a] # None =>
                         InFlight(a)' \/ idempotency'[<<"apply", key'[a]>>] # None
                    /\ pc'[a] = "create" => idempotency'[<<"apply", key'[a]>>] = None
  BY DEF KeyHeld
<1>1. IInv /\ [Next]_vars /\ RowsStay /\ TypeOK
  BY SerialNextIsNext, RowsStayStep DEF SerialInv, IInv
<1>2. faults = 0 /\ crashes = 0 /\ ~Crash /\ ~DbError(a)
  BY <1>1, CountersGrow DEF Requests, Keyed
<1>3. ASSUME approvals'[a] # None, ~InFlight(a)'
      PROVE  idempotency'[<<"apply", key'[a]>>] # None
  <2>1. approvals[a] # None
    <3>1. CASE ApplyCreate(a)
      BY <1>1, <1>3, <3>1 DEF ApplyCreate, Goto, InFlight, Parked, TypeOK, Requests, Keyed
    <3> QED BY <1>1, <1>3, <3>1, ApprovalAppears
  <2>2. pc[a] \notin Fresh
    BY <1>1, <2>1 DEF IInv, ApplyProgress
  <2>3. key'[a] = key[a] /\ <<"apply", key[a]>> \in IdemKeys
    BY <1>1, <2>2 DEF Fresh, RowsStay, IInv, InputsArrived, Keyed, IdemKeys
  <2>4. idempotency[<<"apply", key[a]>>] # None
    <3>1. CASE ~InFlight(a)
      BY <1>2, <2>1, <3>1 DEF SerialInv, KeyHeld
    <3>2. CASE InFlight(a)
      <4>1. ApplyArrive(a) \/ ApplyStep(a)
        <5> a \in Requests /\ a \notin PlanReq /\ a \notin DecideReq
          BY RequestsDistinct DEF Requests, Keyed
        <5> QED BY <1>1, <1>2, <1>3, <3>2, RequestsMove DEF InFlight
      <4>2. ApplyFinish(a)
        BY <1>1, <1>3, <2>2, <4>1 DEF ApplyArrive, ApplyStep, ApplyLookup, ApplyCreate,
           ApplyPutOp,
           ApplyPutKey, Goto, Fresh, InFlight, Parked, TypeOK, Requests, Keyed
      <4> QED BY <1>1, <4>2 DEF ApplyFinish, IInv, ApplyProgress
    <3> QED BY <3>1, <3>2
  <2> QED BY <1>1, <2>3, <2>4 DEF RowsStay
<1>4. ASSUME pc'[a] = "create"
      PROVE  idempotency'[<<"apply", key'[a]>>] = None
  <2>1. CASE ApplyStep(a)
    <3>1. ApplyLookup(a)
      BY <1>1, <1>4, <2>1 DEF ApplyStep, ApplyCreate, ApplyPutOp, ApplyPutKey, ApplyFinish,
         Finish,
         Goto, TypeOK, Requests, Keyed
    <3>2. Prior("apply", a) = None
      BY <1>1, <1>4, <3>1 DEF ApplyLookup, Finish, TypeOK, Requests, Keyed
    <3> QED BY <3>1, <3>2 DEF ApplyLookup, Prior, tables, inputs
  <2>2. CASE pc[a] = "create" /\ ~ApplyStep(a)
    <3>1. /\ idempotency[<<"apply", key[a]>>] = None
          /\ key'[a] = key[a] /\ key[a] \in Keys /\ <<"apply", key[a]>> \in IdemKeys
      BY <1>1, <1>2, <2>2 DEF SerialInv, KeyHeld, RowsStay, IInv, InputsArrived, Keyed, IdemKeys
    <3>2. ASSUME NEW q \in PlanReq, PlanPutKey(q)
          PROVE  idempotency'[<<"apply", key[a]>>] = idempotency[<<"apply", key[a]>>]
      BY <1>1, <3>1, <3>2 DEF PlanPutKey, PutIdempotency, TypeOK, StoreTypeOK
    <3>3. ASSUME NEW b \in ApplyReq, ApplyPutKey(b)
          PROVE  idempotency'[<<"apply", key[a]>>] = idempotency[<<"apply", key[a]>>]
      <4>1. b # a /\ InFlight(a) /\ InFlight(b)
        BY <2>2, <3>3 DEF ApplyPutKey, Goto, InFlight, Parked
      <4>2. key[b] # key[a]
        BY <4>1 DEF SerialInv, OneRequestPerKey
      <4> QED BY <1>1, <3>1, <3>3, <4>2 DEF ApplyPutKey, PutIdempotency, TypeOK, StoreTypeOK
    <3> QED BY <1>1, <3>1, <3>2, <3>3, WhoWrites
  <2>3. pc[a] = "create" \/ ApplyStep(a)
    <3> a \in Requests /\ a \notin PlanReq /\ a \notin DecideReq
      BY RequestsDistinct DEF Requests, Keyed
    <3> QED BY <1>1, <1>2, <1>4, RequestsMove DEF ApplyArrive, Goto, TypeOK
  <2> QED BY <2>1, <2>2, <2>3
<1> QED BY <1>3, <1>4

(* So a second request with that key has nothing to create. *)
LEMMA OneApprovalStep ==
  ASSUME SerialInv, [SerialNext]_vars
  PROVE  OneApprovalPerKey'
<1> SUFFICES ASSUME NEW a \in ApplyReq, NEW b \in ApplyReq, approvals'[a] # None,
                    approvals'[b] # None, key'[a] = key'[b], faults' = 0, crashes' = 0, a # b
             PROVE  FALSE
  BY DEF OneApprovalPerKey
<1>1. IInv /\ [Next]_vars /\ RowsStay /\ faults = 0 /\ crashes = 0
  BY SerialNextIsNext, RowsStayStep, CountersGrow DEF SerialInv
<1>2. ASSUME NEW c \in ApplyReq, approvals[c] # None PROVE pc[c] # "idle" /\ key'[c] = key[c]
  BY <1>1, <1>2 DEF IInv, ApplyProgress, Fresh, RowsStay, Keyed
<1>3. ASSUME NEW c \in ApplyReq, NEW e \in ApplyReq, c # e, ApplyCreate(c), approvals[e] # None
      PROVE  key'[c] # key'[e]
  <2>1. key' = key /\ pc[c] = "create" /\ InFlight(c)
    BY <1>3 DEF ApplyCreate, inputs, Goto, InFlight, Parked
  <2>2. idempotency[<<"apply", key[c]>>] = None
    BY <1>1, <2>1 DEF SerialInv, KeyHeld
  <2>3. CASE InFlight(e)
    BY <1>3, <2>1, <2>3 DEF SerialInv, OneRequestPerKey
  <2>4. CASE ~InFlight(e)
    BY <1>1, <1>3, <2>1, <2>2, <2>4 DEF SerialInv, KeyHeld
  <2> QED BY <2>3, <2>4
<1>4. CASE approvals[a] # None /\ approvals[b] # None
  BY <1>1, <1>2, <1>4 DEF SerialInv, OneApprovalPerKey
<1>5. CASE approvals[a] = None /\ approvals[b] # None
  BY <1>1, <1>3, <1>5, ApprovalAppears
<1>6. CASE approvals[a] # None /\ approvals[b] = None
  BY <1>1, <1>3, <1>6, ApprovalAppears
<1>7. CASE approvals[a] = None /\ approvals[b] = None
  <2>1. ApplyCreate(a) /\ ApplyCreate(b)
    BY <1>1, <1>7, ApprovalAppears
  <2> QED BY <1>1, <2>1 DEF ApplyCreate, Goto, IInv, TypeOK, Requests, Keyed
<1> QED BY <1>4, <1>5, <1>6, <1>7
-----------------------------------------------------------------------------
(* The theorems about clients that do not race. *)
LEMMA InitSerialInv == Init => SerialInv
<1> SUFFICES ASSUME Init PROVE SerialInv
  OBVIOUS
<1>1. \A r \in Requests : pc[r] = "idle" /\ ~InFlight(r)
  BY DEF Init, InFlight, Parked
<1>2. OneDeciderAtATime /\ OneRequestPerKey
  BY <1>1 DEF OneDeciderAtATime, OneRequestPerKey, Requests, Keyed
<1>3. DecisionKept /\ KeyHeld /\ OneApprovalPerKey
  BY <1>1 DEF Init, StoreInit, DecisionKept, KeyHeld, OneApprovalPerKey, Executing, Launched,
     Requests, Keyed
<1> QED BY <1>2, <1>3, InitIInv DEF SerialInv

LEMMA NextSerialInv == SerialInv /\ [SerialNext]_vars => SerialInv'
<1> SUFFICES ASSUME SerialInv, [SerialNext]_vars PROVE SerialInv'
  OBVIOUS
<1>1. IInv'
  BY SerialNextIsNext, NextIInv DEF SerialInv
<1>2. OneDeciderAtATime' /\ OneRequestPerKey' /\ DecisionKept' /\ KeyHeld' /\ OneApprovalPerKey'
  BY EnvironmentStep, DecisionKeptStep, KeyHeldStep, OneApprovalStep
<1> QED BY <1>1, <1>2 DEF SerialInv

(* The inductive invariant of the serial behaviours holds. *)
THEOREM SerialInvariance == SerialSpec => []SerialInv
  BY InitSerialInv, NextSerialInv, PTL DEF SerialSpec

(* What was executed is what the row says: approved, by that decision. *)
THEOREM ExecutedAsDecided == SerialSpec => []RunMatchesDecision
<1>1. SerialInv => RunMatchesDecision
  BY DEF SerialInv, IInv, Safety, NoRunWithoutDecision, DecisionKept, RunMatchesDecision
<1> QED BY <1>1, SerialInvariance, PTL

(* An approval is executed at most once: the row names one decision only. *)
THEOREM ExecutedAtMostOnce == SerialSpec => []AtMostOneRun
<1>1. SerialInv => AtMostOneRun
  BY DEF SerialInv, DecisionKept, AtMostOneRun
<1> QED BY <1>1, SerialInvariance, PTL

-----------------------------------------------------------------------------
(* What decides is not undone: a decision that was accepted is the one in the *)
(* row, for good.                                                            *)
AcceptedKept ==
  \A d \in DecideReq :
    reply[d] # None /\ reply[d].code = 200 => Decided(target[d]) /\ approvals[target[d]].by = d

LEMMA DecidedRowStays ==
  ASSUME SerialInv, [SerialNext]_vars, NEW a \in ApplyReq, Decided(a)
  PROVE  approvals'[a] = approvals[a]
<1>1. IInv /\ [Next]_vars /\ DecisionKept
  BY SerialNextIsNext DEF SerialInv
<1>2. ASSUME NEW b \in ApplyReq, ApplyCreate(b) PROVE approvals'[a] = approvals[a]
  BY <1>1, <1>2
     DEF ApplyCreate, CreateApproval, Goto, IInv, TypeOK, StoreTypeOK, ApplyProgress, Fresh, Decided
<1>3. ASSUME NEW e \in DecideReq, DecideWrite(e) PROVE approvals'[a] = approvals[a]
  <2>1. target[e] # a
    BY <1>1, <1>3 DEF DecisionKept, DecideWrite, Goto, Decided
  <2> QED BY <1>1, <1>3, <2>1, DecideWriteRow
<1> QED BY <1>1, <1>2, <1>3, WhoWrites

LEMMA AcceptedKeptStep ==
  ASSUME SerialInv, AcceptedKept, [SerialNext]_vars
  PROVE  AcceptedKept'
<1>1. IInv /\ [Next]_vars /\ TypeOK /\ DecisionKept /\ RowsStay
  BY SerialNextIsNext, RowsStayStep DEF SerialInv, IInv
<1> SUFFICES ASSUME NEW d \in DecideReq, reply'[d] # None, reply'[d].code = 200
             PROVE  Decided(target[d])' /\ approvals'[target'[d]].by = d
  BY DEF AcceptedKept
<1>2. pc[d] # "idle" /\ Decided(target[d]) /\ approvals[target[d]].by = d
  <2>1. CASE reply'[d] = reply[d]
    <3>1. pc[d] # "idle"
      BY <1>1, <2>1 DEF IInv, RepliesEnd, Requests
    <3> QED BY <2>1, <3>1 DEF AcceptedKept
  <2>2. CASE reply'[d] # reply[d]
    <3>0. d \in Requests /\ d \notin PlanReq /\ d \notin ApplyReq
      BY RequestsDistinct DEF Requests, Keyed
    <3>1. DbError(d) \/ DecideRead(d) \/ DecideLog(d) \/ ExecFinish(d) \/ ExecFail(d)
      BY <1>1, <2>2, <3>0, WhoReplies
    <3>2. ~DbError(d) /\ ~DecideRead(d)
      <4>1. CASE DbError(d)
        BY <1>1, <4>1 DEF DbError, ErrorCode, Refuse, Finish, TypeOK, Requests
      <4>2. CASE DecideRead(d)
        BY <1>1, <2>2, <4>2, DecideReadCases DEF Refuse, Finish, TypeOK, Requests
      <4> QED BY <4>1, <4>2
    <3>3. pc[d] \in Executing \cup {"logDecision"}
      BY <3>1, <3>2 DEF DecideLog, ExecFinish, ExecFail, Executing
    <3> QED BY <1>1, <3>3 DEF IInv, DecideProgress, DecisionKept, Executing
  <2> QED BY <2>1, <2>2
<1>3. target[d] \in ApplyReq /\ target'[d] = target[d]
  BY <1>1, <1>2 DEF IInv, InputsArrived, RowsStay
<1>4. approvals'[target[d]] = approvals[target[d]]
  BY <1>2, <1>3, DecidedRowStays
<1> QED BY <1>2, <1>3, <1>4 DEF Decided

(* "approval already decided" (sqlite.go:231) is told to the second of two    *)
(* decisions when they do not race, whatever fails and crashes: the run       *)
(* gateway_double shows that it takes a race.                                *)
THEOREM OneDecisionIsAccepted == SerialSpec => []SecondDecisionRefused
<1>1. Init => AcceptedKept
  BY DEF Init, AcceptedKept, Requests
<1>2. SerialInv /\ AcceptedKept /\ [SerialNext]_vars => AcceptedKept'
  BY AcceptedKeptStep
<1>3. AcceptedKept => SecondDecisionRefused
  BY DEF AcceptedKept, SecondDecisionRefused
<1> QED BY <1>1, <1>2, <1>3, SerialInvariance, PTL DEF SerialSpec

(* Without failures one key makes one approval. *)
THEOREM KeysDeduplicate == SerialSpec => []OneApprovalPerKey
<1>1. SerialInv => OneApprovalPerKey
  BY DEF SerialInv
<1> QED BY <1>1, SerialInvariance, PTL

(* The approvals table implements the atomic in-memory store: the INSERT is *)
(* Create, the UPDATE is Decide, every other step leaves the table alone.   *)
THEOREM TableImplementsStore == SerialSpec => ImplementsApprovalStore
<1>1. Init => Abstract!Init
  BY DEF Init, StoreInit, Abstract!Init
<1>2. ASSUME SerialInv, [SerialNext]_vars PROVE [Abstract!Next]_approvals
  <2>1. IInv /\ [Next]_vars
    BY <1>2, SerialNextIsNext DEF SerialInv
  <2>2. ASSUME NEW a \in ApplyReq, ApplyCreate(a) PROVE Abstract!Next
    <3>1. plan[a] \in PlanIds /\ approvals[a] = None
      BY <2>1, <2>2 DEF ApplyCreate, Goto, IInv, InputsArrived, ApplyProgress, Fresh
    <3> QED BY <2>2, <3>1 DEF ApplyCreate, CreateApproval, Abstract!Next, Abstract!Create
  <2>3. ASSUME NEW d \in DecideReq, DecideWrite(d) PROVE Abstract!Next
    <3>1. target[d] \in ApplyReq /\ approvals[target[d]] # None
      BY <2>1, <2>3, DecideWriteRow
    <3>2. approvals[target[d]].status = "pending"
      BY <1>2, <2>3 DEF SerialInv, DecisionKept, DecideWrite, Goto
    <3>3. Abstract!Decide(target[d], d)
      BY <2>3, <3>1, <3>2 DEF DecideWrite, DecideUpdate, Abstract!Decide
    <3> QED BY <3>1, <3>3 DEF Abstract!Next
  <2> QED BY <2>1, <2>2, <2>3, WhoWrites
<1> QED BY <1>1, <1>2, SerialInvariance, PTL DEF SerialSpec, ImplementsApprovalStore,
   Abstract!Spec
=============================================================================
