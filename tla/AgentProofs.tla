----------------------------- MODULE AgentProofs -----------------------------
(***************************************************************************)
(* Proofs that AgentSpec has the properties of AgentProps.tla, for any       *)
(* number of processes, ids, contents and keys.                              *)
(***************************************************************************)
EXTENDS AgentProps, TLAPS

(* Past ApplyLoad a process is approved and holds the plan it was asked for; *)
(* its child exists from ApplyLaunch on, and only an operation with args has *)
(* one; exit code 0 without help means that the repository has changed.      *)
ApplyProgress ==
  \A p \in ApplyProc :
    /\ step[p] \in {"check", "launch", "wait", "mark", "print"} \/ cli[p] # "none" =>
         arg[p].approved /\ loaded[p] \in Plan /\ loaded[p].content = arg[p].content
    /\ cli[p] # "none" => loaded[p].args
    /\ step[p] \in {"idle", "load", "check", "launch"} => cli[p] = "none"
    /\ changed[p] => cli[p] # "none"
    /\ cli[p] = "ok" => changed[p]
    /\ step[p] \in {"mark", "print"} => cli[p] = "ok"

(* An answer is the last step. *)
Unanswered == \A r \in Procs : step[r] # "done" => status[r] = "none"

(* Who has answered "succeeded", or is about to, has left the marker. *)
Marked ==
  \A p \in ApplyProc :
    step[p] = "print" \/ status[p] = "succeeded" => arg[p].key \in applied \/ writeFaults > 0

AgentInv ==
  /\ AgentTypeOK /\ ApplyProgress /\ Unanswered /\ Marked
  /\ ChangedAsApproved /\ SuccessIsEarned /\ ReadyPlanIsKept

LEMMA InitInv == AgentInit => AgentInv
<1> SUFFICES ASSUME AgentInit PROVE AgentInv
  OBVIOUS
<1> USE ProcsDistinct, NoneDistinct, AgentBounds DEF AgentInit, Procs
<1>1. AgentTypeOK
  <2>1. {None} \cup [content : Contents, args : {FALSE}] \subseteq File
    BY DEF File, Plan
  <2>2. planFile \in [PlanIds -> File]
    BY <2>1
  <2> QED BY <2>2 DEF AgentTypeOK, Ended, Statuses
<1>2. ApplyProgress /\ Unanswered /\ Marked /\ ChangedAsApproved
  BY DEF ApplyProgress, Unanswered, Marked, ChangedAsApproved
<1>3. SuccessIsEarned /\ ReadyPlanIsKept
  BY DEF SuccessIsEarned, ReadyPlanIsKept
<1> QED BY <1>1, <1>2, <1>3 DEF AgentInv

(* The steps of `plan`. *)
LEMMA PlanTypes ==
  ASSUME AgentTypeOK, NEW q \in PlanProc, PlanProcess(q)
  PROVE  AgentTypeOK'
<1> USE ProcsDistinct, NoneDistinct, AgentBounds
    DEF AgentTypeOK, Procs, Answer, Move, files, child, bounds
<1>1. CASE PlanStart(q)
  <2>1. arg' \in [Procs -> PlanArgs \cup ApplyArgs \cup {None}] /\ arg'[q] \in PlanArgs
        /\ \A p \in Procs : p # q => arg'[p] = arg[p]
    BY <1>1 DEF PlanStart, PlanArgs
  <2> QED BY <1>1, <2>1 DEF PlanStart, Ended, PlanSteps, Statuses
<1>2. CASE PlanCreate(q)
  BY <1>2 DEF PlanCreate, WriteFault, File, Ended, PlanSteps, Statuses
<1>3. CASE PlanWrite(q)
  <2>1. [content |-> arg[q].content, args |-> TRUE] \in File
    BY <1>3 DEF PlanWrite, PlanArgs, File, Plan
  <2> QED BY <1>3, <2>1 DEF PlanWrite, WriteFault, Ended, PlanSteps, Statuses
<1> QED BY <1>1, <1>2, <1>3 DEF PlanProcess

(* The steps of `apply`. *)
LEMMA ApplyTypes ==
  ASSUME AgentTypeOK, NEW p \in ApplyProc, ApplyProcess(p) \/ CliChange(p) \/ CliExit(p)
  PROVE  AgentTypeOK'
<1> USE ProcsDistinct, NoneDistinct, AgentBounds
    DEF AgentTypeOK, Procs, Answer, Move, files, child, bounds
<1>1. CASE ApplyStart(p)
  <2>1. arg' \in [Procs -> PlanArgs \cup ApplyArgs \cup {None}] /\ arg'[p] \in ApplyArgs
        /\ \A r \in Procs : r # p => arg'[r] = arg[r]
    BY <1>1 DEF ApplyStart
  <2> QED BY <1>1, <2>1 DEF ApplyStart, Ended, ApplySteps, Statuses
<1>2. CASE ApplyLoad(p) \/ ApplyCheck(p)
  BY <1>2 DEF ApplyLoad, ApplyCheck, Ended, ApplySteps, Statuses
<1>3. CASE ApplyLaunch(p) \/ ApplyReturn(p) \/ ApplyPrint(p)
  BY <1>3 DEF ApplyLaunch, ApplyReturn, ApplyPrint, Ended, ApplySteps, Statuses
<1>4. CASE ApplyMark(p)
  <2>1. arg[p].key \in Keys
    BY <1>4 DEF ApplyMark, ApplyArgs
  <2> QED BY <1>4, <2>1 DEF ApplyMark, WriteFault, Ended, ApplySteps
<1>5. CASE CliChange(p) \/ CliExit(p)
  BY <1>5 DEF CliChange, CliExit, CliEnds
<1> QED BY <1>1, <1>2, <1>3, <1>4, <1>5 DEF ApplyProcess

LEMMA TypeStep == AgentTypeOK /\ [AgentNext]_agentVars => AgentTypeOK'
<1> SUFFICES ASSUME AgentTypeOK, [AgentNext]_agentVars PROVE AgentTypeOK'
  OBVIOUS
<1>1. ASSUME NEW p \in Procs, Kill(p) PROVE AgentTypeOK'
  BY <1>1, AgentBounds DEF AgentTypeOK, Kill, Live, Ended, Procs, files, child
<1>2. CASE UNCHANGED agentVars
  BY <1>2 DEF AgentTypeOK, agentVars, files, child, bounds
<1> QED BY <1>1, <1>2, PlanTypes, ApplyTypes DEF AgentNext

(* A process moves by its own steps, and what it was called with, what its   *)
(* child has done and what has been written stay.                            *)
Kept ==
  /\ \A p \in Procs : arg[p] # None => arg'[p] = arg[p]
  /\ \A p \in ApplyProc : Executed(p) => Executed(p)'
  /\ applied \subseteq applied'
  /\ writeFaults' >= writeFaults

LEMMA KeptStep ==
  ASSUME AgentInv, [AgentNext]_agentVars
  PROVE  Kept
<1> USE ProcsDistinct, NoneDistinct, AgentBounds
    DEF AgentInv, AgentTypeOK, Procs, Answer, Move, files, child, bounds, WriteFault
<1>1. ASSUME NEW q \in PlanProc, PlanProcess(q) PROVE Kept
  BY <1>1 DEF Kept, Executed, PlanProcess, PlanStart, PlanCreate, PlanWrite
<1>2. ASSUME NEW p \in ApplyProc, ApplyStart(p) PROVE Kept
  BY <1>2 DEF Kept, Executed, ApplyStart
<1>3. ASSUME NEW p \in ApplyProc, ApplyProcess(p) \/ CliChange(p) \/ CliExit(p), ~ApplyStart(p)
      PROVE  Kept
  BY <1>3 DEF Kept, Executed, ApplyProgress, ApplyProcess, ApplyLoad, ApplyCheck, ApplyLaunch,
     ApplyReturn, ApplyMark, ApplyPrint, CliChange, CliExit
<1>4. ASSUME NEW p \in Procs, Kill(p) PROVE Kept
  BY <1>4 DEF Kept, Executed, Kill
<1>5. CASE UNCHANGED agentVars
  BY <1>5 DEF Kept, Executed, agentVars
<1> QED BY <1>1, <1>2, <1>3, <1>4, <1>5 DEF AgentNext

LEMMA ProgressStep ==
  ASSUME AgentInv, [AgentNext]_agentVars
  PROVE  ApplyProgress' /\ Unanswered' /\ Marked'
<1> USE ProcsDistinct, NoneDistinct, AgentBounds
    DEF AgentInv, AgentTypeOK, Procs, Answer, Move, files, child, bounds, WriteFault,
        ApplyProgress, Unanswered, Marked
<1>1. ASSUME NEW q \in PlanProc, PlanProcess(q) PROVE ApplyProgress' /\ Unanswered' /\ Marked'
  BY <1>1 DEF PlanProcess, PlanStart, PlanCreate, PlanWrite
<1>2. ASSUME NEW p \in ApplyProc, ApplyStart(p) PROVE ApplyProgress' /\ Unanswered' /\ Marked'
  BY <1>2 DEF ApplyStart
<1>3. ASSUME NEW p \in ApplyProc, ApplyLoad(p) PROVE ApplyProgress' /\ Unanswered' /\ Marked'
  BY <1>3 DEF ApplyLoad
<1>4. ASSUME NEW p \in ApplyProc, ApplyCheck(p) PROVE ApplyProgress' /\ Unanswered' /\ Marked'
  BY <1>4 DEF ApplyCheck
<1>5. ASSUME NEW p \in ApplyProc, ApplyLaunch(p) PROVE ApplyProgress' /\ Unanswered' /\ Marked'
  BY <1>5 DEF ApplyLaunch
<1>6. ASSUME NEW p \in ApplyProc, ApplyReturn(p) PROVE ApplyProgress' /\ Unanswered' /\ Marked'
  BY <1>6 DEF ApplyReturn
<1>7. ASSUME NEW p \in ApplyProc, ApplyMark(p) PROVE ApplyProgress' /\ Unanswered' /\ Marked'
  BY <1>7 DEF ApplyMark
<1>8. ASSUME NEW p \in ApplyProc, ApplyPrint(p) PROVE ApplyProgress' /\ Unanswered' /\ Marked'
  BY <1>8 DEF ApplyPrint
<1>9. ASSUME NEW p \in ApplyProc, CliChange(p) \/ CliExit(p) PROVE ApplyProgress' /\ Unanswered' /\ Marked'
  BY <1>9 DEF CliChange, CliExit
<1>10. ASSUME NEW p \in Procs, Kill(p) PROVE ApplyProgress' /\ Unanswered' /\ Marked'
  BY <1>10 DEF Kill, Live, Ended
<1>11. CASE UNCHANGED agentVars
  BY <1>11 DEF agentVars
<1> QED BY <1>1, <1>2, <1>3, <1>4, <1>5, <1>6, <1>7, <1>8, <1>9, <1>10, <1>11
        DEF AgentNext, ApplyProcess

LEMMA ChangedStep ==
  ASSUME AgentInv, [AgentNext]_agentVars
  PROVE  ChangedAsApproved'
<1>1. AgentTypeOK' /\ ApplyProgress' /\ Kept
  BY TypeStep, ProgressStep, KeptStep DEF AgentInv
<1> SUFFICES ASSUME NEW p \in ApplyProc
             PROVE  /\ changed'[p] => arg'[p].approved
                                      /\ loaded'[p] = [content |-> arg'[p].content, args |-> TRUE]
                    /\ status'[p] \in {"aborted", "precondition_failed"} => cli'[p] = "none"
  BY DEF ChangedAsApproved
<1>2. changed'[p] => arg'[p].approved
                     /\ loaded'[p] = [content |-> arg'[p].content, args |-> TRUE]
  BY <1>1 DEF ApplyProgress, Plan
<1>3. status'[p] \in {"aborted", "precondition_failed"} => cli'[p] = "none"
  <2> USE ProcsDistinct DEF AgentInv, AgentTypeOK, Procs, Answer, Move, files, child, bounds,
      ChangedAsApproved, ApplyProgress
  <2>1. ASSUME NEW q \in PlanProc, PlanProcess(q) PROVE <1>3!:
    BY <2>1 DEF PlanProcess, PlanStart, PlanCreate, PlanWrite
  <2>2. ASSUME NEW o \in ApplyProc, ApplyStart(o) \/ ApplyLoad(o) \/ ApplyCheck(o) PROVE <1>3!:
    BY <2>2 DEF ApplyStart, ApplyLoad, ApplyCheck
  <2>3. ASSUME NEW o \in ApplyProc, ApplyReturn(o) \/ ApplyMark(o) \/ ApplyPrint(o) PROVE <1>3!:
    BY <2>3 DEF ApplyReturn, ApplyMark, ApplyPrint
  <2>4. ASSUME NEW o \in ApplyProc, ApplyLaunch(o) PROVE <1>3!:
    BY <2>4 DEF ApplyLaunch, Unanswered
  <2>5. ASSUME NEW o \in ApplyProc, CliChange(o) \/ CliExit(o) PROVE <1>3!:
    BY <2>5 DEF CliChange, CliExit
  <2>6. ASSUME NEW o \in Procs, Kill(o) PROVE <1>3!:
    BY <2>6 DEF Kill
  <2>7. CASE UNCHANGED agentVars
    BY <2>7 DEF agentVars
  <2> QED BY <2>1, <2>2, <2>3, <2>4, <2>5, <2>6, <2>7 DEF AgentNext, ApplyProcess
<1> QED BY <1>2, <1>3

(* The marker is written, and "succeeded" printed, by a process that has     *)
(* executed; "succeeded" without executing is for a marker already there.    *)
LEMMA SuccessStep ==
  ASSUME AgentInv, [AgentNext]_agentVars
  PROVE  SuccessIsEarned'
<1>1. AgentTypeOK /\ AgentTypeOK' /\ ApplyProgress /\ Kept /\ SuccessIsEarned
  BY TypeStep, KeptStep DEF AgentInv
<1>2. \A o \in ApplyProc : Executed(o) => Executed(o)' /\ arg'[o] = arg[o] /\ arg[o] # None
  BY <1>1, NoneDistinct, ProcsDistinct
     DEF Kept, Executed, AgentTypeOK, ApplyProgress, Procs
<1>3. \A k \in applied' : k \notin applied =>
        \E p \in ApplyProc : ApplyMark(p) /\ k = arg[p].key
  <2> USE ProcsDistinct DEF files
  <2>1. ASSUME NEW p \in ApplyProc, ApplyProcess(p) \/ CliChange(p) \/ CliExit(p), ~ApplyMark(p)
        PROVE  applied' = applied
    BY <2>1 DEF ApplyProcess, ApplyStart, ApplyLoad, ApplyCheck, ApplyLaunch, ApplyReturn,
       ApplyPrint, CliChange, CliExit
  <2>2. ASSUME NEW p \in ApplyProc, ApplyMark(p) PROVE applied' \subseteq applied \cup {arg[p].key}
    BY <2>2 DEF ApplyMark
  <2>3. ASSUME NEW q \in PlanProc, PlanProcess(q) PROVE applied' = applied
    BY <2>3 DEF PlanProcess, PlanStart, PlanCreate, PlanWrite
  <2>4. ASSUME NEW p \in Procs, Kill(p) PROVE applied' = applied
    BY <2>4 DEF Kill
  <2> QED BY <2>1, <2>2, <2>3, <2>4 DEF AgentNext, agentVars
<1>4. \A p \in ApplyProc : status'[p] = "succeeded" /\ status[p] # "succeeded" =>
        ApplyPrint(p) \/ (ApplyCheck(p) /\ arg[p].key \in applied)
  <2> USE <1>1, ProcsDistinct DEF AgentTypeOK, Procs, Answer
  <2>1. ASSUME NEW p \in ApplyProc, ApplyProcess(p) \/ CliChange(p) \/ CliExit(p), ~ApplyPrint(p),
               ~(ApplyCheck(p) /\ arg[p].key \in applied)
        PROVE  \A o \in ApplyProc : status'[o] = "succeeded" => status[o] = "succeeded"
    BY <2>1 DEF ApplyProcess, ApplyStart, ApplyLoad, ApplyCheck, ApplyLaunch, ApplyReturn,
       ApplyMark, CliChange, CliExit
  <2>2. ASSUME NEW p \in ApplyProc, ApplyPrint(p) \/ ApplyCheck(p)
        PROVE  \A o \in ApplyProc : o # p => status'[o] = status[o]
    BY <2>2 DEF ApplyPrint, ApplyCheck
  <2>3. ASSUME NEW q \in PlanProc, PlanProcess(q)
        PROVE  \A o \in ApplyProc : status'[o] = status[o]
    BY <2>3 DEF PlanProcess, PlanStart, PlanCreate, PlanWrite
  <2>4. ASSUME NEW p \in Procs, Kill(p) PROVE status' = status
    BY <2>4 DEF Kill
  <2> QED BY <2>1, <2>2, <2>3, <2>4 DEF AgentNext, agentVars
<1>5. ASSUME NEW p \in ApplyProc, step[p] \in {"mark", "print"}
      PROVE  Executed(p) /\ arg[p] # None
  BY <1>1, <1>5, NoneDistinct, ProcsDistinct DEF Executed, ApplyProgress, AgentTypeOK, Procs
<1>6. ASSUME NEW k \in applied' PROVE \E o \in ApplyProc : Executed(o)' /\ arg'[o].key = k
  <2>1. CASE k \in applied
    BY <1>1, <1>2, <2>1 DEF SuccessIsEarned
  <2>2. CASE k \notin applied
    BY <1>2, <1>3, <1>5, <1>6, <2>2 DEF ApplyMark, Move
  <2> QED BY <2>1, <2>2
<1>7. ASSUME NEW p \in ApplyProc, status'[p] = "succeeded"
      PROVE  \E o \in ApplyProc : Executed(o)' /\ SameKey(p, o)'
  <2>1. CASE status[p] = "succeeded"
    <3>1. PICK o \in ApplyProc : Executed(o) /\ SameKey(p, o)
      BY <1>1, <2>1 DEF SuccessIsEarned
    <3>2. arg'[p] = arg[p]
      BY <1>1, <3>1 DEF SameKey, Kept, Procs
    <3> QED BY <1>2, <3>1, <3>2 DEF SameKey
  <2>2. CASE ApplyPrint(p)
    BY <1>2, <1>5, <2>2 DEF ApplyPrint, SameKey
  <2>3. CASE ApplyCheck(p) /\ arg[p].key \in applied
    <3>1. PICK o \in ApplyProc : Executed(o) /\ arg[o].key = arg[p].key
      BY <1>1, <2>3 DEF SuccessIsEarned
    <3>2. arg'[p] = arg[p] /\ arg[p] # None
      BY <1>1, <2>3, NoneDistinct, ProcsDistinct DEF ApplyCheck, AgentTypeOK
    <3> QED BY <1>2, <3>1, <3>2 DEF SameKey
  <2> QED BY <1>4, <1>7, <2>1, <2>2, <2>3
<1> QED BY <1>6, <1>7 DEF SuccessIsEarned

(* A plan's file is written by its own process and by those with its id. *)
LEMMA ReadyStep ==
  ASSUME AgentInv, [AgentNext]_agentVars
  PROVE  ReadyPlanIsKept'
<1>1. AgentTypeOK /\ Kept /\ Unanswered /\ ReadyPlanIsKept
  BY KeptStep DEF AgentInv
<1> SUFFICES ASSUME NEW q \in PlanProc, status'[q] = "ready",
                    \A r \in PlanProc \ {q} : arg'[r] # None => arg'[r].id # arg'[q].id
             PROVE  planFile'[arg'[q].id] = [content |-> arg'[q].content, args |-> TRUE]
  BY DEF ReadyPlanIsKept
<1> USE ProcsDistinct, NoneDistinct DEF Procs
<1>2. status[q] = "ready" =>
        /\ arg[q] \in PlanArgs /\ arg'[q] = arg[q]
        /\ planFile[arg[q].id] = [content |-> arg[q].content, args |-> TRUE]
  <2> SUFFICES ASSUME status[q] = "ready"
               PROVE  /\ arg[q] \in PlanArgs /\ arg'[q] = arg[q]
                      /\ planFile[arg[q].id] = [content |-> arg[q].content, args |-> TRUE]
    OBVIOUS
  <2>1. arg[q] \in PlanArgs /\ arg'[q] = arg[q]
    BY <1>1 DEF AgentTypeOK, Unanswered, Kept
  <2>2. \A r \in PlanProc \ {q} : arg[r] # None => arg[r].id # arg[q].id
    BY <1>1, <2>1 DEF Kept
  <2> QED BY <1>1, <2>1, <2>2 DEF ReadyPlanIsKept
<1>3. CASE PlanProcess(q)
  <2>1. step[q] # "done"
    BY <1>3 DEF PlanProcess, PlanStart, PlanCreate, PlanWrite
  <2>2. PlanWrite(q) /\ arg'[q] = arg[q] /\ arg[q] \in PlanArgs
    BY <1>1, <1>3, <2>1
       DEF PlanProcess, PlanStart, PlanCreate, PlanWrite, Answer, Unanswered, AgentTypeOK
  <2>3. planFile' = [planFile EXCEPT ![arg[q].id] = [content |-> arg[q].content, args |-> TRUE]]
    BY <1>1, <2>2 DEF PlanWrite, Answer, AgentTypeOK
  <2> QED BY <1>1, <2>2, <2>3 DEF AgentTypeOK, PlanArgs
<1>4. ASSUME NEW r \in PlanProc, r # q, PlanProcess(r)
      PROVE  planFile'[arg'[q].id] = [content |-> arg'[q].content, args |-> TRUE]
  <2>1. status[q] = "ready"
    BY <1>1, <1>4 DEF PlanProcess, PlanStart, PlanCreate, PlanWrite, Answer, AgentTypeOK
  <2>2. CASE PlanStart(r)
    BY <1>2, <2>1, <2>2 DEF PlanStart, files
  <2>3. CASE PlanCreate(r) \/ PlanWrite(r)
    <3>1. arg[r] # None /\ arg'[r] = arg[r]
      BY <1>1, <2>3 DEF PlanCreate, PlanWrite, AgentTypeOK
    <3>2. arg'[q] = arg[q]
      BY <1>2, <2>1
    <3>3. arg[r].id # arg[q].id
      BY <1>4, <3>1, <3>2
    <3>4. arg[q].id \in PlanIds
      BY <1>2, <2>1 DEF PlanArgs
    <3>5. planFile'[arg[q].id] = planFile[arg[q].id]
      BY <1>1, <2>3, <3>3, <3>4 DEF PlanCreate, PlanWrite, AgentTypeOK
    <3> QED BY <1>2, <2>1, <3>2, <3>5
  <2> QED BY <1>4, <2>2, <2>3 DEF PlanProcess
<1>5. ASSUME NEW p \in ApplyProc, ApplyProcess(p) \/ CliChange(p) \/ CliExit(p)
      PROVE  planFile'[arg'[q].id] = [content |-> arg'[q].content, args |-> TRUE]
  <2>1. planFile' = planFile /\ status'[q] = status[q]
    BY <1>1, <1>5 DEF ApplyProcess, ApplyStart, ApplyLoad, ApplyCheck, ApplyLaunch, ApplyReturn,
       ApplyMark, ApplyPrint, CliChange, CliExit, Answer, AgentTypeOK, files
  <2> QED BY <1>2, <2>1
<1>6. ASSUME UNCHANGED agentVars \/ \E p \in PlanProc \cup ApplyProc : Kill(p)
      PROVE  planFile'[arg'[q].id] = [content |-> arg'[q].content, args |-> TRUE]
  BY <1>2, <1>6 DEF Kill, agentVars, files
<1> QED BY <1>3, <1>4, <1>5, <1>6 DEF AgentNext

LEMMA NextInv == AgentInv /\ [AgentNext]_agentVars => AgentInv'
  BY TypeStep, ProgressStep, ChangedStep, SuccessStep, ReadyStep DEF AgentInv

(* The inductive invariant holds. *)
THEOREM AgentInvariance == AgentSpec => []AgentInv
  BY InitInv, NextInv, PTL DEF AgentSpec

(* Every variable keeps its type. *)
THEOREM AgentTypeCorrect == AgentSpec => []AgentTypeOK
<1>1. AgentInv => AgentTypeOK
  BY DEF AgentInv
<1> QED BY <1>1, AgentInvariance, PTL

(* The repository is changed only by an approved plan of the hash asked for. *)
THEOREM OnlyApprovedPlansRun == AgentSpec => []ChangedAsApproved
<1>1. AgentInv => ChangedAsApproved
  BY DEF AgentInv
<1> QED BY <1>1, AgentInvariance, PTL

(* No marker and no "succeeded" without an execution under that key. *)
THEOREM NoEmptySuccess == AgentSpec => []SuccessIsEarned
<1>1. AgentInv => SuccessIsEarned
  BY DEF AgentInv
<1> QED BY <1>1, AgentInvariance, PTL

(* A ready plan stays loadable until its id is given to another plan. *)
THEOREM ReadyPlansLoad == AgentSpec => []ReadyPlanIsKept
<1>1. AgentInv => ReadyPlanIsKept
  BY DEF AgentInv
<1> QED BY <1>1, AgentInvariance, PTL

(* Only ApplyCheck leads to the launch, and only past a marker that is missing. *)
LEMMA CheckLooks ==
  ASSUME AgentInv, [AgentNext]_agentVars, NEW p \in ApplyProc, step[p] = "check", step'[p] = "launch"
  PROVE  arg[p].key \notin applied
<1>1. ApplyCheck(p)
  <2> USE ProcsDistinct DEF AgentInv, AgentTypeOK, Procs, Answer, Move
  <2>1. ASSUME NEW r \in ApplyProc, ApplyProcess(r) \/ CliChange(r) \/ CliExit(r)
        PROVE  ApplyCheck(p)
    BY <2>1 DEF ApplyProcess, ApplyStart, ApplyLoad, ApplyCheck, ApplyLaunch, ApplyReturn,
       ApplyMark, ApplyPrint, CliChange, CliExit
  <2>2. ASSUME NEW q \in PlanProc, PlanProcess(q) PROVE FALSE
    BY <2>2 DEF PlanProcess, PlanStart, PlanCreate, PlanWrite
  <2>3. ASSUME NEW r \in Procs, Kill(r) PROVE FALSE
    BY <2>3 DEF Kill
  <2>4. CASE UNCHANGED agentVars
    BY <2>4 DEF agentVars
  <2> QED BY <2>1, <2>2, <2>3, <2>4 DEF AgentNext
<1> QED BY <1>1, ProcsDistinct DEF ApplyCheck, Answer, AgentInv, AgentTypeOK, Procs

(* A key that was answered "succeeded" is not executed by a later check. *)
THEOREM RetriesRecognised == AgentSpec => RetryIsRecognised
<1>1. AgentInv /\ [AgentNext]_agentVars =>
        [\A p, o \in ApplyProc :
           step[p] = "check" /\ step'[p] = "launch" /\ SameKey(p, o) /\ status[o] = "succeeded"
             => writeFaults > 0]_agentVars
  <2> SUFFICES ASSUME AgentInv, [AgentNext]_agentVars,
                      NEW p \in ApplyProc, NEW o \in ApplyProc, step[p] = "check",
                      step'[p] = "launch", SameKey(p, o), status[o] = "succeeded"
               PROVE  writeFaults > 0
    OBVIOUS
  <2>1. arg[p].key \notin applied
    BY CheckLooks
  <2> QED BY <2>1 DEF AgentInv, Marked, SameKey
<1> QED BY <1>1, AgentInvariance, PTL DEF AgentSpec, RetryIsRecognised
=============================================================================
