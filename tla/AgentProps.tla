----------------------------- MODULE AgentProps -----------------------------
(***************************************************************************)
(* What the processes of Agent.tla guarantee, and what they do not.         *)
(***************************************************************************)
EXTENDS Agent

SameKey(p, o) == arg[p] # None /\ arg[o] # None /\ arg[p].key = arg[o].key

(* The process ran the CLI to the end, exit code 0, and the repository has changed. *)
Executed(p) == cli[p] = "ok" /\ changed[p]
-----------------------------------------------------------------------------
(* The repository is changed only by a process that was called with          *)
(* approved=true, and by the plan whose hash it was called with, even when    *)
(* the plan's file has been replaced meanwhile (a new plan of the same id).   *)
(* A process that answers that the plan was refused has not called the CLI.  *)
ChangedAsApproved ==
  \A p \in ApplyProc :
    /\ changed[p] => arg[p].approved /\ loaded[p] = [content |-> arg[p].content, args |-> TRUE]
    /\ status[p] \in {"aborted", "precondition_failed"} => cli[p] = "none"

(* A marker, and the answer "succeeded", stand for an execution: some process *)
(* with that key has run its plan with exit code 0.                          *)
SuccessIsEarned ==
  /\ \A k \in applied : \E o \in ApplyProc : Executed(o) /\ arg[o].key = k
  /\ \A p \in ApplyProc :
       status[p] = "succeeded" => \E o \in ApplyProc : Executed(o) /\ SameKey(p, o)

(* Once a process has answered "succeeded" no other process with its key goes *)
(* on to execute, unless the marker could not be written: a retry of what was *)
(* reported as done is recognised, also after a kill.                        *)
RetryIsRecognised ==
  [][\A p, o \in ApplyProc :
       step[p] = "check" /\ step'[p] = "launch" /\ SameKey(p, o) /\ status[o] = "succeeded"
         => writeFaults > 0]_agentVars

(* A plan answered "ready" can be loaded, whole and with its hash, from then *)
(* on, unless another plan was given its id.                                 *)
ReadyPlanIsKept ==
  \A q \in PlanProc :
    /\ status[q] = "ready"
    /\ \A r \in PlanProc \ {q} : arg[r] # None => arg[r].id # arg[q].id
    => planFile[arg[q].id] = [content |-> arg[q].content, args |-> TRUE]
=============================================================================
