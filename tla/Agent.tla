-------------------------------- MODULE Agent --------------------------------
(***************************************************************************)
(* alfresco-agent, src/skills/alfresco-agent/cmd/alfresco-agent/main.go: the *)
(* subcommands `plan` and `apply`.  Every invocation is a process of its     *)
(* own; they share two directories, one file per plan and one marker file    *)
(* per idempotency key, and lock neither.  `apply` runs the alfresco CLI in a *)
(* child process, which changes the repository.  Every plan has exactly one  *)
(* operation, and its content stands for its SHA-256: plan() appends one     *)
(* operation and hashes it, apply() compares the stored hash.                *)
(***************************************************************************)
EXTENDS Naturals

CONSTANTS
  PlanProc,     \* invocations of `plan`
  ApplyProc,    \* invocations of `apply`
  PlanIds,      \* file names of plans
  Contents,     \* contents of plans, one per hash
  Keys,         \* names of applied markers
  None,         \* no file, nothing loaded
  MaxFaults,    \* bound: failing writes in one behaviour
  MaxKills      \* bound: killed processes in one behaviour

VARIABLES
  planFile,     \* state/plans/<id>.json
  applied,      \* keys with a file in state/applied
  step,         \* next step of each process
  arg,          \* its arguments
  loaded,       \* the plan an apply process has read
  cli,          \* its CLI child: "none", "running", or its end
  changed,      \* whether that child has changed the repository
  status,       \* "status" of the JSON a process has printed
  writeFaults, kills

files == <<planFile, applied>>
child == <<cli, changed>>
bounds == <<writeFaults, kills>>
agentVars == <<files, step, arg, loaded, child, status, bounds>>

Procs == PlanProc \cup ApplyProc

(* Plans written before operations had `args` are still in state/plans: such *)
(* an operation is refused.  A file between truncation and write is Partial. *)
Partial == [content |-> None, args |-> FALSE]
Plan == [content : Contents, args : BOOLEAN]
File == Plan \cup {None, Partial}

PlanArgs == [id : PlanIds, content : Contents]
ApplyArgs == [id : PlanIds, content : Contents, key : Keys, approved : BOOLEAN]

ASSUME ProcsDistinct == PlanProc \cap ApplyProc = {}
ASSUME NoneDistinct == None \notin Plan \cup {Partial} \cup PlanArgs \cup ApplyArgs \cup Contents
ASSUME AgentBounds == MaxFaults \in Nat /\ MaxKills \in Nat

Ended == {"idle", "done", "killed"}
PlanSteps == {"create", "write"}
ApplySteps == {"load", "check", "launch", "wait", "mark", "print"}
Live(p) == step[p] \notin Ended

CliEnds == {"ok", "error", "help"}
Statuses == {"none", "ready", "blocked", "aborted", "failed", "precondition_failed", "succeeded"}

AgentTypeOK ==
  /\ planFile \in [PlanIds -> File]
  /\ applied \subseteq Keys
  /\ step \in [Procs -> Ended \cup PlanSteps \cup ApplySteps]
  /\ \A q \in PlanProc : step[q] \in Ended \cup PlanSteps
  /\ \A p \in ApplyProc : step[p] \in Ended \cup ApplySteps
  /\ arg \in [Procs -> PlanArgs \cup ApplyArgs \cup {None}]
  /\ \A q \in PlanProc : IF step[q] = "idle" THEN arg[q] = None ELSE arg[q] \in PlanArgs
  /\ \A p \in ApplyProc : IF step[p] = "idle" THEN arg[p] = None ELSE arg[p] \in ApplyArgs
  /\ loaded \in [ApplyProc -> Plan \cup {None}]
  /\ cli \in [ApplyProc -> CliEnds \cup {"none", "running"}]
  /\ changed \in [ApplyProc -> BOOLEAN]
  /\ status \in [Procs -> Statuses]
  /\ writeFaults \in 0..MaxFaults
  /\ kills \in 0..MaxKills

AgentInit ==
  /\ planFile \in [PlanIds -> {None} \cup [content : Contents, args : {FALSE}]]
  /\ applied = {}
  /\ step = [p \in Procs |-> "idle"]
  /\ arg = [p \in Procs |-> None]
  /\ loaded = [p \in ApplyProc |-> None]
  /\ cli = [p \in ApplyProc |-> "none"]
  /\ changed = [p \in ApplyProc |-> FALSE]
  /\ status = [p \in Procs |-> "none"]
  /\ writeFaults = 0
  /\ kills = 0
-----------------------------------------------------------------------------
Move(p, from, to) == step[p] = from /\ step' = [step EXCEPT ![p] = to]

(* printJSON and exit code 0, whatever the status. *)
Answer(p, s) ==
  /\ step' = [step EXCEPT ![p] = "done"]
  /\ status' = [status EXCEPT ![p] = s]

WriteFault == writeFaults < MaxFaults /\ writeFaults' = writeFaults + 1
-----------------------------------------------------------------------------
(* plan.  newID joins the second and four random digits: an id may be one    *)
(* that is taken.  A request that is incomplete, or whose node is not a file, *)
(* is answered "blocked".                                                    *)
PlanStart(q) ==
  /\ step[q] = "idle"
  /\ \E i \in PlanIds, c \in Contents : arg' = [arg EXCEPT ![q] = [id |-> i, content |-> c]]
  /\ \/ Move(q, "idle", "create") /\ UNCHANGED status
     \/ Answer(q, "blocked")
  /\ UNCHANGED <<files, loaded, child, bounds>>

(* savePlan: os.WriteFile truncates the file, then writes it. *)
PlanCreate(q) ==
  /\ step[q] = "create"
  /\ \/ /\ planFile' = [planFile EXCEPT ![arg[q].id] = Partial]
        /\ Move(q, "create", "write")
        /\ UNCHANGED <<status, writeFaults>>
     \/ WriteFault /\ Answer(q, "blocked") /\ UNCHANGED planFile
  /\ UNCHANGED <<applied, arg, loaded, child, kills>>

(* Mistake: the error of savePlan is ignored. *)
PlanWriteUnchecked(q) ==
  /\ step[q] = "write"
  /\ Answer(q, "ready")
  /\ \/ /\ planFile' = [planFile EXCEPT ![arg[q].id] = [content |-> arg[q].content, args |-> TRUE]]
        /\ UNCHANGED writeFaults
     \/ WriteFault /\ UNCHANGED planFile
  /\ UNCHANGED <<applied, arg, loaded, child, kills>>

PlanWrite(q) ==
  /\ step[q] = "write"
  /\ \/ /\ planFile' = [planFile EXCEPT ![arg[q].id] = [content |-> arg[q].content, args |-> TRUE]]
        /\ Answer(q, "ready")
        /\ UNCHANGED writeFaults
     \/ WriteFault /\ Answer(q, "blocked") /\ UNCHANGED planFile
  /\ UNCHANGED <<applied, arg, loaded, child, kills>>

PlanProcess(q) == PlanStart(q) \/ PlanCreate(q) \/ PlanWrite(q)
-----------------------------------------------------------------------------
(* apply.  A missing key is replaced by a generated one, in Keys like any    *)
(* other: nothing keeps it from being taken.                                 *)
ApplyStart(p) ==
  /\ step[p] = "idle"
  /\ arg' \in {[arg EXCEPT ![p] = a] : a \in ApplyArgs}
  /\ \/ Move(p, "idle", "load") /\ UNCHANGED status
     \/ Answer(p, "aborted")            \* no plan id, or no hash
  /\ UNCHANGED <<files, loaded, child, bounds>>

(* Unreadable, of another hash, not approved (with or without confirmation), *)
(* or accepted: from here on the process works with what it has read.        *)
ApplyLoad(p) ==
  /\ step[p] = "load"
  /\ LET plan == planFile[arg[p].id] IN
       \/ plan \notin Plan /\ Answer(p, "failed") /\ UNCHANGED loaded
       \/ /\ plan \in Plan /\ plan.content # arg[p].content
          /\ Answer(p, "precondition_failed") /\ UNCHANGED loaded
       \/ /\ plan \in Plan /\ plan.content = arg[p].content /\ ~arg[p].approved
          /\ Answer(p, "aborted") /\ UNCHANGED loaded
       \/ /\ plan \in Plan /\ plan.content = arg[p].content /\ arg[p].approved
          /\ Move(p, "load", "check")
          /\ loaded' = [loaded EXCEPT ![p] = plan]
          /\ UNCHANGED status
  /\ UNCHANGED <<files, arg, child, bounds>>

(* Mistake: the marker is not looked at. *)
ApplyCheckSkipped(p) ==
  /\ Move(p, "check", "launch")
  /\ UNCHANGED <<files, arg, loaded, child, status, bounds>>

(* alreadyApplied: the marker answers for the key, whatever plan it was for. *)
ApplyCheck(p) ==
  /\ step[p] = "check"
  /\ \/ arg[p].key \in applied /\ Answer(p, "succeeded")
     \/ arg[p].key \notin applied /\ Move(p, "check", "launch") /\ UNCHANGED status
  /\ UNCHANGED <<files, arg, loaded, child, bounds>>

(* Mistake: the plan is read again when it is run. *)
ApplyLaunchReload(p) ==
  /\ step[p] = "launch"
  /\ planFile[arg[p].id] \in Plan
  /\ loaded' = [loaded EXCEPT ![p] = planFile[arg[p].id]]
  /\ Move(p, "launch", "wait") /\ cli' = [cli EXCEPT ![p] = "running"]
  /\ UNCHANGED <<files, arg, changed, status, bounds>>

(* The operation loop, of one operation. *)
ApplyLaunch(p) ==
  /\ step[p] = "launch"
  /\ \/ ~loaded[p].args /\ Answer(p, "failed") /\ UNCHANGED cli
     \/ /\ loaded[p].args
        /\ Move(p, "launch", "wait")
        /\ cli' = [cli EXCEPT ![p] = "running"]
        /\ UNCHANGED status
  /\ UNCHANGED <<files, arg, loaded, changed, bounds>>

(* The child reaches the repository once (its retries are the HTTP client's, *)
(* and repeat the same request), and exits: 1 if a request failed or got no   *)
(* answer, which may have been served, 0 otherwise; without a command it      *)
(* recognises it prints its help and exits with 0.                            *)
CliChange(p) ==
  /\ cli[p] = "running" /\ ~changed[p]
  /\ changed' = [changed EXCEPT ![p] = TRUE]
  /\ UNCHANGED <<files, step, arg, loaded, cli, status, bounds>>

CliExit(p) ==
  /\ cli[p] = "running"
  /\ \E end \in {"error"} \cup (IF changed[p] THEN {"ok"} ELSE {"help"}) :
       cli' = [cli EXCEPT ![p] = end]
  /\ UNCHANGED <<files, step, arg, loaded, changed, status, bounds>>

(* Mistake: exit code 0 is enough. *)
ApplyReturnHelp(p) ==
  /\ step[p] = "wait"
  /\ \/ cli[p] \in {"ok", "help"} /\ Move(p, "wait", "mark") /\ UNCHANGED status
     \/ cli[p] = "error" /\ Answer(p, "failed")
  /\ UNCHANGED <<files, arg, loaded, child, bounds>>

(* looksLikeTopLevelHelp turns exit code 0 into 2. *)
ApplyReturn(p) ==
  /\ step[p] = "wait"
  /\ \/ cli[p] = "ok" /\ Move(p, "wait", "mark") /\ UNCHANGED status
     \/ cli[p] \in {"error", "help"} /\ Answer(p, "failed")
  /\ UNCHANGED <<files, arg, loaded, child, bounds>>

(* Mistake: the marker is named after the plan. *)
ApplyMarkPlan(p) ==
  /\ Move(p, "mark", "print")
  /\ \/ applied' = applied \cup {arg[p].id} /\ UNCHANGED writeFaults
     \/ WriteFault /\ UNCHANGED applied
  /\ UNCHANGED <<planFile, arg, loaded, child, status, kills>>

(* markApplied's error is ignored; the file exists once it is opened. *)
ApplyMark(p) ==
  /\ Move(p, "mark", "print")
  /\ \/ applied' = applied \cup {arg[p].key} /\ UNCHANGED writeFaults
     \/ WriteFault /\ UNCHANGED applied
  /\ UNCHANGED <<planFile, arg, loaded, child, status, kills>>

ApplyPrint(p) ==
  /\ step[p] = "print"
  /\ Answer(p, "succeeded")
  /\ UNCHANGED <<files, arg, loaded, child, bounds>>

ApplyProcess(p) ==
  \/ ApplyStart(p) \/ ApplyLoad(p) \/ ApplyCheck(p) \/ ApplyLaunch(p)
  \/ ApplyReturn(p) \/ ApplyMark(p) \/ ApplyPrint(p)
-----------------------------------------------------------------------------
(* A process is killed, or its machine restarts: the files stay.  Its child  *)
(* may go on or stop: CliChange and CliExit stay possible and owe nothing.   *)
Kill(p) ==
  /\ kills < MaxKills
  /\ Live(p)
  /\ kills' = kills + 1
  /\ step' = [step EXCEPT ![p] = "killed"]
  /\ UNCHANGED <<files, arg, loaded, child, status, writeFaults>>

AgentNext ==
  \/ \E q \in PlanProc : PlanProcess(q)
  \/ \E p \in ApplyProc : ApplyProcess(p) \/ CliChange(p) \/ CliExit(p)
  \/ \E p \in Procs : Kill(p)

AgentSpec == AgentInit /\ [][AgentNext]_agentVars
=============================================================================
