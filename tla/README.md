# Verification of alfresco-go-cli

The repository is a Go CLI for the Alfresco content repository (`src/alfresco.go`,
`src/cmd`, `src/httpclient`), an agent that wraps it in `resolve`, `plan` and `apply`
commands (`src/skills/alfresco-agent`), and an HTTP gateway that puts an approval between
plan and apply (`src/cmd/api`, `src/internal`). What a user relies on is a chain: nothing
is written to the repository without an approval, what is written is what was approved,
it is written once, and what is reported is what happened. The chain runs through several
processes, three database tables, files and retries, none of which is locked. This
directory models that chain in TLA+, checks it with TLC and proves its main safety
properties with TLAPS.

## Inventory

| Component | State it keeps | Operations | Hard behaviour | What makes it correct |
|---|---|---|---|---|
| Gateway HTTP server, `src/cmd/api/main.go` | none of its own beyond requests in flight | `handlePlan`, `handleApply`, `handleApprovals` (decision), `executeApprovedApply`; `handleResolve` and GET handlers | one goroutine per request, several database calls per handler without a transaction, a failing call after another succeeded, a crash in the middle | no execution without an accepted decision; no dangling rows; honest and durable answers; at most one execution |
| SQLite state store, `src/internal/state/sqlite.go` | tables `approvals`, `operations`, `idempotency` | create and decide an approval, put operation, put key, reads | `DecideApproval` is a SELECT and an UPDATE by id | a decided approval stays decided |
| In-memory approval store, `src/internal/approval/store.go` | map of records under a mutex | `Create`, `Get`, `Decide` | none (mutex) | the atomic `Decide` that the table should behave like |
| Executor, `src/internal/executor/executor.go` | none | `Resolve`, `Plan`, `Apply`: launch an agent process, wait, parse | no timeout; the child survives the gateway | the result is that of the process launched |
| Audit logger, `src/internal/audit/logger.go` | index in memory, JSONL file | `Append`, `ByTrace` | index lost at restart, write errors ignored by the caller | the decision precedes the execution it allowed |
| alfresco-agent plan and apply, `src/skills/alfresco-agent/.../main.go` | plan files, applied markers | `plan`, `apply` | processes share files without locks; file ids may collide; markers and execution are apart | only the approved plan runs; success stands for an execution; retries are recognised |
| alfresco-agent resolve, same file | `memory.json` of past choices | `resolve` | traversal with depth limit and paging, failed listings skipped, folders that change meanwhile | all that could be listed is judged, each entry once; a resolved node beats the rest by the margin |
| HTTP client, `src/httpclient/http-client.go` | settings | `Execute`, `ExecuteUploadContent`, `ExecuteDownloadContent` | retries, a pipe fed by a goroutine, broken bodies | bounded attempts; success means complete content |
| CLI node commands, folder upload and download, `src/cmd/node` | none | create, update, get, list, delete, upload-folder, download-folder | goroutine per file, paging loop, node created and content not | every file once; the loop ends |
| Authentication and role checks, `src/internal/auth` | none | middleware, HS256, Entra OIDC | none: functions of one request | role required per endpoint |
| Request validation, `src/internal/validation` | none | `Validate*` | none | incomplete requests are refused before any write |
| CLI start and config commands, `src/cmd/root.go`, `src/cmd/config`, `src/nativestore` | `.alfresco` in the working directory, the key ring | the start of every command, config set, config delete, the lookup of a request | processes share file and key ring without locks; the start of a command writes; set has two steps, the second fails silently | no credentials to another server; the file names no server without credentials; what was set is kept |
| CLI people and group | none | one request each | none of their own | |
| Output formats, `src/alfresco.go` | none | printing | none | |

How they interact: a client calls the gateway (`/v1/plan`, `/v1/apply`), which runs the
agent's `plan` through the executor, or stores an approval. An approver lists approvals
and posts a decision; an accepted `approve` makes the same request run the agent's `apply`
as a child process, which runs the CLI as its own child, which calls the repository's REST
API through the HTTP client. Gateway requests share only the tables and the audit index;
agent processes share only the plan and marker files. Every invocation of the CLI, by hand or by the
agent, starts by reading `.alfresco` and ends by taking credentials from the key ring.

## Modules

| Module | Models | Uses |
|---|---|---|
| `StateStore` | the three tables and one action per SQL statement | |
| `Gateway` | the handlers, as goroutines with one step per database call; failures and crashes | `StateStore` |
| `ApprovalStore` | the in-memory store: the abstract specification of the approvals table | |
| `GatewayProps` | properties, the client assumption `SerialSpec`, the refinement mapping | `Gateway`, `ApprovalStore` |
| `MCGateway`, `MCGateway_*.cfg` | instances for TLC | `GatewayProps` |
| `GatewayProofs`, `GatewaySerialProofs` | TLAPS proofs | `GatewayProps` |
| `Agent` | invocations of `plan` and `apply`, their files, the CLI child | |
| `AgentProps` | properties | `Agent` |
| `MCAgent`, `MCAgent_*.cfg` | instances for TLC | `AgentProps` |
| `AgentProofs` | TLAPS proofs | `AgentProps` |
| `HttpClient` | executions of HTTP requests: retries, lost and late answers, the upload pipe, the file of a download | |
| `HttpClientProps` | properties | `HttpClient` |
| `MCHttpClient`, `MCHttpClient_*.cfg` | instances for TLC | `HttpClientProps` |
| `HttpClientProofs` | TLAPS proofs | `HttpClientProps` |
| `Resolve` | one `resolve`: traversal of the roots, paged listings, scores, decision; other clients that change folders | |
| `ResolveProps` | properties, with a reference definition of the scope | `Resolve` |
| `MCResolve`, `MCResolve_*.cfg` | instances for TLC | `ResolveProps` |
| `ResolveProofs` | TLAPS proofs | `ResolveProps` |
| `Folders` | the processes of `upload-folder` and `download-folder`: tree walk, goroutine per file, wait group, panics | |
| `FoldersProps` | properties | `Folders` |
| `MCFolders`, `MCFolders_*.cfg` | instances for TLC | `FoldersProps` |
| `FoldersProofs` | TLAPS proofs | `FoldersProps` |
| `System` | the gateway with the agent processes it starts and the audit file | `Gateway`, `Agent` |
| `SystemProps` | properties from decision to repository, the clients of `SessionSpec` | `System`, `GatewayProps` |
| `MCSystem`, `MCSystem_session.cfg` | instance for TLC | `SystemProps` |
| `SystemProofs` | TLAPS proofs | `SystemProps`, `GatewaySerialProofs`, `AgentProofs` |
| `Config` | invocations of the CLI over `.alfresco` and the key ring | |
| `ConfigProps` | properties | `Config` |
| `MCConfig`, `MCConfig_core.cfg` | instance for TLC | `ConfigProps` |
| `ConfigProofs` | TLAPS proofs | `ConfigProps` |

Definitions whose comment begins with "Mistake:" are not part of any specification: each is
the definition that follows it with a plausible bug, and shows that the property named for
it can fail.

### Gateway

`pc[r]` is where request `r`'s goroutine stands, named for the call it makes next:

* plan: `lookup` (GetIdempotency) → `exec` (agent `plan`) → `putOp` → `putKey` → `log`;
* apply: `lookup` → `create` (CreateApproval) → `putOp` → `putKey` → `log`;
* decision: `check` (SELECT of DecideApproval) → `update` (its UPDATE) → `logDecision`, and
  for `approve` → `reload` (GetApproval in `executeApprovedApply`) → `agent` → `putResult`
  or `putFailed` → `logResult` or `logFailed`.

`idle`, `done` and `lost` mean not yet arrived, answered, and in flight when the process
crashed. `approvals`, `operations` and `idempotency` are the tables; `Crash` keeps them and
empties `audit`. The request stands for the ids `newUUID` draws for it. `run[d]` is the
agent process launched by decision `d`: `executor.run` uses `exec.Command` without a
context, so a crash of the gateway does not end it and `AgentRun` stays possible.

Abstracted: role checks and validation are one refusal (they read the request only, before
any write); trace ids, timestamps, names and notes; the `result` column. The GET handlers
change nothing. `DbError` stands for any error of any call (SQLite without a busy timeout
fails under contention).

Worth knowing, and not visible as a property of this model: a replayed `/v1/plan` or
`/v1/apply` is answered with the stored operation, a JSON object of another shape than the
first answer, with the status it had when stored; a plan the agent answered with `blocked`
is recorded as `planned`; `openapi.v1.yaml` lists `[planned, rejected]` for that status. The
409 "Idempotency conflict" of that file is returned by no handler: a key alone decides, and a
key used with another plan is answered with the operation of the first.

### Agent

`step[p]` is where an invocation stands. `plan`: `create` (the truncation by
`os.WriteFile`) → `write`. `apply`: `load` (plan file, hash, approved) → `check`
(`alreadyApplied`) → `launch` → `wait` (for the CLI) → `mark` (`markApplied`) → `print`.
`cli[p]` and `changed[p]` are its CLI child and whether that has changed the repository.
A content stands for its hash. That hash is the one stored in the file: `apply` compares it
with the request and never computes it again, so a file altered by hand is outside the
model. A plan has one operation, since every branch of `plan()` appends one. Initial plan
files are absent or of the old format without `args`, as the two in
`src/skills/alfresco-agent/state/plans`. Preconditions are stored as text in the plan and
nothing evaluates them, although `SKILL.toml` describes `require_preconditions` as
"enforce precondition fields".

The agent's key is the optional `idempotency_key` of the request body. The gateway's
`Idempotency-Key` header is never passed on: the two mechanisms are independent, and a
client that sends only the header has no protection in the agent.

Worth knowing: the applied marker is per key. A second plan that is applied with a used key is
answered `succeeded` and is not executed (`SuccessIsEarned` therefore speaks of the key, not of
the plan).

### Resolve

`root` is the index of the root at work, `queue` and `visited` are the locals of its loop,
`current` is the folder in `fetchAllChildren` and `listed` what its pages have shown. A queue
entry is the path of nodes from the root, so its depth is its length less one. Each page is one
call of the CLI; `FetchFails` is any error of it, after which the folder is skipped with the
pages it has shown. `Change` is another client that adds or removes an entry, also between two
pages. `hides` are folders with entries the user may not see, which announce more items after
the last page; the loop then ends with an empty one. `Decide` is the code after the traversal:
duplicate penalties, the stable sort (its first element and the score of its second), the cut to
`max_candidates`, the thresholds.

The score of a node is given by a table. Its parts are pure functions of request and entry; the
part that depends on the path (`scorePath`) is taken to be the same on all paths to a node. The
reference in `ResolveProps` defines the scope by distance from the root over the steady folders,
those that did not fail or change.

Worth knowing: a listing that fails is skipped without a trace in the answer, so `resolved` is
relative to what could be listed. Overlapping roots, and secondary children, make one node
several candidates, which compete with each other: the answer is `ambiguous`. `mergeBool` turns
`require_unique: false` of a request file into true.

### System

`System` extends `Gateway` and takes `Agent` as an instance: the `plan` process of a plan request
`q` is process `q` of `Agent`, the `apply` process of decision `d` is process `d`, and the keys of
`Agent` are `BodyKeys`, the `idempotency_key` of request bodies, which nothing ties to the
`Idempotency-Key` headers of `Gateway`. Two steps of `Gateway` are made real: `PlanExec` becomes
`PlanLaunch`, the steps of the process, and `PlanReturn`, which takes the plan id from its
output; `ExecLaunch` and `AgentRun` become `ApplyLaunched` or `ApplyNotLaunched`, the process, and
`ApplyExit`, which takes its status. `LaunchArgs` is what `executeApprovedApply` and
`CLIExecutor.Apply` hand over: plan id and hash of the stored request, `approved=true`, and the
key, or none, in which case the process makes one up. A process that was killed or could not be
started is an error; one that refuses its plan exits with 0 and says so in its JSON. A crash of
the gateway leaves the processes running, and the audit file as it is.

Every other step is one of `Gateway` or of `Agent` with the rest unchanged: `PlanHandler`,
`ApplyHandler`, `DecideHandler` and `Outside`, each with what `Append` does to the file, and
`PlanProcess`, `ApplyProcess`, `CliProcess` and `Kill`.

Worth knowing: "succeeded" of an operation stands for an execution under its key, which may be
that of another operation (`OperationIsHonest`); without a body key every retry executes again.

### Config

`at[p]` is where an invocation is: `read` and `wipe` (init in `root.go`: a file that cannot be read
is replaced by an empty one), `run`, and for `config set` after the key ring `open` and `write`, the
two steps of `viper.WriteConfig`. `config[p]` is what it has read. The two lookups of a request
are `config[p]`, from its start, and `store`, at the time it sends. A server stands for the four
settings that are written with it. `exit` `killed` is a process that was killed; what it did stays.
The key ring is external: `pass` on Linux, which may say that there is nothing to delete or not.

Worth knowing: `config delete` takes the credentials out of the key ring and leaves the file as it
is (`viper.Set` without `WriteConfig`), although its help says "ACS Client configuration is
removed from local ".alfresco" file"; a file that is not YAML is emptied by the next command, whatever
it is; and a command that starts beside the first `config set` may empty what that has written and
reported as set (`SetIsKept` names this case and excludes it).

### HttpClient

An execution is one call of `Execute`, `ExecuteUploadContent` or `ExecuteDownloadContent`.
`at[e]` is where it is: `await` (in `client.Do`), `sleep` (between attempts), `body` (copying
the response), `done`. `attempt` is the loop variable of `doRequestWithRetry`, `reply` the
answer to the current attempt, `result` what the call returned. The server is external: it
may carry out a request or reject it, at any time after it was sent, also when the client no
longer waits (`inflight` outlives the attempt), and its answer may be lost (`Fail`) or break
off (`BodyBroken`). `pipe` and `sent` are the goroutine that feeds an upload; it closes the
pipe in the same way after the whole file and after a failed open or read. The server stores
content only when the pipe was closed in order, since a broken one breaks the chunked body.
`file` is the file a download writes to.

All executions are about one node, the case in which they can disturb each other. Left out:
URLs, headers, TLS, credentials, the error of closing the downloaded file, and the retries
that Go's transport makes by itself on a reused connection. Worth knowing: a DELETE that was
carried out and whose answer was lost is retried and then refused with 404, so it is reported
as failed (`CarriedOutOnce` is about requests that are not retried); a delayed PUT may take
effect after the retry that replaced it, and after a later PUT of another command
(`NothingAfterOk` excludes PUT).

### Folders

One process. `main` is where its main goroutine is; `visited`, `tree` and `hiddenPaths` are the
state of the upload's walk, `frames` the calls of `getChildren` in progress with what is left
of their page; `job[i]` is the goroutine of file `i` and `group` the counter of the wait group.
`placed` and `under` are what the repository (upload) or the file system (download) has got.
The tree is any tree whose numbering is the order of `filepath.WalkDir`. A call that fails may
have had its effect, as `HttpClient` shows. `ExitWithError` panics: in the main goroutine the
root command recovers it and the process ends with code 1 whatever goroutines are running; in
any other goroutine `wg.Done` runs by `defer` and the process ends with code 2. In between,
main may pass `wg.Wait`. When it returns then, the Go runtime lets the panicking goroutine end
the process first; it yields to it a bounded number of times until the panic is marked, which
the model takes as enough. Nothing happens after the exit.

`readable` says which files an upload can open and read to their end; it is an input, since each is read
once. One that is not readable does not fail: `ExecuteUploadContent` logs the error and closes the
pipe as after a whole file (`Sent`), so its node has a part of the content, or none, and the command
may exit with 0. `UploadIsComplete` therefore promises whole content for readable files only, and at
least a node for the others.

`inPlace` is FALSE for a download with a `-d` other than the working directory: folders are
made below `-d`, files are written without it. Paths are as the flags describe them ("complete
path", no trailing slash). A file that is downloaded again by the loop over pages has one
goroutine at a time in the model.

## Runs

| Run | Instance | Shows |
|---|---|---|
| `gateway_core` | 1 apply request, 2 decisions, 1 key, 1 failing call, 1 crash, `FairSpec` | what holds whatever clients do; every request is answered; what is approved is executed unless something fails |
| `gateway_keys` | 2 plan and 2 apply requests, 2 keys, 2 plan ids, 1 failing call, 1 crash | tables never dangle, acknowledged requests stay |
| `gateway_double` | 1 apply request, 2 decisions | two decisions are both accepted (violation) |
| `gateway_outcome` | 1 apply request, 1 decision | the result of an approval is overwritten (violation) |
| `agent_core` | 2 plan and 2 apply processes, 2 ids, 2 contents, 2 keys, 1 failing write, 1 kill | what runs is what was approved, success is earned |
| `http_core` | 2 executions of any kind on one node, 1 retry, files of 2 chunks, 1 failing file call | creations and uploads happen once, success is earned, content is whole, everything ends |
| `http_truncated` | 1 execution | an upload whose file cannot be read to the end is reported ok (violation) |
| `resolve_core` | repositories of 4 nodes, 1 or 2 roots (the second inside the first), pages of 2, depths 1, 2 and the default 4, 1 failing listing, 1 changed folder | all that could be listed is judged, once for each root; a resolved node beats the rest; an answer comes |
| `folders_core` | all trees of 4 entries, any of them hidden, any file unreadable, pages of 2, 1 failing call | nodes are made in place, exit code 0 means complete (but for what could not be read) and at rest, commands end |
| `folders_paging` | all trees of 3 entries, pages of 1, no failures | of a root with two files the first is downloaded for ever, the second never (violation) |
| `system_session` | 1 plan and 2 apply requests, 2 decisions, 2 header keys, 2 body keys, 2 contents, 1 failing call, crash or kill, `SessionSpec` | the repository is changed by what was approved only; statuses are honest; a retry is recognised; the decision is on disk; refinement of `ApprovalStore` |
| `config_core` | 3 invocations, 2 servers, 2 pairs of credentials, 1 failing call | credentials stay with their server; a named server is usable; what was set is kept |

Bounds. The number of requests and processes is the size of a constant set. Races in this
code are between two actors on one row or one file, so two of each kind show them. Keys and plan ids are
compared for equality only and rows of different keys are independent: one suffices where a
property is about approvals, two where it is about keys or about plans. `MaxFaults`,
`MaxCrashes` and `MaxKills` are 1: recovery keeps no count of failures, and a second
failure of a request is not possible since the first ends it. `MaxRetries` = 1 has a first, a
last and no attempt in between; the condition compares the attempt with the bound only, and
the proofs are for every bound. Four entries are enough for a hidden directory with a directory
and a file in it, for a folder of two pages, and for two files at work while a third fails;
the properties were also checked with five. Four nodes are enough for a folder that two paths
lead to, for three levels below a root, for a folder of two pages, and for two candidates of one
name on two sites; the score tables have margins on both sides of 8 and of 15. Three invocations of the CLI are enough for a set, a delete and a command between them, and for two sets
over which a request reads. The
bounds of `Gateway`, `Agent`, `System`, `Config`, `HttpClient`, `Folders` and `Resolve` are absent from their
proofs, which are for every value of the constants.

`SessionSpec`. The whole path of a change is long, and most of its interleavings are those of
`gateway_core`, `gateway_keys` and `agent_core` over again. `system_session` therefore takes clients
that do one thing after the other (`InSession`): one plan or apply request is in flight at a time, an
apply names a plan that was answered, and a key; an approver decides what is listed, after the
request has ended; no two decisions on one approval are in flight together. Decisions on
different approvals, their processes, the crash, the kills and the processes that outlive the
gateway interleave as they may. `MaxTroubles` = 1: one failing database call, failing write of
an agent, failing write of the audit file, kill or crash, at any step. The proofs make good what
this leaves out: `SystemProofs` shows `SysTypeOK`, `ChangeWasApproved`, `OperationIsHonest`,
`AuditFileTellsTheDecision` and `ReportedIsNotRepeated` for `SysSpec`, whose clients race as they
like, without any bound. `RunMatchesDecision`, `OneApprovalPerKey` and `ImplementsApprovalStore`
do need clients that do not race, and are proved for `SessionSpec`.

`CHECK_DEADLOCK FALSE`: the requests of an instance are finite, and when all are answered
the system stops. A folder command ends, and so does a `resolve`.

Fairness. `FairSpec` assumes weak fairness of each goroutine and of each agent process: the
Go scheduler runs them, SQLite calls return, and the CLI behind the agent has an HTTP
timeout and a bounded number of retries. Clients, failing calls and crashes owe nothing. No
liveness is claimed after a crash, since nothing resumes the work: `ApprovedIsExecuted` says
"executed, or a call failed, or the process crashed". `FairHttpSpec` is fair to the client and
to the goroutine that feeds an upload: `http.Client` is given a timeout, so waiting ends. The
server owes nothing. `FairFolderSpec` is fair to the main goroutine and to each goroutine of a
file, for the same reasons; `CommandEnds` leaves out downloads with a folder of several pages,
which `folders_paging` is about. `FairResolveSpec` is fair to the one process: each call of the CLI
ends (`http_core`). A client that adds entries as fast as they are listed would keep it going;
`MaxChanges` excludes that.

## What the runs found

* `gateway_double`: `DecideApproval` checks the status in one statement and updates by id in
  another. Two concurrent decisions are both accepted; the agent may run twice, or run for
  an approval that ends as rejected. `executeApprovedApply` reads the row again and does not
  look at its status.
* `gateway_outcome`: an approval can be decided as soon as `CreateApproval` has committed.
  When the decision is executed before the apply handler's `PutOperation`, that call
  overwrites the result with `pending_approval`, for good.
* `http_truncated`: when the goroutine of `ExecuteUploadContent` cannot open or read the file
  it logs that and closes the pipe in order. The server stores what it got, possibly nothing,
  and the command reports success. `node create` and `upload-folder` rest on it: `upload-folder`
  exits with 0 and leaves such a file (`Sent` in `Folders`).
* `folders_paging`: the loop over further pages of `getChildren` requests page two into one
  buffer and parses page one from another, so it downloads page one for ever.

Not a run, and worth knowing: in `resolve` the candidates are cut to `max_candidates` before the
second score is taken from them. With `max_candidates` 1, which validation allows, the delta is
the whole score, and any node of 85 and more is `resolved` with band `high` however many equal
ones there are, although `SKILL.toml` describes `require_unique` as "require unique
high-confidence winner". `ResolvedIsUnique` names this case and excludes it.

## Proofs

All theorems are for every value of the constants under the ASSUMEs of the modules: sets of
requests (processes) of different kinds are disjoint, `None` is none of the values it is
compared with, bounds are natural numbers, and, for the tables, operation ids of apply
requests (UUIDs) are not plan ids (`plan-...`).

**Gateway** (`GatewayProofs`, about `Spec`). The inductive invariant `IInv` is the conjunction
of the type invariant, the checked invariants and what they need to be inductive:
`InputsArrived` (a request past `idle` has its inputs), `ApplyProgress`, `PlanProgress`,
`DecideProgress` and `RunProgress` (which rows exist, which decision is stored and how far the
agent is at each step), `AuditProgress` and `RepliesEnd` (an answer is the last thing a
request does). It is needed because no property says by itself why a step finds what it
finds: `AckedRequestIsDurable` at `ApplyFinish` needs that the three writes before it are
still there, which needs `RowsStay`: no step of any request removes what was written,
answered or decided. `WhoWrites` lists the steps that write each variable; with it each
conjunct is proved for the few steps that can disturb it. `NextIInv` puts the conjuncts
together and the theorems follow by temporal logic.

Two theorems go beyond the checked properties. `OutcomesAreShown` is the positive side of
`gateway_outcome`, where the apply handler's `PutOperation` comes after the result of the decision and
overwrites it. Under `[]AnsweredFirst` (nobody decides before the apply request was answered, or its process
crashed) no such write is still to come, so the final status stays. `ApprovalsAreInHand`: while nothing
failed or crashed, whoever approved last (`by`) has yet to launch the agent or has launched it (`InHand`).
It holds for racing clients too, where an accepted decision may overwrite another.

**Gateway, clients that do not race** (`GatewaySerialProofs`, about `SerialSpec`). `SerialInv`
adds `DecisionKept` (between a decision's SELECT and UPDATE the row is pending, after it the
row is its own) and `KeyHeld` (a key with an approval is held by a request in flight or by
its row). From it: `ExecutedAtMostOnce`, `ExecutedAsDecided`, `KeysDeduplicate`, and
`TableImplementsStore`, the refinement of `ApprovalStore` with `records <- approvals`: an
UPDATE is an atomic `Decide`, every other step stutters. The assumption cannot be dropped:
`gateway_double` is a counterexample without it.
`OneDecisionIsAccepted` is the positive side of that run: with `AcceptedKept` (who was told 200
is named in the row, for good) a second decision is never accepted.

**Agent** (`AgentProofs`, about `AgentSpec`). `AgentInv` adds to the checked invariants
`ApplyProgress` (from `check` on a process is approved and holds the plan it was asked for,
its child exists only after `launch`, exit code 0 means the repository changed),
`Unanswered` and `Marked` (who says `succeeded` has left the marker, unless a write failed).

**HTTP client** (`HttpClientProofs`, about `HttpSpec`). `HttpInv` says how far an execution and the
server are: `Progress` (what is on the wire belongs to an attempt that was made, a result is
there exactly when the execution is done), `OnceProgress` (what is not repeated is in its first
attempt, which is either on the wire or handled), `OkProgress` (an accepted answer stands for an
effect), `UploadProgress` and `DownloadProgress` (a pipe closed in order was fed the whole file,
while files can be read; a fragment belongs to a download under way). `CarriedOutOnce` needs
`OnceProgress`: without it a request could still be on the wire after it was handled.
`ExecutionMakesHeadway` bounds an execution: `AttemptsLeft` (attempts still allowed, and the place in
this one) and `FeedLeft` (pieces still to go into the pipe) are natural numbers, each step of
the execution lowers the pair, and the server and other executions leave it alone.

**Folder commands** (`FoldersProofs`, about `FolderSpec`). `FolderInv` has three parts besides the
types. `Counting`: the wait group's counter is the number of goroutines that have yet to call
`Done`; `JobsStep` shows that every step starts one, ends one or leaves them alone.
`UploadProgress`, for each entry: visited, it is hidden, has an id, or is a file with a
goroutine; what has a goroutine or a node has a parent with an id. `MainProgress`: main returns
when the counter is zero. `ParentMade` is the heart: the walk meets an entry that is not
passed over only after its directory was given an id, so the fallback to the target folder is
taken for the root alone. Completeness follows because at exit code 0 everything was visited,
nothing is counted, and a goroutine that has ended has sent the file, or what could be read of it.

`DownloadIsComplete` needs a history the program does not keep: which folders `getChildren` has been
called for. `DownloadProgress` says that some set `entered` of folders would do (`Reached`): it holds
the root and the folder of every call in progress; what is in an entered folder is entered itself,
or is a file with a goroutine, or is in the `todo` of a call in progress, unless the folder has several
pages; and of those there is still a call. Each step shows how `entered` grows: by the folder that is
called for, or not at all (`EnteredReached`, `ReachedStays`). When the wait begins no call is left, so
no entered folder has several pages, and by induction along the tree (`AllReached`) every file
has got its goroutine; `EndedIsWhole` and the wait group do the rest.

`CommandMakesHeadway`: `Measure` counts, in this order, whether the process runs, the stage of main, the
entries that the walk or `getChildren` has still to come to, the calls of `getChildren` in progress, and
the steps the goroutines have left. Every step lowers it, since what a page holds is taken from it
once (`Apart`). `OnePage` excludes a download with a folder of several pages, which need not end
(`folders_paging`). The other half says that where main waits on a counter that is not zero, there
is a goroutine that has yet to call `Done`.

**Resolve** (`ResolveProofs`, about `ResolveSpec`). Assumed of the inputs (`ResolveInputs`): their
types, and that a folder lists no node twice. `TypeInv` adds to the types when a folder is being listed;
`ListedInv` that the pages seen so far are a prefix of a folder nobody has changed; `OnceInv`, for
`CandidatesOnce`, that candidates come from visited folders and those of one folder from one listing.
`SweepInv` is the invariant of a breadth-first search. It says that there is a map `dep` of the folders
visited from this root to the depth at which they were dequeued, such that every folder that is an
entry of a steady visited folder is visited or queued at a depth at most one more (`Swept`), and
the queue is in the order of depths, spans at most two of them, and holds nothing less deep than what
was visited (`QueueInOrder`). Without the order nothing excludes that a folder is visited by a long way,
at the depth limit, and what is below it is lost for the short way; that is the mistake a `visited`
set invites. At the end the recursive reference `FoldersWithin` is inside what was visited, by
induction over depths. `FoundInv` and `TopInv` keep this for the roots that are finished, and
`AnswerInv` takes the winner from it: the head of the stable sort, the second score, and the
duplicate penalties, which `SitesOf` makes a property of names. `AnswerIsFinal`: after the answer nothing
moves.

`SearchMakesHeadway`: the measure is whether the agent works, the roots left, the folders not yet visited,
whether a folder is being listed, and the items left of its listing (or the length of the queue).
A step of the agent lowers it, and a change another client makes does not touch it, although it may
change what is listed: a page moves on by at least one item or ends the listing. `LessIsWellFounded`
proves that there is no infinite descent.

Induction over numbers is done with sets (`LeastNumber`, `SetInduction`, from the well-foundedness of
`<`), since the induction theorems of the library take operators; recursive functions (`Kept`,
`FoldersWithin`) are first shown to exist, then to satisfy their equations.

**The composed system** (`SystemProofs`, about `SysSpec`). It is proved to implement both its
parts, so that their theorems hold in it: `SystemHasAgents` (`AgentSpec`, with the instance's
substitution) needs no invariant, since every step is one of an agent or leaves the agents
alone. `SystemIsGateway` (`Spec`) does: `Gateway` lets a run end with a status of `AgentEnds`, or a
plan id of `PlanIds`, and that a process ends so is for the agent to keep. `SysInv` joins `IInv` and
`AgentInv`, which are taken over with their step lemmas, by `Processes` and `AuditKept`. `Processes`:
a process exists only for a run, it was called with the arguments of the approval's request
(which stay what they are: `LaunchArgsStay`), and the end of a run is the status of its process; in
particular it was called with `approved=true`, so that it never ends as `aborted`. `AuditKept`: while
the file can be written it holds all that the index holds, and the decision behind every run also
when a crash has emptied the index. The properties across the parts then follow from one link
each: `ChangeWasApproved` from `ApplyProgress` of the agent, `Processes`, and `NoRunWithoutDecision` of
the gateway; `OperationIsHonest` from `StatusIsEarned`, `Processes`, and `SuccessIsEarned`;
`ReportedIsNotRepeated` from these and `Marked`. `SessionIsSerial` shows that the clients of
`SessionSpec` are clients of `SerialSpec`, and `SessionKeepsPromises` that they also decide after the
answer, so that what the documents say of decisions and final statuses is true of a session.

**CLI start and config commands** (`ConfigProofs`, about `ConfigSpec`). `ConfigInv` adds to the
properties `Arguments` (what an invocation has been given goes with its command and its step),
`StoreGiven` (a pair in the key ring was given by a `config set` for that server), `SetHasStored`
(between the two steps of `config set` its credentials are there, unless deleted meanwhile) and
`FileThere` (only a process that could not read the file is about to empty it). Without
`SetHasStored` nothing says that the server which `WriteConfig` writes down is usable; `StoreGiven`
carries `CredentialsOfTheServer` over sets and deletes that happen between the start of a request
and its lookup.

`IInv`, `AgentInv`, `HttpInv`, `FolderInv`, `DownloadProgress`, `ConfigInv`, `Processes` and `AuditKept`, and of
`ResolveInv` the parts `ListedInv`, `OnceInv`, `SweepInv` and `AnswerInv`, were checked by TLC on the
instances above before they were proved; so were the measures and `ApprovedInHand`.

Only model-checked: liveness (`EveryRequestAnswered`, `ApprovedIsExecuted`, `NothingHangs`,
`CommandEnds`, `ResolveEnds`), since it needs the fairness of actions, whose ENABLED the prover does not
expand, and the violations. What liveness rests on is proved as safety, except for
`EveryRequestAnswered`: `ExecutionMakesHeadway`, `CommandMakesHeadway` and `SearchMakesHeadway` say
that there are only so many steps to make, `ApprovalsAreInHand` that an approval is never forgotten.
What is left to TLC is that the next step is enabled and taken.

## Plan

1. Done: `StateStore`, `Gateway`, `ApprovalStore`, `Agent`, `HttpClient`, `Folders`, their runs
   and proofs; `Resolve` and its runs.
2. Done: `System`, its run, and the proofs that it implements `Gateway` and `Agent`; `Config`, its
   run and proofs.
3. Done: `ResolveProofs`, and `DownloadIsComplete` in `FoldersProofs`; with them every invariant
   and action property of the passing runs is proved; the safety halves of liveness.

Not modelled, and why:

* Authentication and role checks (`src/internal/auth`, `requireRoles`): a function of one request and
  its token. They keep no state, and refuse before a handler reads or writes anything; a table of
  endpoint and role would restate `requireRoles`. Signatures and key discovery are libraries.
* Request validation: per-field tests of one request, which appear as the refusal step of the
  handlers. That it comes after the lookup of the key is modelled, since a replay is answered
  without it.
* `handleResolve` and `Executor.Resolve`: they pass a request to the `resolve` of `Resolve` and its
  answer back, store nothing, and log one event that no property tells from any other.
* The GET handlers, `ListApprovals` and `ByTrace`: reads of one table or of the index, which the
  properties read directly.
* node get, list, delete and update, people and group commands: one or two requests in a row, each
  of which `HttpClient` models.
* Output formats, flags, the rendering of approval cards: no decision a property could be about.
