------------------------------ MODULE HttpClient ------------------------------
(***************************************************************************)
(* src/httpclient/http-client.go: executions of HTTP requests by the CLI,    *)
(* against a server that may answer late, lose its answer or break it off.   *)
(* An execution is one call of Execute, ExecuteUploadContent or              *)
(* ExecuteDownloadContent.  All of them are about one node of the repository *)
(* (a "post" creates a child of it).  An upload is fed by a goroutine, the   *)
(* producer, through a pipe; a download is written to a file.                *)
(***************************************************************************)
EXTENDS Naturals

CONSTANTS
  Exec,         \* executions
  Chunks,       \* length of the local file of an upload
  MaxRetries,   \* maxRetries, --http-retries
  MaxFaults     \* bound: failing calls on local files in one behaviour

VARIABLES
  kind,         \* what each execution is
  at,           \* where it is in doRequestWithRetry
  attempt,      \* its loop variable
  inflight,     \* <<execution, attempt>> sent and not yet handled by the server
  reply,        \* the answer to the current attempt, "none" before it arrives
  result,       \* what the execution has returned
  deleted,      \* the node has been deleted
  effects,      \* how often the server has carried out each execution
  pipe, sent,   \* end of an upload's pipe, and the chunks written to it
  stored,       \* chunks the server has stored as content
  file,         \* the local file of a download
  faults

server == <<inflight, deleted, effects, stored>>
producer == <<pipe, sent>>
httpVars == <<kind, at, attempt, reply, result, server, producer, file, faults>>

ASSUME HttpBounds == Chunks \in Nat /\ MaxRetries \in Nat /\ MaxFaults \in Nat

Reads == {"get", "download"}
Kinds == Reads \cup {"put", "delete", "post", "upload"}

(* "busy": 408, 429 and from 500 on; "refused": all others but 200, 201, 204. *)
Replies == {"ok", "busy", "refused"}
Results == {"none", "ok", "refused", "failed"}

HttpTypeOK ==
  /\ kind \in [Exec -> Kinds]
  /\ at \in [Exec -> {"idle", "await", "sleep", "body", "done"}]
  /\ attempt \in [Exec -> 0..MaxRetries]
  /\ inflight \subseteq Exec \X (0..MaxRetries)
  /\ reply \in [Exec -> Replies \cup {"none"}]
  /\ result \in [Exec -> Results]
  /\ deleted \in BOOLEAN
  /\ effects \in [Exec -> Nat]
  /\ pipe \in [Exec -> {"none", "open", "eof", "broken"}]
  /\ sent \in [Exec -> 0..Chunks]
  /\ stored \in [Exec -> 0..Chunks]
  /\ file \in [Exec -> {"none", "old", "partial", "complete"}]
  /\ faults \in 0..MaxFaults

HttpInit ==
  /\ kind \in [Exec -> Kinds]
  /\ at = [e \in Exec |-> "idle"]
  /\ attempt = [e \in Exec |-> 0]
  /\ inflight = {}
  /\ reply = [e \in Exec |-> "none"]
  /\ result = [e \in Exec |-> "none"]
  /\ deleted = FALSE
  /\ effects = [e \in Exec |-> 0]
  /\ pipe = [e \in Exec |-> "none"]
  /\ sent = [e \in Exec |-> 0]
  /\ stored = [e \in Exec |-> 0]
  /\ file \in [Exec -> {"none", "old"}]
  /\ faults = 0
-----------------------------------------------------------------------------
Goto(e, to) == at' = [at EXCEPT ![e] = to] /\ UNCHANGED result

Return(e, r) ==
  /\ at' = [at EXCEPT ![e] = "done"]
  /\ result' = [result EXCEPT ![e] = r]

Fault == faults < MaxFaults /\ faults' = faults + 1

(* Mistake: a POST is repeated, as if it were a GET. *)
RetryableAlsoPost(e) == kind[e] # "upload"
(* An upload is a PUT, which isRetryableMethod accepts, but it is sent       *)
(* without doRequestWithRetry: its body cannot be read twice.                *)
Retryable(e) == kind[e] \in {"get", "download", "put", "delete"}

(* Mistake: one attempt too many. *)
ShouldRetryOnceMore(e) == attempt[e] <= MaxRetries /\ Retryable(e)
ShouldRetry(e) == attempt[e] < MaxRetries /\ Retryable(e)

(* Mistake: the loop falls through after the last attempt. *)
RetryOrReturnOk(e, r) == IF ShouldRetry(e) THEN Goto(e, "sleep") ELSE Return(e, "ok")
RetryOrReturn(e, r) == IF ShouldRetry(e) THEN Goto(e, "sleep") ELSE Return(e, r)

(* client.Do begins. *)
Send(e, n) ==
  /\ Goto(e, "await")
  /\ inflight' = inflight \cup {<<e, n>>}
  /\ UNCHANGED <<deleted, effects, stored>>

(* Connection details and credentials may be missing: nothing is sent. *)
Start(e) ==
  /\ at[e] = "idle"
  /\ \/ Return(e, "failed") /\ UNCHANGED <<server, pipe>>
     \/ /\ Send(e, 0)
        /\ pipe' = IF kind[e] = "upload" THEN [pipe EXCEPT ![e] = "open"] ELSE pipe
  /\ UNCHANGED <<kind, attempt, reply, sent, file, faults>>

(* Mistake: uploads have no timeout. *)
FailNotUpload(e) ==
  /\ at[e] = "await" /\ kind[e] # "upload"
  /\ RetryOrReturn(e, "failed")
  /\ inflight' \in {inflight, inflight \ {<<e, attempt[e]>>}}
  /\ reply' = [reply EXCEPT ![e] = "none"]
  /\ UNCHANGED <<kind, attempt, deleted, effects, stored, producer, file, faults>>
(* client.Do returns an error: a timeout, or the connection broke.  The      *)
(* server may have handled the request, may do so later, or never.           *)
Fail(e) ==
  /\ at[e] = "await"
  /\ RetryOrReturn(e, "failed")
  /\ inflight' \in {inflight, inflight \ {<<e, attempt[e]>>}}
  /\ reply' = [reply EXCEPT ![e] = "none"]
  /\ UNCHANGED <<kind, attempt, deleted, effects, stored, producer, file, faults>>

Wake(e) ==
  /\ at[e] = "sleep"
  /\ attempt' = [attempt EXCEPT ![e] = @ + 1]
  /\ Send(e, attempt[e] + 1)
  /\ UNCHANGED <<kind, reply, producer, file, faults>>

ReceiveStatus(e) ==
  /\ at[e] = "await"
  /\ \/ reply[e] = "busy" /\ RetryOrReturn(e, "failed")
     \/ reply[e] = "refused" /\ Return(e, "refused")
  /\ reply' = [reply EXCEPT ![e] = "none"]
  /\ UNCHANGED <<kind, attempt, server, producer, file, faults>>

(* The handler of an accepted response; a download creates, and so empties,  *)
(* the file.                                                                 *)
ReceiveOk(e) ==
  /\ at[e] = "await"
  /\ reply[e] = "ok"
  /\ \/ /\ Goto(e, "body")
        /\ file' = IF kind[e] = "download" THEN [file EXCEPT ![e] = "partial"] ELSE file
        /\ UNCHANGED faults
     \/ /\ kind[e] = "download"
        /\ Fault
        /\ Return(e, "failed")
        /\ UNCHANGED file
  /\ UNCHANGED <<kind, attempt, reply, server, producer>>

BodyRead(e) ==
  /\ at[e] = "body"
  /\ Return(e, "ok")
  /\ file' = IF kind[e] = "download" THEN [file EXCEPT ![e] = "complete"] ELSE file
  /\ UNCHANGED <<kind, attempt, reply, server, producer, faults>>

(* Mistake: the fragment of a broken download stays. *)
BodyBrokenKeepsFile(e) ==
  /\ at[e] = "body"
  /\ Return(e, "failed")
  /\ UNCHANGED <<kind, attempt, reply, server, producer, file, faults>>
(* io.Copy fails, on either side: no retry.  A download removes its file and *)
(* ignores whether that succeeds.                                            *)
BodyBroken(e) ==
  /\ at[e] = "body"
  /\ Return(e, "failed")
  /\ \/ /\ file' = IF kind[e] = "download" THEN [file EXCEPT ![e] = "none"] ELSE file
        /\ UNCHANGED faults
     \/ kind[e] = "download" /\ Fault /\ UNCHANGED file
  /\ UNCHANGED <<kind, attempt, reply, server, producer>>
-----------------------------------------------------------------------------
(* The producer copies the file into the pipe as long as the transport reads *)
(* it, and closes the pipe, which the server sees as the end of the content. *)
(* When opening or reading the file fails it logs that and closes the pipe   *)
(* the same way.                                                             *)
Reading(e) == pipe[e] = "open" /\ at[e] = "await"

Produce(e) ==
  /\ Reading(e)
  /\ sent[e] < Chunks
  /\ sent' = [sent EXCEPT ![e] = @ + 1]
  /\ UNCHANGED <<kind, at, attempt, reply, result, server, pipe, file, faults>>

ProducerStops(e) ==
  /\ pipe' = [pipe EXCEPT ![e] = "eof"]
  /\ UNCHANGED <<kind, at, attempt, reply, result, server, sent, file>>

(* Mistake: the pipe is closed after the first write. *)
ProduceEndEarly(e) == Reading(e) /\ ProducerStops(e) /\ UNCHANGED faults
ProduceEnd(e) == Reading(e) /\ sent[e] = Chunks /\ ProducerStops(e) /\ UNCHANGED faults

ProduceFails(e) == Reading(e) /\ sent[e] < Chunks /\ Fault /\ ProducerStops(e)

(* Mistake: the pipe is closed for an error of client.Do only. *)
PipeBreaksOnFailure(e) ==
  /\ pipe[e] = "open"
  /\ result[e] = "failed"
  /\ pipe' = [pipe EXCEPT ![e] = "broken"]
  /\ UNCHANGED <<kind, at, attempt, reply, result, server, sent, file, faults>>
(* The transport closes its end of the pipe when the request has ended: the  *)
(* next write of the producer fails.                                         *)
PipeBreaks(e) ==
  /\ pipe[e] = "open"
  /\ at[e] = "done"
  /\ pipe' = [pipe EXCEPT ![e] = "broken"]
  /\ UNCHANGED <<kind, at, attempt, reply, result, server, sent, file, faults>>
-----------------------------------------------------------------------------
(* The server handles a request it has received, whether or not the client   *)
(* still waits.  It deletes once, and stores the content it got.             *)
Answer(e, n, r) ==
  /\ inflight' = inflight \ {<<e, n>>}
  /\ reply' = IF at[e] = "await" /\ attempt[e] = n THEN [reply EXCEPT ![e] = r] ELSE reply
  /\ UNCHANGED <<kind, at, attempt, result, producer, file, faults>>

CarryOut(e, n) ==
  /\ <<e, n>> \in inflight
  /\ ~deleted
  /\ kind[e] = "upload" => pipe[e] = "eof"
  /\ effects' = IF kind[e] \in Reads THEN effects ELSE [effects EXCEPT ![e] = @ + 1]
  /\ deleted' = (kind[e] = "delete")
  /\ stored' = IF kind[e] = "upload" THEN [stored EXCEPT ![e] = sent[e]] ELSE stored
  /\ \E r \in {"ok", "busy"} : Answer(e, n, r)

Reject(e, n) ==
  /\ <<e, n>> \in inflight
  /\ \E r \in {"busy", "refused"} : Answer(e, n, r)
  /\ UNCHANGED <<deleted, effects, stored>>
-----------------------------------------------------------------------------
ClientStep(e) ==
  Fail(e) \/ Wake(e) \/ ReceiveStatus(e) \/ ReceiveOk(e) \/ BodyRead(e) \/ BodyBroken(e)

ProducerStep(e) == Produce(e) \/ ProduceEnd(e) \/ ProduceFails(e) \/ PipeBreaks(e)

ServerStep == \E m \in inflight : CarryOut(m[1], m[2]) \/ Reject(m[1], m[2])

HttpNext ==
  \/ \E e \in Exec : Start(e) \/ ClientStep(e) \/ ProducerStep(e)
  \/ ServerStep

HttpSpec == HttpInit /\ [][HttpNext]_httpVars

(* http.Client has a timeout, so waiting ends; the Go scheduler runs the     *)
(* goroutines.  The server owes nothing.                                     *)
FairHttpSpec ==
  /\ HttpSpec
  /\ \A e \in Exec : WF_httpVars(ClientStep(e)) /\ WF_httpVars(ProducerStep(e))
=============================================================================
