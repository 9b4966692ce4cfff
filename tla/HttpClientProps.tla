---------------------------- MODULE HttpClientProps ----------------------------
(* What the HTTP client promises to the commands built on it. *)
EXTENDS HttpClient

Once == {"post", "upload"}

(* What the client does not repeat the server does at most once, however     *)
(* late or lost its answers are, and never when it was refused by status: a  *)
(* creation and the sending of its content are not retried, so no earlier    *)
(* attempt can have done what the last one was refused (isRetryableMethod,   *)
(* shouldRetry, ExecuteUploadContent).                                       *)
CarriedOutOnce ==
  \A e \in Exec : kind[e] \in Once =>
    effects[e] <= 1 /\ (result[e] = "refused" => effects[e] = 0)

(* A command that is told a write succeeded was answered for a write that    *)
(* the server carried out, also after retries (doRequestWithRetry).          *)
OkIsEarned == \A e \in Exec : result[e] = "ok" /\ kind[e] \notin Reads => effects[e] >= 1

(* The client knows what the server has done: not twice what must be done    *)
(* once, not less than it reports.                                           *)
EffectsAreKnown == CarriedOutOnce /\ OkIsEarned

(* After a download has ended, its local file is whole when it was reported  *)
(* ok, and never a fragment, unless a call on the local file failed          *)
(* (ExecuteDownloadContent creates the file, copies, removes it on error).   *)
DownloadIsWhole ==
  \A e \in Exec : kind[e] = "download" =>
    /\ result[e] = "ok" => file[e] = "complete"
    /\ result[e] # "none" /\ faults = 0 => file[e] # "partial"

(* What `node create` says: "a local file can be also specified to be        *)
(* associated as the content of the new node" (cmd/node/create.go:84).  When *)
(* the upload is reported ok, the server has the whole file.                 *)
UploadIsWhole == \A e \in Exec : kind[e] = "upload" /\ result[e] = "ok" => stored[e] = Chunks

(* The same, unless a call on the local file failed.                         *)
UploadIsWholeIfRead == faults = 0 => UploadIsWhole

(* Content is whole on both ways. *)
ContentIsWhole == DownloadIsWhole /\ UploadIsWholeIfRead

(* Nothing is done for an execution after it was reported ok, except that a  *)
(* PUT of which an earlier attempt is still on its way is repeated.          *)
NothingAfterOk ==
  [][\A e \in Exec : result[e] = "ok" /\ kind[e] # "put" => effects'[e] = effects[e]]_httpVars

(* Every execution ends: waiting, sleeping and retrying are bounded.         *)
EveryExecutionEnds == \A e \in Exec : at[e] = "await" ~> at[e] = "done"

(* The goroutine that feeds an upload ends, also when the server answers     *)
(* before it has read the content (io.Pipe in ExecuteUploadContent).         *)
ProducersEnd == \A e \in Exec : pipe[e] = "open" ~> pipe[e] # "open"

(* Nothing of an execution hangs, neither its caller nor its goroutine. *)
NothingHangs == EveryExecutionEnds /\ ProducersEnd
=============================================================================
