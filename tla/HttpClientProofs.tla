--------------------------- MODULE HttpClientProofs ---------------------------
(***************************************************************************)
(* Proofs that HttpSpec has the properties of HttpClientProps.tla, for any   *)
(* number of executions, retries and chunks.                                 *)
(***************************************************************************)
EXTENDS HttpClientProps, TLAPS

(* Only an execution under way has requests on the wire, up to the current   *)
(* attempt; it has a result exactly when it is done.                         *)
Progress ==
  /\ \A m \in inflight : at[m[1]] # "idle" /\ m[2] <= attempt[m[1]]
  /\ \A e \in Exec :
       /\ at[e] = "idle" => attempt[e] = 0 /\ effects[e] = 0
       /\ at[e] = "sleep" => attempt[e] < MaxRetries
       /\ at[e] = "done" <=> result[e] # "none"
       /\ at[e] \in {"idle", "sleep"} => reply[e] = "none"
       /\ at[e] = "body" \/ result[e] = "ok" => reply[e] = "ok"

(* What is not repeated is in its first attempt, which is on the wire or has *)
(* been handled; what the client was told is how it was handled.             *)
OnceProgress ==
  \A e \in Exec : kind[e] \in Once =>
    /\ attempt[e] = 0 /\ at[e] # "sleep"
    /\ effects[e] \in {0, 1}
    /\ <<e, 0>> \in inflight => effects[e] = 0 /\ reply[e] = "none"
    /\ reply[e] = "refused" \/ result[e] = "refused" => effects[e] = 0 /\ <<e, 0>> \notin inflight

(* An accepted answer stands for an effect; a node is deleted once. *)
OkProgress ==
  \A e \in Exec : reply[e] = "ok" =>
    /\ kind[e] \notin Reads => effects[e] >= 1
    /\ kind[e] = "delete" => deleted

(* While local files can be read, a pipe ends after the last chunk. *)
UploadProgress ==
  \A e \in Exec :
    /\ pipe[e] = "eof" /\ faults = 0 => sent[e] = Chunks
    /\ kind[e] = "upload" /\ effects[e] >= 1 /\ faults = 0 => stored[e] = Chunks

DownloadProgress ==
  \A e \in Exec :
    /\ file[e] = "partial" => kind[e] = "download" /\ (at[e] = "body" \/ faults > 0)
    /\ kind[e] = "download" /\ result[e] = "ok" => file[e] = "complete"

HttpInv ==
  HttpTypeOK /\ Progress /\ OnceProgress /\ OkProgress /\ UploadProgress /\ DownloadProgress

LEMMA HttpInitInv == HttpInit => HttpInv
<1> SUFFICES ASSUME HttpInit PROVE HttpInv
  OBVIOUS
<1> USE HttpBounds DEF HttpInit
<1>1. file \in [Exec -> {"none", "old", "partial", "complete"}]
  OBVIOUS
<1>2. HttpTypeOK
  <2>1. kind \in [Exec -> Kinds] /\ file \in [Exec -> {"none", "old", "partial", "complete"}]
    BY <1>1
  <2>2. 0 \in 0..MaxRetries /\ 0 \in 0..Chunks /\ 0 \in 0..MaxFaults /\ 0 \in Nat
    OBVIOUS
  <2> QED BY <2>1, <2>2 DEF HttpTypeOK, Results
<1>3. Progress /\ OnceProgress /\ OkProgress /\ UploadProgress /\ DownloadProgress
  BY DEF Progress, OnceProgress, OkProgress, UploadProgress, DownloadProgress
<1> QED BY <1>2, <1>3 DEF HttpInv

LEMMA OnTheWire ==
  ASSUME HttpTypeOK, NEW m \in inflight
  PROVE  /\ m[1] \in Exec /\ m[2] \in 0..MaxRetries
         /\ m = <<m[1], m[2]>>
BY DEF HttpTypeOK

LEMMA HttpTypes ==
  ASSUME HttpTypeOK, Progress, [HttpNext]_httpVars
  PROVE  HttpTypeOK'
<1> USE HttpBounds DEF HttpTypeOK, server, producer, Goto, Return, Fault, Progress, Results
<1>1. ASSUME NEW e \in Exec, Start(e) PROVE HttpTypeOK'
  BY <1>1 DEF Start, Send
<1>2. ASSUME NEW e \in Exec, Fail(e) PROVE HttpTypeOK'
  BY <1>2 DEF Fail, RetryOrReturn, ShouldRetry, Retryable
<1>3. ASSUME NEW e \in Exec, Wake(e) PROVE HttpTypeOK'
  BY <1>3 DEF Wake, Send
<1>4. ASSUME NEW e \in Exec, ReceiveStatus(e) PROVE HttpTypeOK'
  BY <1>4 DEF ReceiveStatus, RetryOrReturn, ShouldRetry, Retryable
<1>5. ASSUME NEW e \in Exec, ReceiveOk(e) PROVE HttpTypeOK'
  BY <1>5 DEF ReceiveOk
<1>6. ASSUME NEW e \in Exec, BodyRead(e) PROVE HttpTypeOK'
  BY <1>6 DEF BodyRead
<1>7. ASSUME NEW e \in Exec, BodyBroken(e) PROVE HttpTypeOK'
  BY <1>7 DEF BodyBroken
<1>8. ASSUME NEW e \in Exec, ProducerStep(e) PROVE HttpTypeOK'
  BY <1>8 DEF ProducerStep, Produce, ProduceEnd, ProduceFails, PipeBreaks, ProducerStops, Reading
<1>9. ASSUME NEW e \in Exec, NEW n \in 0..MaxRetries, CarryOut(e, n) PROVE HttpTypeOK'
  BY <1>9 DEF CarryOut, Answer, Replies
<1>10. ASSUME NEW e \in Exec, NEW n \in 0..MaxRetries, Reject(e, n) PROVE HttpTypeOK'
  BY <1>10 DEF Reject, Answer, Replies
<1>11. CASE UNCHANGED httpVars
  BY <1>11 DEF httpVars
<1> QED BY <1>1, <1>2, <1>3, <1>4, <1>5, <1>6, <1>7, <1>8, <1>9, <1>10, <1>11, OnTheWire DEF HttpNext, ClientStep, ServerStep

LEMMA ProgressStep ==
  ASSUME HttpTypeOK, Progress, [HttpNext]_httpVars
  PROVE  Progress'
<1> USE HttpBounds DEF HttpTypeOK, server, producer, Goto, Return, Fault, Progress, Results
<1>1. ASSUME NEW e \in Exec, Start(e) PROVE Progress'
  BY <1>1 DEF Start, Send
<1>2. ASSUME NEW e \in Exec, Fail(e) PROVE Progress'
  BY <1>2 DEF Fail, RetryOrReturn, ShouldRetry, Retryable
<1>3. ASSUME NEW e \in Exec, Wake(e) PROVE Progress'
  BY <1>3 DEF Wake, Send
<1>4. ASSUME NEW e \in Exec, ReceiveStatus(e) PROVE Progress'
  BY <1>4 DEF ReceiveStatus, RetryOrReturn, ShouldRetry, Retryable
<1>5. ASSUME NEW e \in Exec, ReceiveOk(e) PROVE Progress'
  BY <1>5 DEF ReceiveOk
<1>6. ASSUME NEW e \in Exec, BodyRead(e) PROVE Progress'
  BY <1>6 DEF BodyRead
<1>7. ASSUME NEW e \in Exec, BodyBroken(e) PROVE Progress'
  BY <1>7 DEF BodyBroken
<1>8. ASSUME NEW e \in Exec, ProducerStep(e) PROVE Progress'
  BY <1>8 DEF ProducerStep, Produce, ProduceEnd, ProduceFails, PipeBreaks, ProducerStops, Reading
<1>9. ASSUME NEW e \in Exec, NEW n \in 0..MaxRetries, CarryOut(e, n) PROVE Progress'
  BY <1>9 DEF CarryOut, Answer, Replies
<1>10. ASSUME NEW e \in Exec, NEW n \in 0..MaxRetries, Reject(e, n) PROVE Progress'
  BY <1>10 DEF Reject, Answer, Replies
<1>11. CASE UNCHANGED httpVars
  BY <1>11 DEF httpVars
<1> QED BY <1>1, <1>2, <1>3, <1>4, <1>5, <1>6, <1>7, <1>8, <1>9, <1>10, <1>11, OnTheWire DEF HttpNext, ClientStep, ServerStep

LEMMA OnceStep ==
  ASSUME HttpTypeOK, Progress, OnceProgress, [HttpNext]_httpVars
  PROVE  OnceProgress'
<1> USE HttpBounds DEF HttpTypeOK, server, producer, Goto, Return, Fault, Progress, OnceProgress, Once, Reads
<1>1. ASSUME NEW e \in Exec, Start(e) PROVE OnceProgress'
  BY <1>1 DEF Start, Send
<1>2. ASSUME NEW e \in Exec, Fail(e) PROVE OnceProgress'
  BY <1>2 DEF Fail, RetryOrReturn, ShouldRetry, Retryable
<1>3. ASSUME NEW e \in Exec, Wake(e) PROVE OnceProgress'
  BY <1>3 DEF Wake, Send
<1>4. ASSUME NEW e \in Exec, ReceiveStatus(e) PROVE OnceProgress'
  BY <1>4 DEF ReceiveStatus, RetryOrReturn, ShouldRetry, Retryable
<1>5. ASSUME NEW e \in Exec, ReceiveOk(e) PROVE OnceProgress'
  BY <1>5 DEF ReceiveOk
<1>6. ASSUME NEW e \in Exec, BodyRead(e) PROVE OnceProgress'
  BY <1>6 DEF BodyRead
<1>7. ASSUME NEW e \in Exec, BodyBroken(e) PROVE OnceProgress'
  BY <1>7 DEF BodyBroken
<1>8. ASSUME NEW e \in Exec, ProducerStep(e) PROVE OnceProgress'
  BY <1>8 DEF ProducerStep, Produce, ProduceEnd, ProduceFails, PipeBreaks, ProducerStops, Reading
<1>9. ASSUME NEW e \in Exec, NEW n \in 0..MaxRetries, CarryOut(e, n) PROVE OnceProgress'
  BY <1>9 DEF CarryOut, Answer, Replies
<1>10. ASSUME NEW e \in Exec, NEW n \in 0..MaxRetries, Reject(e, n) PROVE OnceProgress'
  BY <1>10 DEF Reject, Answer, Replies
<1>11. CASE UNCHANGED httpVars
  BY <1>11 DEF httpVars
<1> QED BY <1>1, <1>2, <1>3, <1>4, <1>5, <1>6, <1>7, <1>8, <1>9, <1>10, <1>11, OnTheWire DEF HttpNext, ClientStep, ServerStep

LEMMA OkStep ==
  ASSUME HttpTypeOK, Progress, OkProgress, [HttpNext]_httpVars
  PROVE  OkProgress'
<1> USE HttpBounds DEF HttpTypeOK, server, producer, Goto, Return, Fault, Progress, OkProgress
<1>1. ASSUME NEW e \in Exec, Start(e) PROVE OkProgress'
  BY <1>1 DEF Start, Send
<1>2. ASSUME NEW e \in Exec, Fail(e) PROVE OkProgress'
  BY <1>2 DEF Fail, RetryOrReturn, ShouldRetry, Retryable
<1>3. ASSUME NEW e \in Exec, Wake(e) PROVE OkProgress'
  BY <1>3 DEF Wake, Send
<1>4. ASSUME NEW e \in Exec, ReceiveStatus(e) PROVE OkProgress'
  BY <1>4 DEF ReceiveStatus, RetryOrReturn, ShouldRetry, Retryable
<1>5. ASSUME NEW e \in Exec, ReceiveOk(e) PROVE OkProgress'
  BY <1>5 DEF ReceiveOk
<1>6. ASSUME NEW e \in Exec, BodyRead(e) PROVE OkProgress'
  BY <1>6 DEF BodyRead
<1>7. ASSUME NEW e \in Exec, BodyBroken(e) PROVE OkProgress'
  BY <1>7 DEF BodyBroken
<1>8. ASSUME NEW e \in Exec, ProducerStep(e) PROVE OkProgress'
  BY <1>8 DEF ProducerStep, Produce, ProduceEnd, ProduceFails, PipeBreaks, ProducerStops, Reading
<1>9. ASSUME NEW e \in Exec, NEW n \in 0..MaxRetries, CarryOut(e, n) PROVE OkProgress'
  <2>1. CASE kind[e] = "delete"
    <3>1. deleted' = TRUE
      BY <1>9, <2>1 DEF CarryOut
    <3> QED BY <1>9, <2>1, <3>1 DEF CarryOut, Answer, Replies
  <2>2. CASE kind[e] # "delete"
    <3>1. \A x \in Exec : reply[x] = "ok" => kind[x] # "delete"
      BY <1>9 DEF CarryOut
    <3> QED BY <1>9, <2>2, <3>1 DEF CarryOut, Answer, Replies
  <2> QED BY <2>1, <2>2
<1>10. ASSUME NEW e \in Exec, NEW n \in 0..MaxRetries, Reject(e, n) PROVE OkProgress'
  BY <1>10 DEF Reject, Answer, Replies
<1>11. CASE UNCHANGED httpVars
  BY <1>11 DEF httpVars
<1> QED BY <1>1, <1>2, <1>3, <1>4, <1>5, <1>6, <1>7, <1>8, <1>9, <1>10, <1>11, OnTheWire DEF HttpNext, ClientStep, ServerStep

LEMMA UploadStep ==
  ASSUME HttpTypeOK, Progress, UploadProgress, [HttpNext]_httpVars
  PROVE  UploadProgress'
<1> USE HttpBounds DEF HttpTypeOK, server, producer, Goto, Return, Fault, UploadProgress
<1>1. ASSUME NEW e \in Exec, Start(e) PROVE UploadProgress'
  BY <1>1 DEF Start, Send
<1>2. ASSUME NEW e \in Exec, Fail(e) PROVE UploadProgress'
  BY <1>2 DEF Fail, RetryOrReturn, ShouldRetry, Retryable
<1>3. ASSUME NEW e \in Exec, Wake(e) PROVE UploadProgress'
  BY <1>3 DEF Wake, Send
<1>4. ASSUME NEW e \in Exec, ReceiveStatus(e) PROVE UploadProgress'
  BY <1>4 DEF ReceiveStatus, RetryOrReturn, ShouldRetry, Retryable
<1>5. ASSUME NEW e \in Exec, ReceiveOk(e) PROVE UploadProgress'
  BY <1>5 DEF ReceiveOk
<1>6. ASSUME NEW e \in Exec, BodyRead(e) PROVE UploadProgress'
  BY <1>6 DEF BodyRead
<1>7. ASSUME NEW e \in Exec, BodyBroken(e) PROVE UploadProgress'
  BY <1>7 DEF BodyBroken
<1>8. ASSUME NEW e \in Exec, ProducerStep(e) PROVE UploadProgress'
  BY <1>8 DEF ProducerStep, Produce, ProduceEnd, ProduceFails, PipeBreaks, ProducerStops, Reading
<1>9. ASSUME NEW e \in Exec, NEW n \in 0..MaxRetries, CarryOut(e, n) PROVE UploadProgress'
  BY <1>9 DEF CarryOut, Answer, Replies
<1>10. ASSUME NEW e \in Exec, NEW n \in 0..MaxRetries, Reject(e, n) PROVE UploadProgress'
  BY <1>10 DEF Reject, Answer, Replies
<1>11. CASE UNCHANGED httpVars
  BY <1>11 DEF httpVars
<1> QED BY <1>1, <1>2, <1>3, <1>4, <1>5, <1>6, <1>7, <1>8, <1>9, <1>10, <1>11, OnTheWire DEF HttpNext, ClientStep, ServerStep

LEMMA DownloadStep ==
  ASSUME HttpTypeOK, Progress, DownloadProgress, [HttpNext]_httpVars
  PROVE  DownloadProgress'
<1> USE HttpBounds DEF HttpTypeOK, server, producer, Goto, Return, Fault, Progress, DownloadProgress
<1>1. ASSUME NEW e \in Exec, Start(e) PROVE DownloadProgress'
  BY <1>1 DEF Start, Send
<1>2. ASSUME NEW e \in Exec, Fail(e) PROVE DownloadProgress'
  BY <1>2 DEF Fail, RetryOrReturn, ShouldRetry, Retryable
<1>3. ASSUME NEW e \in Exec, Wake(e) PROVE DownloadProgress'
  BY <1>3 DEF Wake, Send
<1>4. ASSUME NEW e \in Exec, ReceiveStatus(e) PROVE DownloadProgress'
  BY <1>4 DEF ReceiveStatus, RetryOrReturn, ShouldRetry, Retryable
<1>5. ASSUME NEW e \in Exec, ReceiveOk(e) PROVE DownloadProgress'
  BY <1>5 DEF ReceiveOk
<1>6. ASSUME NEW e \in Exec, BodyRead(e) PROVE DownloadProgress'
  BY <1>6 DEF BodyRead
<1>7. ASSUME NEW e \in Exec, BodyBroken(e) PROVE DownloadProgress'
  BY <1>7 DEF BodyBroken
<1>8. ASSUME NEW e \in Exec, ProducerStep(e) PROVE DownloadProgress'
  BY <1>8 DEF ProducerStep, Produce, ProduceEnd, ProduceFails, PipeBreaks, ProducerStops, Reading
<1>9. ASSUME NEW e \in Exec, NEW n \in 0..MaxRetries, CarryOut(e, n) PROVE DownloadProgress'
  BY <1>9 DEF CarryOut, Answer, Replies
<1>10. ASSUME NEW e \in Exec, NEW n \in 0..MaxRetries, Reject(e, n) PROVE DownloadProgress'
  BY <1>10 DEF Reject, Answer, Replies
<1>11. CASE UNCHANGED httpVars
  BY <1>11 DEF httpVars
<1> QED BY <1>1, <1>2, <1>3, <1>4, <1>5, <1>6, <1>7, <1>8, <1>9, <1>10, <1>11, OnTheWire DEF HttpNext, ClientStep, ServerStep

LEMMA HttpNextInv == HttpInv /\ [HttpNext]_httpVars => HttpInv'
BY HttpTypes, ProgressStep, OnceStep, OkStep, UploadStep, DownloadStep DEF HttpInv

(* The inductive invariant: how far an execution is, and what the server has *)
(* done for it by then (doRequestWithRetry and the two transfers).           *)
THEOREM HttpInvariance == HttpSpec => []HttpInv
BY HttpInitInv, HttpNextInv, PTL DEF HttpSpec

(* Every variable keeps its type; with it, the attempts of every execution   *)
(* stay within MaxRetries (shouldRetry).                                     *)
THEOREM HttpTypeCorrect == HttpSpec => []HttpTypeOK
BY HttpInvariance, PTL DEF HttpInv

(* Creations and uploads are carried out at most once, and a refusal of one  *)
(* means that it was not carried out, for any number of retries.             *)
THEOREM OnceAndKnown == HttpSpec => []CarriedOutOnce
<1>1. HttpInv => CarriedOutOnce
  <2>1. \A n \in {0, 1} : n <= 1
    OBVIOUS
  <2> QED BY <2>1 DEF HttpInv, OnceProgress, CarriedOutOnce
<1> QED BY <1>1, HttpInvariance, PTL

(* A write that is reported ok was carried out. *)
THEOREM NoUnearnedOk == HttpSpec => []OkIsEarned
<1>1. HttpInv => OkIsEarned
  BY DEF HttpInv, Progress, OkProgress, OkIsEarned
<1> QED BY <1>1, HttpInvariance, PTL

(* EffectsAreKnown: both of the above. *)
THEOREM KnownEffects == HttpSpec => []EffectsAreKnown
BY OnceAndKnown, NoUnearnedOk, PTL DEF EffectsAreKnown

(* Unless a local file fails, content is whole on both ways. *)
THEOREM WholeContent == HttpSpec => []ContentIsWhole
<1>1. HttpInv => DownloadIsWhole
  BY DEF HttpInv, HttpTypeOK, Progress, DownloadProgress, DownloadIsWhole
<1>2. HttpInv => UploadIsWholeIfRead
  BY DEF HttpInv, HttpTypeOK, Progress, OkProgress, UploadProgress, UploadIsWholeIfRead, UploadIsWhole, Reads
<1>3. HttpInv => ContentIsWhole
  BY <1>1, <1>2 DEF ContentIsWhole
<1> QED BY <1>3, HttpInvariance, PTL

(* Nothing but a PUT is repeated after it was reported ok. *)
THEOREM OkIsFinal == HttpSpec => NothingAfterOk
<1>1. ASSUME HttpInv, [HttpNext]_httpVars, NEW x \in Exec, result[x] = "ok", kind[x] # "put"
      PROVE  effects'[x] = effects[x]
  <2>1. ASSUME NEW m \in inflight, CarryOut(m[1], m[2]) PROVE effects'[x] = effects[x]
    <3>1. CASE m[1] = x /\ kind[x] \in Once
      <4>1. m[2] \in 0..MaxRetries /\ m[2] <= 0 /\ m = <<x, m[2]>>
        <5>1. m[2] \in 0..MaxRetries /\ m = <<m[1], m[2]>>
          BY <1>1, OnTheWire DEF HttpInv
        <5>2. m[2] <= attempt[m[1]] /\ attempt[x] = 0
          BY <3>1, <1>1 DEF HttpInv, Progress, OnceProgress
        <5> QED BY <3>1, <5>1, <5>2
      <4>2. <<x, 0>> \in inflight
        BY <4>1
      <4> QED BY <3>1, <4>2, <1>1 DEF HttpInv, Progress, OnceProgress
    <3>2. CASE m[1] # x \/ kind[x] \notin Once
      BY <2>1, <3>2, <1>1, OnTheWire DEF HttpInv, HttpTypeOK, Progress, OkProgress, CarryOut, Once, Kinds
    <3> QED BY <3>1, <3>2
  <2>2. CASE \E e \in Exec : Start(e) \/ ClientStep(e) \/ ProducerStep(e)
    BY <2>2, <1>1 DEF HttpInv, HttpTypeOK, Start, Send, ClientStep, Fail, Wake, ReceiveStatus, ReceiveOk,
       BodyRead, BodyBroken, ProducerStep, Produce, ProduceEnd, ProduceFails, PipeBreaks, ProducerStops, server
  <2>3. ASSUME NEW m \in inflight, Reject(m[1], m[2]) PROVE effects'[x] = effects[x]
    BY <2>3 DEF Reject
  <2>4. CASE UNCHANGED httpVars
    BY <2>4 DEF httpVars, server
  <2> QED BY <1>1, <2>1, <2>2, <2>3, <2>4 DEF HttpNext, ServerStep
<1>2. HttpInv /\ [HttpNext]_httpVars =>
        [\A e \in Exec : result[e] = "ok" /\ kind[e] # "put" => effects'[e] = effects[e]]_httpVars
  BY <1>1
<1> QED BY <1>2, HttpInvariance, PTL DEF HttpSpec, NothingAfterOk

-----------------------------------------------------------------------------
(* Why an execution ends: what is left of its attempts, and what is left for *)
(* the producer of an upload to feed.                                        *)
AttemptsLeft(e) ==
  IF at[e] = "idle" THEN 3 * MaxRetries + 4
  ELSE IF at[e] = "await" THEN 3 * (MaxRetries - attempt[e]) + 3
  ELSE IF at[e] = "sleep" THEN 3 * (MaxRetries - attempt[e]) + 1
  ELSE IF at[e] = "body" THEN 1 ELSE 0

FeedLeft(e) == IF pipe[e] = "open" THEN Chunks - sent[e] + 1 ELSE 0

Counts == \A e \in Exec : AttemptsLeft(e) \in Nat /\ FeedLeft(e) \in Nat

Moves(e) ==
  \/ AttemptsLeft(e)' < AttemptsLeft(e)
  \/ AttemptsLeft(e)' = AttemptsLeft(e) /\ FeedLeft(e)' < FeedLeft(e)
Stays(e) == AttemptsLeft(e)' = AttemptsLeft(e) /\ FeedLeft(e)' = FeedLeft(e)

Headway ==
  \A e \in Exec : IF Start(e) \/ ClientStep(e) \/ ProducerStep(e) THEN Moves(e) ELSE Stays(e)

LEMMA LeftIsNat == HttpInv => Counts
<1> SUFFICES ASSUME HttpInv, NEW e \in Exec PROVE AttemptsLeft(e) \in Nat /\ FeedLeft(e) \in Nat
  BY DEF Counts
<1>1. /\ attempt[e] \in 0..MaxRetries /\ MaxRetries \in Nat
      /\ sent[e] \in 0..Chunks /\ Chunks \in Nat
  BY HttpBounds DEF HttpInv, HttpTypeOK
<1>2. /\ 3 * MaxRetries + 4 \in Nat /\ 3 * (MaxRetries - attempt[e]) + 3 \in Nat
      /\ 3 * (MaxRetries - attempt[e]) + 1 \in Nat /\ Chunks - sent[e] + 1 \in Nat
  BY <1>1
<1> QED BY <1>2 DEF AttemptsLeft, FeedLeft

(* A step of e itself. *)
LEMMA OwnStepMoves ==
  ASSUME HttpInv, NEW e \in Exec, Start(e) \/ ClientStep(e) \/ ProducerStep(e)
  PROVE  Moves(e)
<1>1. /\ attempt[e] \in 0..MaxRetries /\ MaxRetries \in Nat
      /\ sent[e] \in 0..Chunks /\ Chunks \in Nat
      /\ at[e] = "idle" => attempt[e] = 0
      /\ at[e] = "sleep" => attempt[e] < MaxRetries
  BY HttpBounds DEF HttpInv, HttpTypeOK, Progress
<1>2. /\ at \in [Exec -> {"idle", "await", "sleep", "body", "done"}] /\ attempt \in [Exec -> 0..MaxRetries]
      /\ pipe \in [Exec -> {"none", "open", "eof", "broken"}] /\ sent \in [Exec -> 0..Chunks]
  BY DEF HttpInv, HttpTypeOK
<1>3. CASE Start(e)
  <2>1. at[e] = "idle" /\ at'[e] \in {"await", "done"} /\ attempt' = attempt
    BY <1>2, <1>3 DEF Start, Return, Send, Goto
  <2>2. AttemptsLeft(e) = 3 * MaxRetries + 4 /\ AttemptsLeft(e)' \in {3 * MaxRetries + 3, 0}
    BY <1>1, <2>1 DEF AttemptsLeft
  <2> QED BY <1>1, <2>2 DEF Moves
<1>4. CASE Fail(e) \/ ReceiveStatus(e) \/ ReceiveOk(e)
  <2>1. at[e] = "await" /\ at'[e] \in {"sleep", "body", "done"} /\ attempt' = attempt
    BY <1>2, <1>4 DEF Fail, ReceiveStatus, ReceiveOk, RetryOrReturn, Return, Goto
  <2>2. AttemptsLeft(e) = 3 * (MaxRetries - attempt[e]) + 3
        /\ AttemptsLeft(e)' \in {3 * (MaxRetries - attempt[e]) + 1, 1, 0}
    BY <2>1 DEF AttemptsLeft
  <2>3. MaxRetries - attempt[e] \in Nat
    BY <1>1
  <2> QED BY <2>2, <2>3 DEF Moves
<1>5. CASE Wake(e)
  <2>1. at[e] = "sleep" /\ at'[e] = "await" /\ attempt'[e] = attempt[e] + 1
    BY <1>2, <1>5 DEF Wake, Send, Goto
  <2>2. AttemptsLeft(e) = 3 * (MaxRetries - attempt[e]) + 1
        /\ AttemptsLeft(e)' = 3 * (MaxRetries - (attempt[e] + 1)) + 3
    BY <2>1 DEF AttemptsLeft
  <2> QED BY <1>1, <2>2 DEF Moves
<1>6. CASE BodyRead(e) \/ BodyBroken(e)
  <2>1. at[e] = "body" /\ at'[e] = "done"
    BY <1>2, <1>6 DEF BodyRead, BodyBroken, Return
  <2>2. AttemptsLeft(e) = 1 /\ AttemptsLeft(e)' = 0
    BY <2>1 DEF AttemptsLeft
  <2> QED BY <2>2 DEF Moves
<1>7. CASE ProducerStep(e)
  <2>1. AttemptsLeft(e)' = AttemptsLeft(e)
    BY <1>7 DEF ProducerStep, Produce, ProduceEnd, ProduceFails, PipeBreaks, ProducerStops, AttemptsLeft
  <2>2. CASE Produce(e)
    <3>1. pipe[e] = "open" /\ pipe' = pipe /\ sent'[e] = sent[e] + 1
      BY <1>2, <2>2 DEF Produce, Reading
    <3> QED BY <1>1, <2>1, <3>1 DEF Moves, FeedLeft
  <2>3. CASE ProduceEnd(e) \/ ProduceFails(e) \/ PipeBreaks(e)
    <3>1. pipe[e] = "open" /\ pipe'[e] # "open"
      BY <1>2, <2>3 DEF ProduceEnd, ProduceFails, PipeBreaks, ProducerStops, Reading
    <3> QED BY <1>1, <2>1, <3>1 DEF Moves, FeedLeft
  <2> QED BY <1>7, <2>2, <2>3 DEF ProducerStep
<1> QED BY <1>3, <1>4, <1>5, <1>6, <1>7 DEF ClientStep

(* A step of another execution, or of the server. *)
LEMMA OtherStepStays ==
  ASSUME HttpInv, NEW e \in Exec, ~(Start(e) \/ ClientStep(e) \/ ProducerStep(e)), HttpNext
  PROVE  Stays(e)
<1>1. UNCHANGED <<at[e], attempt[e], pipe[e], sent[e]>>
  <2>0. /\ at \in [Exec -> {"idle", "await", "sleep", "body", "done"}] /\ attempt \in [Exec -> 0..MaxRetries]
        /\ pipe \in [Exec -> {"none", "open", "eof", "broken"}] /\ sent \in [Exec -> 0..Chunks]
    BY DEF HttpInv, HttpTypeOK
  <2>1. ASSUME NEW x \in Exec, x # e, Start(x) \/ ClientStep(x)
        PROVE  UNCHANGED <<at[e], attempt[e], pipe[e], sent[e]>>
    BY <2>0, <2>1 DEF Start, Return, Send, Goto, ClientStep, Fail, Wake, ReceiveStatus, ReceiveOk, BodyRead,
                      BodyBroken, RetryOrReturn, producer
  <2>2. ASSUME NEW x \in Exec, x # e, ProducerStep(x)
        PROVE  UNCHANGED <<at[e], attempt[e], pipe[e], sent[e]>>
    BY <2>0, <2>2 DEF ProducerStep, Produce, ProduceEnd, ProduceFails, PipeBreaks, ProducerStops
  <2>3. CASE ServerStep
    BY <2>3 DEF ServerStep, CarryOut, Reject, Answer, producer
  <2> QED BY <2>1, <2>2, <2>3 DEF HttpNext
<1> QED BY <1>1 DEF Stays, AttemptsLeft, FeedLeft

(* The loop of retries, the reading of the answer and the feeding of an      *)
(* upload are bounded: each step of an execution lowers what is left of it,  *)
(* and neither the server nor another execution adds to it                   *)
(* (doRequestWithRetry, shouldRetry, the goroutine of ExecuteUploadContent). *)
THEOREM ExecutionMakesHeadway == HttpSpec => []Counts /\ [][Headway]_httpVars
<1>1. HttpInv /\ [HttpNext]_httpVars => [Headway]_httpVars
  <2>1. HttpInv /\ HttpNext => Headway
    BY OwnStepMoves, OtherStepStays DEF Headway
  <2> QED BY <2>1
<1> QED BY <1>1, LeftIsNat, HttpInvariance, PTL DEF HttpSpec
=============================================================================
