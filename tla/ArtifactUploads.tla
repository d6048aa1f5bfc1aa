-------------------------- MODULE ArtifactUploads --------------------------
(***************************************************************************)
(* Uploading an artifact (an ELF file or a firmware image) into a plugin's *)
(* private database.  The manager splits the body of a request into        *)
(* chunks, sends one after the other to the plugin and waits for each      *)
(* answer; the plugin stores a chunk in one transaction and, with the      *)
(* final one, assembles the artifact.  A client that got no answer repeats *)
(* the request under the same Idempotency-Key, while calls of the earlier  *)
(* attempt may still be served.  The key stands for the body: two attempts *)
(* of one upload send the same chunks, `Size' of them; a chunk is its      *)
(* place in the body.                                                      *)
(***************************************************************************)
EXTENDS Naturals, Sequences, FiniteSets

CONSTANTS
  Uploads,         \* idempotency keys
  Attempts,        \* requests
  UploadOf,        \* [Attempts -> Uploads]
  Size,            \* chunks of a body
  MaxExpiries      \* bound: how often an upload row outlives its hour

ASSUME SizeAssumption == Size \in Nat \ {0} /\ MaxExpiries \in Nat
ASSUME AttemptsHaveKeys == UploadOf \in [Attempts -> Uploads]

VARIABLES
  rows,            \* artifact_uploads with artifact_upload_chunks, by id
  artifacts,       \* debug_artifacts, with ids from 1
  attempts,        \* [Attempts -> the manager's progress]
  hours            \* [Uploads -> how often its row has expired]

uploadVars == <<rows, artifacts, attempts, hours>>

NoUpload == [received |-> 0, chunks |-> <<>>, artifact |-> 0, expired |-> FALSE, stored |-> FALSE]

UploadsInit ==
  /\ rows = [u \in Uploads |-> NoUpload]
  /\ artifacts = {}
  /\ attempts = [a \in Attempts |-> [pc |-> "idle", next |-> 0, call |-> 0, artifact |-> 0]]
  /\ hours = [u \in Uploads |-> 0]

\* uploadArtifact begins: the first chunk is sent once it is known whether
\* another follows.
UploadArtifact(a) ==
  /\ attempts[a].pc = "idle"
  /\ attempts' = [attempts EXCEPT ![a] = [@ EXCEPT !.pc = "sending", !.next = 1, !.call = 1]]
  /\ UNCHANGED <<rows, artifacts, hours>>

\* The connection fails, the deadline passes, or the installation is no longer
\* the one the upload began with; a call that was sent may still be served.
AttemptFails(a) ==
  /\ attempts[a].pc = "sending"
  /\ attempts' = [attempts EXCEPT ![a].pc = "failed"]
  /\ UNCHANGED <<rows, artifacts, hours>>

\* A call is lost with its connection.
CallLost(a) ==
  /\ attempts[a].pc = "failed" /\ attempts[a].call # 0
  /\ attempts' = [attempts EXCEPT ![a].call = 0]
  /\ UNCHANGED <<rows, artifacts, hours>>

(* The plugin's transaction **********************************************)

\* The artifact made of an upload.
Assembled(u, chunks) == [id |-> Cardinality(artifacts) + 1, upload |-> u, content |-> chunks, hour |-> hours[u]]

\* The upload row is deleted with its chunks once the artifact is stored.
ForgetUpload(row, artifact) == NoUpload

\* The row remembers the artifact, the chunks go.
CompleteUpload(row, artifact) == [row EXCEPT !.chunks = <<>>, !.artifact = artifact.id, !.received = Size]

\* The row storeArtifactChunk works on: one past its hour is deleted first,
\* with its chunks, and a missing one is inserted.
CurrentUpload(u) == IF rows[u].stored /\ ~rows[u].expired THEN rows[u] ELSE [NoUpload EXCEPT !.stored = TRUE]

Write(u, row) == rows' = [rows EXCEPT ![u] = row]

\* sendArtifactChunk: the manager's reading of the answer.  It goes on only if
\* exactly what it has sent is stored, and may find at the end that the
\* installation has changed.
AnswerProgress(a, received) ==
  LET k == attempts[a].call IN
  attempts' = [attempts EXCEPT ![a] =
    IF @.pc # "sending" THEN [@ EXCEPT !.call = 0]
    ELSE IF k = Size \/ received # k THEN [@ EXCEPT !.call = 0, !.pc = "failed"]
    ELSE [@ EXCEPT !.call = k + 1, !.next = k + 1]]

AnswerComplete(a, artifact) ==
  \E pc \in IF attempts[a].pc = "sending" THEN {"done", "failed"} ELSE {attempts[a].pc} :
    attempts' = [attempts EXCEPT ![a] = [@ EXCEPT !.call = 0, !.pc = pc, !.artifact = artifact]]

AnswerError(a) ==
  attempts' = [attempts EXCEPT ![a].call = 0, ![a].pc = IF @ = "sending" THEN "failed" ELSE @]

\* The upload is complete: its artifact is the answer to any chunk.
RepeatCompleted(a) ==
  LET u == UploadOf[a] row == CurrentUpload(u) IN
  /\ attempts[a].call # 0
  /\ row.artifact # 0
  /\ Write(u, row) /\ UNCHANGED <<artifacts, hours>>
  /\ AnswerComplete(a, row.artifact)

\* The chunk is stored already.
RepeatChunk(a) ==
  LET u == UploadOf[a] row == CurrentUpload(u) IN
  /\ attempts[a].call # 0
  /\ row.artifact = 0 /\ attempts[a].call - 1 < row.received
  /\ Write(u, row) /\ UNCHANGED <<artifacts, hours>>
  /\ AnswerProgress(a, row.received)

\* "artifact chunks must arrive in order": nothing is written.
RefuseChunk(a) ==
  LET row == CurrentUpload(UploadOf[a]) IN
  /\ attempts[a].call # 0
  /\ row.artifact = 0 /\ attempts[a].call - 1 > row.received
  /\ UNCHANGED <<rows, artifacts, hours>>
  /\ AnswerError(a)

\* The next chunk; the final one assembles what is stored.
StoreArtifactChunk(a) ==
  LET u == UploadOf[a]
      k == attempts[a].call
      row == CurrentUpload(u)
      stored == [row EXCEPT !.chunks = Append(@, k), !.received = k]
      artifact == Assembled(u, stored.chunks)
  IN /\ k # 0
     /\ row.artifact = 0 /\ k - 1 = row.received
     /\ UNCHANGED hours
     /\ \/ /\ k < Size
           /\ Write(u, stored) /\ UNCHANGED artifacts
           /\ AnswerProgress(a, k)
        \/ /\ k = Size
           /\ artifacts' = artifacts \cup {artifact}
           /\ Write(u, CompleteUpload(stored, artifact))
           /\ AnswerComplete(a, artifact.id)

\* An hour after its first chunk a row may be deleted by anyone.
RowExpires(u) ==
  /\ rows[u].stored /\ ~rows[u].expired /\ hours[u] < MaxExpiries
  /\ Write(u, [rows[u] EXCEPT !.expired = TRUE])
  /\ hours' = [hours EXCEPT ![u] = @ + 1]
  /\ UNCHANGED <<artifacts, attempts>>

PurgeExpiredArtifactUploads(u) ==
  /\ rows[u].expired
  /\ Write(u, NoUpload)
  /\ UNCHANGED <<artifacts, attempts, hours>>

UploadsNext ==
  \/ \E a \in Attempts : \/ UploadArtifact(a) \/ AttemptFails(a) \/ CallLost(a)
                         \/ RepeatCompleted(a) \/ RepeatChunk(a) \/ RefuseChunk(a) \/ StoreArtifactChunk(a)
  \/ \E u \in Uploads : RowExpires(u) \/ PurgeExpiredArtifactUploads(u)

UploadsSpec == UploadsInit /\ [][UploadsNext]_uploadVars

(* Property **************************************************************)

\* Whatever calls of abandoned attempts are served late, whatever is repeated
\* and whenever the row expires, an artifact is the whole body in order, an
\* upload makes one artifact while its row lives, and a client is told of an
\* artifact of its own upload.  (artifacts.ts 1-4 and 88-181, actions.ts 578-581)
ArtifactsWhole ==
  /\ \A f \in artifacts : f.content = [k \in 1..Size |-> k]
  /\ \A f, g \in artifacts : f.upload = g.upload /\ f.hour = g.hour => f = g
  /\ \A a \in Attempts : attempts[a].artifact # 0 =>
       \E f \in artifacts : f.id = attempts[a].artifact /\ f.upload = UploadOf[a]
=============================================================================
