------------------------ MODULE PluginServicesProofs ------------------------
(***************************************************************************)
(* What holds of debug sessions and of uploads for any number of           *)
(* installations, devices, executions, events and requests: permissions to *)
(* drive a device are current, an execution is ended by its own session    *)
(* only, and an artifact is the whole body of its upload.                  *)
(***************************************************************************)
EXTENDS DebugSessions, ArtifactUploads, FiniteSetTheorems, TLAPS

-----------------------------------------------------------------------------
(* Uploads *)

Body == [k \in 1..Size |-> k]

UploadRow == [received : 0..Size, chunks : Seq(Nat), artifact : Nat,
              expired : BOOLEAN, stored : BOOLEAN]
Attempt == [pc : {"idle", "sending", "failed", "done"},
            next : Nat, call : 0..Size, artifact : Nat]

UploadTypes ==
  /\ rows \in [Uploads -> UploadRow]
  /\ attempts \in [Attempts -> Attempt]
  /\ hours \in [Uploads -> Nat]
  /\ IsFiniteSet(artifacts)
  /\ artifacts \subseteq [id : Nat \ {0}, upload : Uploads, content : Seq(Nat), hour : Nat]

\* A row without an artifact holds the chunks it has received, in order; one
\* with an artifact was completed by it.
RowsGrow ==
  \A u \in Uploads :
    IF rows[u].artifact = 0
    THEN /\ rows[u].received < Size
         /\ rows[u].chunks = [k \in 1..rows[u].received |-> k]
    ELSE \E f \in artifacts : f.id = rows[u].artifact /\ f.upload = u

\* The hour of an upload is new until its row is complete.
OneArtifactAnHour ==
  \A f \in artifacts :
    /\ f.hour <= hours[f.upload]
    /\ f.hour = hours[f.upload] =>
         /\ rows[f.upload].stored /\ ~rows[f.upload].expired
         /\ rows[f.upload].artifact # 0

UploadsInv == UploadTypes /\ RowsGrow /\ OneArtifactAnHour /\ ArtifactsWhole

\* The row a chunk is stored in: what it holds, and that no artifact of its
\* hour exists while it has none.
LEMMA CurrentRow ==
  ASSUME UploadsInv, NEW u \in Uploads
  PROVE  \E row \in UploadRow :
           /\ row = CurrentUpload(u)
           /\ row.stored /\ ~row.expired
           /\ row.artifact = 0 =>
                /\ row.received < Size
                /\ row.chunks = [k \in 1..row.received |-> k]
                /\ \A f \in artifacts : f.upload = u => f.hour # hours[u]
           /\ row.artifact # 0 =>
                /\ row = rows[u]
                /\ \E f \in artifacts : f.id = row.artifact /\ f.upload = u
<1>1. rows[u] \in UploadRow /\ Size \in Nat \ {0}
  BY SizeAssumption DEF UploadsInv, UploadTypes
<1>2. CASE rows[u].stored /\ ~rows[u].expired
  <2>1. CurrentUpload(u) = rows[u]
    BY <1>2 DEF CurrentUpload
  <2>2. \A f \in artifacts : f.upload = u /\ f.hour = hours[u] => rows[u].artifact # 0
    BY DEF UploadsInv, OneArtifactAnHour
  <2>. QED
    BY <1>1, <1>2, <2>1, <2>2 DEF UploadsInv, RowsGrow, UploadRow
<1>3. CASE ~(rows[u].stored /\ ~rows[u].expired)
  <2>1. PICK row : row = [NoUpload EXCEPT !.stored = TRUE]
    OBVIOUS
  <2>2. row = [received |-> 0, chunks |-> <<>>, artifact |-> 0, expired |-> FALSE, stored |-> TRUE]
    BY <2>1 DEF NoUpload
  <2>3. row = CurrentUpload(u)
    BY <1>3, <2>1 DEF CurrentUpload
  <2>4. row \in UploadRow /\ row.received = 0 /\ row.artifact = 0 /\ row.stored /\ ~row.expired
    BY <1>1, <2>2 DEF UploadRow
  <2>5. row.chunks = [k \in 1..0 |-> k]
    BY <2>2
  <2>6. \A f \in artifacts : f.upload = u => f.hour # hours[u]
    BY <1>3 DEF UploadsInv, OneArtifactAnHour
  <2>. QED
    BY <1>1, <2>3, <2>4, <2>5, <2>6
<1>. QED
  BY <1>2, <1>3

\* What a step does to the requests: each keeps the artifact it was told of or
\* learns one of its own upload.
Learns ==
  /\ attempts' \in [Attempts -> Attempt]
  /\ \A a \in Attempts : \/ attempts'[a].artifact = attempts[a].artifact
                         \/ attempts'[a].artifact = 0
                         \/ \E f \in artifacts' : f.id = attempts'[a].artifact /\ f.upload = UploadOf[a]

\* One request changes.
LEMMA LearnsOne ==
  ASSUME UploadsInv, NEW a \in Attempts, NEW v \in Attempt,
         attempts' = [attempts EXCEPT ![a] = v],
         \/ v.artifact = attempts[a].artifact
         \/ \E f \in artifacts' : f.id = v.artifact /\ f.upload = UploadOf[a]
  PROVE  Learns
<1>1. attempts \in [Attempts -> Attempt]
  BY DEF UploadsInv, UploadTypes
<1>2. attempts' \in [Attempts -> Attempt] /\ attempts'[a] = v
      /\ \A b \in Attempts \ {a} : attempts'[b] = attempts[b]
  BY <1>1
<1>. QED
  BY <1>2 DEF Learns

\* The manager's reading of an answer of the plugin.
LEMMA AnswerLearns ==
  ASSUME UploadsInv, NEW a \in Attempts, attempts[a].call # 0, NEW received,
         \/ AnswerProgress(a, received) \/ AnswerError(a)
         \/ \E artifact \in Nat :
              /\ AnswerComplete(a, artifact)
              /\ \E f \in artifacts' : f.id = artifact /\ f.upload = UploadOf[a]
  PROVE  Learns
<1>1. PICK o \in Attempt : o = attempts[a]
  BY DEF UploadsInv, UploadTypes
<1>2. o.call \in 1..Size /\ Size \in Nat /\ 0 \in 0..Size
  BY <1>1, SizeAssumption DEF Attempt
<1>3. CASE AnswerProgress(a, received)
  <2>1. PICK v : v = IF o.pc # "sending" THEN [o EXCEPT !.call = 0]
                     ELSE IF o.call = Size \/ received # o.call THEN [o EXCEPT !.call = 0, !.pc = "failed"]
                     ELSE [o EXCEPT !.call = o.call + 1, !.next = o.call + 1]
    OBVIOUS
  <2>2. v \in Attempt /\ v.artifact = o.artifact
    <3>1. CASE o.pc # "sending"
      BY <1>2, <2>1, <3>1 DEF Attempt
    <3>2. CASE o.pc = "sending" /\ (o.call = Size \/ received # o.call)
      BY <1>2, <2>1, <3>2 DEF Attempt
    <3>3. CASE o.pc = "sending" /\ o.call # Size /\ received = o.call
      <4>1. o.call + 1 \in 0..Size /\ o.call + 1 \in Nat
        BY <1>2, <3>3
      <4>2. v = [o EXCEPT !.call = o.call + 1, !.next = o.call + 1]
        BY <2>1, <3>3
      <4>. QED
        BY <4>1, <4>2 DEF Attempt
    <3>. QED
      BY <3>1, <3>2, <3>3
  <2>3. attempts' = [attempts EXCEPT ![a] = v]
    BY <1>1, <1>3, <2>1 DEF AnswerProgress, UploadsInv, UploadTypes
  <2>. QED
    BY <1>1, <2>2, <2>3, LearnsOne
<1>4. CASE AnswerError(a)
  <2>0. PICK pc : pc = IF o.pc = "sending" THEN "failed" ELSE o.pc
    OBVIOUS
  <2>1. PICK v : v = [o EXCEPT !.call = 0, !.pc = pc]
    OBVIOUS
  <2>2. v \in Attempt /\ v.artifact = o.artifact
    <3>1. pc \in {"idle", "sending", "failed", "done"}
      BY <2>0 DEF Attempt
    <3>. QED
      BY <1>2, <2>1, <3>1 DEF Attempt
  <2>3. attempts' = [attempts EXCEPT ![a] = v]
    <3>1. attempts \in [Attempts -> Attempt] /\ attempts[a].pc = o.pc
      BY <1>1 DEF UploadsInv, UploadTypes
    <3>2. attempts' = [attempts EXCEPT ![a].call = 0, ![a].pc = pc]
      BY <1>4, <2>0, <3>1 DEF AnswerError, Attempt
    <3>. QED
      BY <1>1, <2>1, <3>1, <3>2 DEF Attempt
  <2>. QED
    BY <1>1, <2>2, <2>3, LearnsOne
<1>5. ASSUME NEW artifact \in Nat, AnswerComplete(a, artifact),
             \E f \in artifacts' : f.id = artifact /\ f.upload = UploadOf[a]
      PROVE  Learns
  <2>1. PICK pc \in {"sending", "done", "failed", o.pc} :
          /\ pc \in {"done", "failed", o.pc}
          /\ attempts' = [attempts EXCEPT ![a] = [@ EXCEPT !.call = 0, !.pc = pc, !.artifact = artifact]]
    BY <1>1, <1>5 DEF AnswerComplete
  <2>2. PICK v : v = [o EXCEPT !.call = 0, !.pc = pc, !.artifact = artifact]
    OBVIOUS
  <2>3. v \in Attempt /\ v.artifact = artifact
    <3>1. pc \in {"idle", "sending", "failed", "done"}
      BY <2>1 DEF Attempt
    <3>. QED
      BY <1>2, <1>5, <2>2, <3>1 DEF Attempt
  <2>4. attempts' = [attempts EXCEPT ![a] = v]
    BY <1>1, <2>1, <2>2 DEF UploadsInv, UploadTypes
  <2>. QED
    BY <1>5, <2>3, <2>4, LearnsOne
<1>. QED
  BY <1>3, <1>4, <1>5

\* Only the requests change.
LEMMA OthersStay ==
  ASSUME UploadsInv, Learns, UNCHANGED <<rows, artifacts, hours>>
  PROVE  UploadsInv'
<1>1. UploadTypes'
  BY DEF UploadsInv, UploadTypes, Learns
<1>2. RowsGrow' /\ OneArtifactAnHour'
  BY DEF UploadsInv, RowsGrow, OneArtifactAnHour
<1>3. ArtifactsWhole'
  BY DEF UploadsInv, ArtifactsWhole, Learns
<1>. QED
  BY <1>1, <1>2, <1>3 DEF UploadsInv

\* Artifacts stay, and nobody is told of another's.
LEMMA UploadsStay ==
  ASSUME UploadsInv, Learns, UNCHANGED <<artifacts, hours>>,
         NEW u \in Uploads, NEW row \in UploadRow, rows' = [rows EXCEPT ![u] = row],
         row.artifact = 0 =>
           /\ row.received < Size
           /\ row.chunks = [k \in 1..row.received |-> k]
           /\ \A f \in artifacts : f.upload = u => f.hour # hours[u],
         row.artifact # 0 =>
           /\ row = rows[u]
           /\ \E f \in artifacts : f.id = row.artifact /\ f.upload = u
  PROVE  UploadsInv'
<1>1. /\ rows' \in [Uploads -> UploadRow] /\ rows'[u] = row
      /\ \A x \in Uploads \ {u} : rows'[x] = rows[x]
  BY DEF UploadsInv, UploadTypes
<1>2. UploadTypes'
  BY <1>1 DEF UploadsInv, UploadTypes, Learns
<1>3. RowsGrow'
  BY <1>1 DEF UploadsInv, RowsGrow
<1>4. OneArtifactAnHour'
  <2>1. \A f \in artifacts : f.upload \in Uploads
    BY DEF UploadsInv, UploadTypes
  <2>. QED
    BY <1>1, <2>1 DEF UploadsInv, OneArtifactAnHour
<1>5. ArtifactsWhole'
  BY DEF UploadsInv, ArtifactsWhole, Learns
<1>. QED
  BY <1>2, <1>3, <1>4, <1>5 DEF UploadsInv

\* The final chunk makes the artifact of an upload.
LEMMA FinalChunk ==
  ASSUME UploadsInv, NEW u \in Uploads, NEW row \in UploadRow,
         \A f \in artifacts : f.upload = u => f.hour # hours[u],
         NEW f, f = [id |-> Cardinality(artifacts) + 1, upload |-> u, content |-> Body, hour |-> hours[u]],
         artifacts' = artifacts \cup {f},
         row.stored /\ ~row.expired /\ row.artifact = f.id,
         rows' = [rows EXCEPT ![u] = row], UNCHANGED hours, Learns
  PROVE  UploadsInv'
<1>1. /\ Cardinality(artifacts) \in Nat /\ IsFiniteSet(artifacts')
      /\ hours[u] \in Nat /\ Size \in Nat \ {0}
  BY FS_CardinalityType, FS_AddElement, SizeAssumption DEF UploadsInv, UploadTypes
<1>2. f.id \in Nat \ {0} /\ f.upload = u /\ f.hour = hours[u] /\ f.content = Body
  BY <1>1
<1>3. /\ rows' \in [Uploads -> UploadRow] /\ rows'[u] = row
      /\ \A x \in Uploads \ {u} : rows'[x] = rows[x]
  BY DEF UploadsInv, UploadTypes
<1>4. Body \in Seq(Nat)
  BY <1>1 DEF Body
<1>5. f \in [id : Nat \ {0}, upload : Uploads, content : Seq(Nat), hour : Nat]
  BY <1>1, <1>4
<1>6. UploadTypes'
  BY <1>1, <1>3, <1>5 DEF UploadsInv, UploadTypes, Learns
<1>7. RowsGrow'
  <2>1. rows'[u].artifact # 0 /\ \E g \in artifacts' : g.id = rows'[u].artifact /\ g.upload = u
    BY <1>2, <1>3
  <2>2. ASSUME NEW x \in Uploads \ {u}
        PROVE  IF rows'[x].artifact = 0
               THEN /\ rows'[x].received < Size
                    /\ rows'[x].chunks = [k \in 1..rows'[x].received |-> k]
               ELSE \E g \in artifacts' : g.id = rows'[x].artifact /\ g.upload = x
    BY <1>3 DEF UploadsInv, RowsGrow
  <2>. QED
    BY <2>1, <2>2 DEF RowsGrow
<1>8. OneArtifactAnHour'
  <2>1. \A g \in artifacts : g.upload \in Uploads
    BY DEF UploadsInv, UploadTypes
  <2>2. ASSUME NEW g \in artifacts
        PROVE  /\ g.hour <= hours'[g.upload]
               /\ g.hour = hours'[g.upload] =>
                    /\ rows'[g.upload].stored /\ ~rows'[g.upload].expired
                    /\ rows'[g.upload].artifact # 0
    BY <1>3, <2>1, <2>2 DEF UploadsInv, OneArtifactAnHour
  <2>3. /\ f.hour <= hours'[f.upload]
        /\ rows'[f.upload].stored /\ ~rows'[f.upload].expired
        /\ rows'[f.upload].artifact # 0
    BY <1>1, <1>2, <1>3
  <2>. QED
    BY <2>2, <2>3 DEF OneArtifactAnHour
<1>9. ArtifactsWhole'
  <2>1. \A g \in artifacts' : g.content = [k \in 1..Size |-> k]
    BY <1>2 DEF UploadsInv, ArtifactsWhole, Body
  <2>2. \A g, h \in artifacts' : g.upload = h.upload /\ g.hour = h.hour => g = h
    BY <1>2 DEF UploadsInv, ArtifactsWhole
  <2>3. \A a \in Attempts : attempts'[a].artifact # 0 =>
          \E g \in artifacts' : g.id = attempts'[a].artifact /\ g.upload = UploadOf[a]
    BY DEF UploadsInv, ArtifactsWhole, Learns
  <2>. QED
    BY <2>1, <2>2, <2>3 DEF ArtifactsWhole
<1>. QED
  BY <1>6, <1>7, <1>8, <1>9 DEF UploadsInv

\* A chunk that is served keeps the invariant, whichever attempt sent it.
LEMMA ServedInv ==
  ASSUME UploadsInv, NEW a \in Attempts,
         RepeatCompleted(a) \/ RepeatChunk(a) \/ RefuseChunk(a) \/ StoreArtifactChunk(a)
  PROVE  UploadsInv'
<1>1. PICK u \in Uploads : u = UploadOf[a]
  BY AttemptsHaveKeys
<1>2. PICK row \in UploadRow :
           /\ row = CurrentUpload(u)
           /\ row.stored /\ ~row.expired
           /\ row.artifact = 0 =>
                /\ row.received < Size
                /\ row.chunks = [k \in 1..row.received |-> k]
                /\ \A f \in artifacts : f.upload = u => f.hour # hours[u]
           /\ row.artifact # 0 =>
                /\ row = rows[u]
                /\ \E f \in artifacts : f.id = row.artifact /\ f.upload = u
  BY CurrentRow
<1>3. attempts[a].call # 0
  BY DEF RepeatCompleted, RepeatChunk, RefuseChunk, StoreArtifactChunk
<1>4. CASE RepeatCompleted(a)
  <2>1. /\ rows' = [rows EXCEPT ![u] = row] /\ UNCHANGED <<artifacts, hours>>
        /\ row.artifact # 0 /\ AnswerComplete(a, row.artifact)
    BY <1>1, <1>2, <1>4 DEF RepeatCompleted, Write
  <2>2. row.artifact \in Nat
    BY DEF UploadRow
  <2>3. Learns
    BY <1>1, <1>2, <1>3, <2>1, <2>2, AnswerLearns
  <2>. QED
    BY <1>2, <2>1, <2>3, UploadsStay
<1>5. CASE RepeatChunk(a)
  <2>1. /\ rows' = [rows EXCEPT ![u] = row] /\ UNCHANGED <<artifacts, hours>>
        /\ row.artifact = 0 /\ AnswerProgress(a, row.received)
    BY <1>1, <1>2, <1>5 DEF RepeatChunk, Write
  <2>2. Learns
    BY <1>3, <2>1, AnswerLearns
  <2>. QED
    BY <1>2, <2>1, <2>2, UploadsStay
<1>6. CASE RefuseChunk(a)
  <2>1. UNCHANGED <<rows, artifacts, hours>> /\ AnswerError(a)
    BY <1>6 DEF RefuseChunk
  <2>2. Learns
    BY <1>3, <2>1, AnswerLearns
  <2>. QED
    BY <2>1, <2>2, OthersStay
<1>7. CASE StoreArtifactChunk(a)
  <2>1. PICK k \in 1..Size : k = attempts[a].call
    BY <1>3, SizeAssumption DEF UploadsInv, UploadTypes, Attempt
  <2>2. PICK stored : stored = [row EXCEPT !.chunks = Append(@, k), !.received = k]
    OBVIOUS
  <2>3. row.artifact = 0 /\ k - 1 = row.received /\ row.received \in 0..Size /\ row.received \in Nat
    BY <1>1, <1>2, <1>7, <2>1, SizeAssumption DEF StoreArtifactChunk, UploadRow
  <2>4. row.chunks = [i \in 1..(k - 1) |-> i] /\ \A f \in artifacts : f.upload = u => f.hour # hours[u]
    BY <1>2, <2>3
  <2>5. Append([i \in 1..(k - 1) |-> i], k) = [i \in 1..k |-> i]
    <3>. DEFINE s == [i \in 1..(k - 1) |-> i]
    <3>1. k \in Nat \ {0} /\ k - 1 \in Nat
      BY SizeAssumption
    <3>2. s \in Seq(Nat) /\ Len(s) = k - 1
      BY <3>1
    <3>3. \A i \in 1..k : Append(s, k)[i] = i
      BY <3>1, <3>2
    <3>4. Append(s, k) \in Seq(Nat) /\ Len(Append(s, k)) = k
      BY <3>1, <3>2
    <3>5. DOMAIN Append(s, k) = 1..k /\ Append(s, k) = [i \in DOMAIN Append(s, k) |-> Append(s, k)[i]]
      BY <3>4
    <3>. HIDE DEF s
    <3>6. Append(s, k) = [i \in 1..k |-> i]
      BY <3>3, <3>5
    <3>. QED
      BY <3>6 DEF s
  <2>6. PICK body \in Seq(Nat) : body = [i \in 1..k |-> i]
    <3>1. k \in Nat
      BY SizeAssumption
    <3>2. \A i \in 1..k : i \in Nat
      BY <3>1
    <3>3. [i \in 1..k |-> i] \in Seq(Nat)
      BY <3>1, <3>2
    <3>. QED
      BY <3>3
  <2>7. /\ stored.chunks = body /\ stored.received = k /\ stored.artifact = 0
        /\ stored.stored /\ ~stored.expired /\ stored \in UploadRow
    <3>1. Append(row.chunks, k) = body
      BY <2>4, <2>5, <2>6
    <3>2. stored = [row EXCEPT !.chunks = body, !.received = k]
      BY <2>2, <3>1 DEF UploadRow
    <3>3. k \in 0..Size
      BY SizeAssumption
    <3>4. stored \in UploadRow /\ stored.chunks = body /\ stored.received = k
      BY <2>6, <3>2, <3>3 DEF UploadRow
    <3>5. stored.artifact = row.artifact /\ stored.stored = row.stored /\ stored.expired = row.expired
      BY <3>2 DEF UploadRow
    <3>. QED
      BY <1>2, <2>3, <3>4, <3>5
  <2>8. CASE k < Size
    <3>1. /\ rows' = [rows EXCEPT ![u] = stored] /\ UNCHANGED <<artifacts, hours>>
          /\ AnswerProgress(a, k)
      BY <1>1, <1>2, <1>7, <2>1, <2>2, <2>8, SizeAssumption DEF StoreArtifactChunk, Write
    <3>2. Learns
      BY <1>3, <3>1, AnswerLearns
    <3>. QED
      BY <2>4, <2>6, <2>7, <2>8, <3>1, <3>2, UploadsStay
  <2>9. CASE k = Size
    <3>1. PICK f : f = [id |-> Cardinality(artifacts) + 1, upload |-> u, content |-> Body, hour |-> hours[u]]
      OBVIOUS
    <3>2. body = Body
      BY <2>6, <2>9 DEF Body
    <3>3. Assembled(u, stored.chunks) = f
      BY <2>7, <3>1, <3>2 DEF Assembled
    <3>4. /\ artifacts' = artifacts \cup {f}
          /\ rows' = [rows EXCEPT ![u] = CompleteUpload(stored, f)]
          /\ UNCHANGED hours
          /\ AnswerComplete(a, f.id)
      BY <1>1, <1>2, <1>7, <2>1, <2>2, <2>9, <3>3, SizeAssumption DEF StoreArtifactChunk, Write
    <3>5. f.id \in Nat /\ f.upload = u
      BY <3>1, FS_CardinalityType DEF UploadsInv, UploadTypes
    <3>6. Learns
      BY <1>1, <1>3, <3>4, <3>5, AnswerLearns
    <3>7. PICK done \in UploadRow : /\ done = CompleteUpload(stored, f)
                                   /\ done.stored /\ ~done.expired /\ done.artifact = f.id
      <4>1. <<>> \in Seq(Nat) /\ Size \in 0..Size
        BY SizeAssumption
      <4>2. PICK done : done = [stored EXCEPT !.chunks = <<>>, !.artifact = f.id, !.received = Size]
        OBVIOUS
      <4>3. done \in UploadRow /\ done.stored /\ ~done.expired /\ done.artifact = f.id
        BY <2>7, <3>5, <4>1, <4>2 DEF UploadRow
      <4>. QED
        BY <4>2, <4>3 DEF CompleteUpload
    <3>. QED
      BY <2>4, <3>1, <3>4, <3>6, <3>7, FinalChunk
  <2>. QED
    BY <2>8, <2>9, SizeAssumption
<1>. QED
  BY <1>4, <1>5, <1>6, <1>7

\* The rest: requests begin and fail, calls are lost, rows expire.
LEMMA UploadsNextInv == UploadsInv /\ [UploadsNext]_uploadVars => UploadsInv'
<1>. SUFFICES ASSUME UploadsInv, [UploadsNext]_uploadVars PROVE UploadsInv'
  OBVIOUS
<1>1. CASE UNCHANGED uploadVars
  BY <1>1 DEF uploadVars, UploadsInv, UploadTypes, RowsGrow, OneArtifactAnHour, ArtifactsWhole
<1>2. CASE \E a \in Attempts : UploadArtifact(a) \/ AttemptFails(a) \/ CallLost(a)
  <2>1. PICK a \in Attempts : UploadArtifact(a) \/ AttemptFails(a) \/ CallLost(a)
    BY <1>2
  <2>2. PICK o \in Attempt : o = attempts[a]
    BY DEF UploadsInv, UploadTypes
  <2>3. /\ UNCHANGED <<rows, artifacts, hours>>
        /\ attempts \in [Attempts -> Attempt] /\ 1 \in 0..Size /\ 0 \in 0..Size
    BY <2>1, SizeAssumption DEF UploadArtifact, AttemptFails, CallLost, UploadsInv, UploadTypes
  <2>4. PICK v \in Attempt : v.artifact = o.artifact /\ attempts' = [attempts EXCEPT ![a] = v]
    <3>1. CASE UploadArtifact(a)
      <4>1. [o EXCEPT !.pc = "sending", !.next = 1, !.call = 1] \in Attempt
        BY <2>3 DEF Attempt
      <4>. QED
        BY <2>2, <2>3, <3>1, <4>1 DEF UploadArtifact, Attempt
    <3>2. CASE AttemptFails(a)
      <4>1. [o EXCEPT !.pc = "failed"] \in Attempt
        BY DEF Attempt
      <4>. QED
        BY <2>2, <2>3, <3>2, <4>1 DEF AttemptFails, Attempt
    <3>3. CASE CallLost(a)
      <4>1. [o EXCEPT !.call = 0] \in Attempt
        BY <2>3 DEF Attempt
      <4>. QED
        BY <2>2, <2>3, <3>3, <4>1 DEF CallLost, Attempt
    <3>. QED
      BY <2>1, <3>1, <3>2, <3>3
  <2>5. Learns
    BY <2>2, <2>4, LearnsOne
  <2>. QED
    BY <2>3, <2>5, OthersStay
<1>3. CASE \E u \in Uploads : RowExpires(u) \/ PurgeExpiredArtifactUploads(u)
  <2>1. PICK u \in Uploads : RowExpires(u) \/ PurgeExpiredArtifactUploads(u)
    BY <1>3
  <2>2. PICK row \in UploadRow : row = rows[u]
    BY DEF UploadsInv, UploadTypes
  <2>3. UNCHANGED <<artifacts, attempts>> /\ Size \in Nat \ {0}
    BY <2>1, SizeAssumption DEF RowExpires, PurgeExpiredArtifactUploads
  <2>4. \A f \in artifacts : f.upload \in Uploads /\ f.hour \in Nat
    BY DEF UploadsInv, UploadTypes
  <2>5. PICK r \in UploadRow :
          /\ rows' = [rows EXCEPT ![u] = r]
          /\ r.artifact = 0 => r.received < Size /\ r.chunks = [k \in 1..r.received |-> k]
          /\ r.artifact # 0 => r.artifact = row.artifact
    <3>1. CASE RowExpires(u)
      <4>1. [row EXCEPT !.expired = TRUE] \in UploadRow
        BY DEF UploadRow
      <4>. QED
        BY <2>2, <3>1, <4>1 DEF RowExpires, Write, UploadRow, UploadsInv, RowsGrow
    <3>2. CASE PurgeExpiredArtifactUploads(u)
      <4>1. NoUpload \in UploadRow /\ NoUpload.artifact = 0 /\ NoUpload.received = 0
            /\ NoUpload.chunks = [k \in 1..0 |-> k]
        BY <2>3 DEF NoUpload, UploadRow
      <4>2. PICK r \in UploadRow : r = NoUpload
        BY <4>1
      <4>3. rows' = [rows EXCEPT ![u] = r]
        BY <3>2, <4>2 DEF PurgeExpiredArtifactUploads, Write
      <4>4. r.artifact = 0 /\ r.received < Size /\ r.chunks = [k \in 1..r.received |-> k]
        BY <2>3, <4>1, <4>2
      <4>. QED
        BY <4>3, <4>4
    <3>. QED
      BY <2>1, <3>1, <3>2
  <2>6. /\ rows' \in [Uploads -> UploadRow] /\ rows'[u] = r
        /\ \A x \in Uploads \ {u} : rows'[x] = rows[x]
    BY <2>5 DEF UploadsInv, UploadTypes
  <2>7. /\ hours' \in [Uploads -> Nat]
        /\ \A x \in Uploads \ {u} : hours'[x] = hours[x]
        /\ \A f \in artifacts : f.upload = u => f.hour < hours'[u]
    <3>1. hours \in [Uploads -> Nat] /\ hours[u] \in Nat
      BY DEF UploadsInv, UploadTypes
    <3>2. \A f \in artifacts : f.upload = u => f.hour <= hours[u] /\ (f.hour = hours[u] => ~rows[u].expired)
      BY DEF UploadsInv, OneArtifactAnHour
    <3>3. CASE RowExpires(u)
      <4>1. hours' = [hours EXCEPT ![u] = @ + 1]
        BY <3>3 DEF RowExpires
      <4>. QED
        BY <2>4, <3>1, <3>2, <4>1
    <3>4. CASE PurgeExpiredArtifactUploads(u)
      <4>1. hours' = hours /\ rows[u].expired
        BY <3>4 DEF PurgeExpiredArtifactUploads
      <4>. QED
        BY <2>4, <3>1, <3>2, <4>1
    <3>. QED
      BY <2>1, <3>3, <3>4
  <2>8. UploadTypes'
    BY <2>3, <2>6, <2>7 DEF UploadsInv, UploadTypes
  <2>9. RowsGrow'
    <3>1. \A x \in Uploads : rows[x].artifact # 0 =>
            \E f \in artifacts : f.id = rows[x].artifact /\ f.upload = x
      BY DEF UploadsInv, RowsGrow
    <3>2. ASSUME NEW x \in Uploads \ {u}
          PROVE  IF rows'[x].artifact = 0
                 THEN /\ rows'[x].received < Size
                      /\ rows'[x].chunks = [k \in 1..rows'[x].received |-> k]
                 ELSE \E f \in artifacts' : f.id = rows'[x].artifact /\ f.upload = x
      BY <2>3, <2>6 DEF UploadsInv, RowsGrow
    <3>3. r.artifact # 0 => \E f \in artifacts' : f.id = r.artifact /\ f.upload = u
      BY <2>2, <2>3, <2>5, <3>1
    <3>. QED
      BY <2>5, <2>6, <3>2, <3>3 DEF RowsGrow
  <2>10. OneArtifactAnHour'
    <3>1. ASSUME NEW f \in artifacts
          PROVE  /\ f.hour <= hours'[f.upload]
                 /\ f.hour = hours'[f.upload] =>
                      /\ rows'[f.upload].stored /\ ~rows'[f.upload].expired
                      /\ rows'[f.upload].artifact # 0
      <4>1. CASE f.upload = u
        BY <2>4, <2>7, <4>1 DEF UploadsInv, UploadTypes
      <4>2. CASE f.upload # u
        BY <2>4, <2>6, <2>7, <4>2 DEF UploadsInv, OneArtifactAnHour
      <4>. QED
        BY <4>1, <4>2
    <3>. QED
      BY <2>3, <3>1 DEF OneArtifactAnHour
  <2>11. ArtifactsWhole'
    BY <2>3 DEF UploadsInv, ArtifactsWhole
  <2>. QED
    BY <2>8, <2>9, <2>10, <2>11 DEF UploadsInv
<1>4. CASE \E a \in Attempts : \/ RepeatCompleted(a) \/ RepeatChunk(a)
                            \/ RefuseChunk(a) \/ StoreArtifactChunk(a)
  BY <1>4, ServedInv
<1>. QED
  BY <1>1, <1>2, <1>3, <1>4 DEF UploadsNext

\* An artifact is the whole body of its upload, in order, an upload makes one
\* artifact while its row lives, and a client is told of its own.
THEOREM UploadsAreWhole == UploadsSpec => []ArtifactsWhole
<1>1. UploadsInit => UploadsInv
  <2>. SUFFICES ASSUME UploadsInit PROVE UploadsInv
    OBVIOUS
  <2>1. Size \in Nat \ {0} /\ 0 \in 0..Size
    BY SizeAssumption
  <2>2. NoUpload \in UploadRow /\ NoUpload.artifact = 0 /\ NoUpload.received = 0
        /\ NoUpload.chunks = [k \in 1..0 |-> k]
    BY <2>1 DEF NoUpload, UploadRow
  <2>3. UploadTypes
    BY <2>1, <2>2, FS_EmptySet DEF UploadsInit, UploadTypes, Attempt
  <2>4. RowsGrow
    BY <2>1, <2>2 DEF UploadsInit, RowsGrow
  <2>5. OneArtifactAnHour /\ ArtifactsWhole
    BY DEF UploadsInit, OneArtifactAnHour, ArtifactsWhole
  <2>. QED
    BY <2>3, <2>4, <2>5 DEF UploadsInv
<1>2. UploadsInv => ArtifactsWhole
  BY DEF UploadsInv
<1>. QED
  BY <1>1, <1>2, UploadsNextInv, PTL DEF UploadsSpec

-----------------------------------------------------------------------------
(* Debug sessions *)

ExecRow == [state : {"absent", "expired"} \cup NonTerminal \cup Terminal,
            inst : Installations \cup {None}, device : Devices \cup {None},
            build : Builds \cup {None}, lease : BOOLEAN, ttl : BOOLEAN,
            endedBy : Executions \cup {None}]
\* The columns of an event; its route is not constrained here.
IsEvent(ev) ==
  /\ DOMAIN ev = {"pc", "session", "says", "inst", "device", "build", "execution"}
  /\ ev.execution \in Executions \cup {None}
EncodingTypes ==
  /\ DOMAIN encoding = {"pc", "inst", "device", "build", "execution", "by"}
  /\ encoding.pc \in {"idle", "asked", "encoded"}
EventTypes == events = [e \in Events |-> events[e]] /\ \A e \in Events : IsEvent(events[e])

SessionRow == [state : {"absent", "active"} \cup Terminal,
               inst : Installations \cup {None}, device : Devices \cup {None}]
Binding == [inst : Installations, profile : Profiles]

DebugTypes ==
  /\ installations \in [Installations -> [state : {"enabled", "disabled"}, build : Builds]]
  /\ bindings \in [Devices -> Binding \cup {None}]
  /\ execs \in [Executions -> ExecRow]
  /\ sessions \in [Executions -> SessionRow]
  /\ EventTypes
  /\ tokens \subseteq Executions
  /\ EncodingTypes

\* An execution that may still drive its device.
Current(row) ==
  /\ row.inst \in Installations /\ row.device \in Devices
  /\ installations[row.inst] = [state |-> "enabled", build |-> row.build]
  /\ Bound(row.device, row.inst)

PermissionsAreCurrent == \A x \in Executions : execs[x].state \in NonTerminal => Current(execs[x])

\* What has been encoded, by the build that was asked; what is queued.
EncodedAsAsked ==
  /\ encoding.pc = "encoded" => encoding.by = encoding.build
  /\ \A c \in queued : c.by = c.for

\* What the handling of an event knows.
EventsKnow ==
  \A e \in Events :
    LET ev == events[e] IN
    /\ ev.pc # "absent" => ev.session \in Executions /\ ev.says \in Reports
    /\ ev.pc \in {"updated", "completing"} =>
         ev.says \in Terminal /\ sessions[ev.session].state \in Terminal
    /\ ev.pc = "completing" => ev.execution = ev.session

DebugInv == /\ DebugTypes /\ PermissionsAreCurrent /\ EncodedAsAsked
            /\ EventsKnow /\ EndedByItsOwnSession

\* What is said of the table of executions, and of everything else.
ExecsInv ==
  /\ execs \in [Executions -> ExecRow]
  /\ PermissionsAreCurrent /\ EndedByItsOwnSession

OthersInv ==
  /\ sessions \in [Executions -> SessionRow]
  /\ EventTypes
  /\ tokens \subseteq Executions
  /\ EncodingTypes
  /\ EncodedAsAsked /\ EventsKnow

ScopeTypes ==
  /\ installations \in [Installations -> [state : {"enabled", "disabled"}, build : Builds]]
  /\ bindings \in [Devices -> Binding \cup {None}]

\* The invariant by what it is about.
LEMMA DebugInvParts == /\ DebugInv <=> ExecsInv /\ OthersInv /\ ScopeTypes
                       /\ DebugInv' <=> ExecsInv' /\ OthersInv' /\ ScopeTypes'
  BY DEF DebugInv, DebugTypes, ExecsInv, OthersInv, ScopeTypes

\* Nothing the executions depend on changes; ended sessions stay ended.
LEMMA ExecsStay ==
  ASSUME ExecsInv, UNCHANGED <<installations, bindings, execs>>,
         \A x \in Executions : sessions[x].state \in Terminal => sessions'[x].state \in Terminal
  PROVE  ExecsInv'
<1>1. PermissionsAreCurrent'
  BY DEF ExecsInv, PermissionsAreCurrent, Current, Bound
<1>2. EndedByItsOwnSession'
  BY DEF ExecsInv, EndedByItsOwnSession
<1>. QED
  BY <1>1, <1>2 DEF ExecsInv

\* One row is written.
LEMMA RowWritten ==
  ASSUME ExecsInv, UNCHANGED <<installations, bindings, sessions>>,
         NEW x \in Executions, NEW row \in ExecRow, Set(x, row),
         row.state \in NonTerminal => Current(row),
         row.endedBy # None => row.endedBy = x /\ sessions[x].state \in Terminal
  PROVE  ExecsInv'
<1>1. /\ execs' \in [Executions -> ExecRow] /\ execs'[x] = row
      /\ \A y \in Executions \ {x} : execs'[y] = execs[y]
  BY DEF ExecsInv, Set
<1>2. PermissionsAreCurrent'
  BY <1>1 DEF ExecsInv, PermissionsAreCurrent, Current, Bound
<1>3. EndedByItsOwnSession'
  BY <1>1 DEF ExecsInv, EndedByItsOwnSession
<1>. QED
  BY <1>1, <1>2, <1>3 DEF ExecsInv

\* A lease or an expiry changes: the row is for the same device, and its state
\* is the one it had or another in which nobody drives it.
LEMMA RowStays ==
  ASSUME ExecsInv, UNCHANGED <<installations, bindings, sessions>>,
         NEW x \in Executions, NEW row \in ExecRow, Set(x, row),
         row.inst = execs[x].inst, row.device = execs[x].device, row.build = execs[x].build,
         row.endedBy = execs[x].endedBy,
         row.state \in NonTerminal => execs[x].state \in NonTerminal
  PROVE  ExecsInv'
<1>1. row.state \in NonTerminal => Current(row)
  BY DEF ExecsInv, PermissionsAreCurrent, Current
<1>2. row.endedBy # None => row.endedBy = x /\ sessions[x].state \in Terminal
  BY DEF ExecsInv, EndedByItsOwnSession
<1>. QED
  BY <1>1, <1>2, RowWritten

\* An execution is ended, by its own session or by the manager.
LEMMA RowCompleted ==
  ASSUME ExecsInv, UNCHANGED <<installations, bindings, sessions>>,
         NEW x \in Executions, NEW state \in Terminal, NEW session \in Executions \cup {None},
         Set(x, Completed(x, state, session)),
         session # None => session = x /\ sessions[x].state \in Terminal
  PROVE  ExecsInv'
<1>1. PICK o \in ExecRow : o = execs[x]
  BY DEF ExecsInv
<1>2. PICK row : row = [o EXCEPT !.state = state, !.lease = FALSE, !.endedBy = session]
  OBVIOUS
<1>3. row \in ExecRow /\ row.state = state /\ row.endedBy = session
  BY <1>2 DEF ExecRow
<1>4. row = Completed(x, state, session)
  BY <1>1, <1>2 DEF Completed, Ended, ExecRow
<1>5. row.state \notin NonTerminal
  BY <1>3 DEF Terminal, NonTerminal
<1>. QED
  BY <1>3, <1>4, <1>5, RowWritten

\* What failing executions does to the table.
LEMMA Failing ==
  ASSUME ExecsInv, NEW S, FailDebugExecutions(S)
  PROVE  /\ execs' \in [Executions -> ExecRow]
         /\ \A x \in Executions :
              /\ execs'[x].endedBy = execs[x].endedBy
              /\ execs'[x].state \in NonTerminal => execs'[x] = execs[x] /\ x \notin S
<1>1. ASSUME NEW x \in Executions
      PROVE  /\ execs'[x] \in ExecRow /\ execs'[x].endedBy = execs[x].endedBy
             /\ execs'[x].state \in NonTerminal => execs'[x] = execs[x] /\ x \notin S
  <2>1. PICK o \in ExecRow : o = execs[x]
    BY DEF ExecsInv
  <2>2. execs'[x] = IF x \in S /\ o.state \in NonTerminal THEN Ended(o, "failed") ELSE o
    BY <2>1 DEF FailDebugExecutions
  <2>3. Ended(o, "failed") \in ExecRow /\ Ended(o, "failed").endedBy = o.endedBy
        /\ Ended(o, "failed").state = "failed"
    BY DEF Ended, ExecRow, Terminal
  <2>4. "failed" \notin NonTerminal
    BY DEF NonTerminal
  <2>. QED
    BY <2>1, <2>2, <2>3, <2>4
<1>2. execs' = [x \in Executions |-> execs'[x]]
  BY DEF FailDebugExecutions
<1>3. execs' \in [Executions -> ExecRow]
  BY <1>1, <1>2
<1>. QED
  BY <1>1, <1>3

\* Disabling, migrating and rebinding revoke what they make stale.
LEMMA LifecycleInv ==
  ASSUME DebugInv, Lifecycle
  PROVE  DebugInv'
<1>1. ExecsInv /\ OthersInv /\ ScopeTypes
  BY DebugInvParts
<1>2. UNCHANGED <<sessions, events, tokens, encoding, queued>>
  BY DEF Lifecycle, managerVars
<1>3. OthersInv'
  BY <1>1, <1>2 DEF OthersInv, EncodedAsAsked, EventsKnow, EventTypes, EncodingTypes
<1>4. ASSUME execs' \in [Executions -> ExecRow],
             \A x \in Executions : execs'[x].endedBy = execs[x].endedBy
      PROVE  EndedByItsOwnSession'
  BY <1>1, <1>2, <1>4 DEF ExecsInv, EndedByItsOwnSession
<1>5. ASSUME NEW i \in Installations, NEW s \in {"enabled", "disabled"}, SetInstallationState(i, s)
      PROVE  ExecsInv' /\ ScopeTypes'
  <2>1. PICK inst \in [state : {"enabled", "disabled"}, build : Builds] : inst = installations[i]
    BY <1>1 DEF ScopeTypes
  <2>2. PICK new \in [state : {"enabled", "disabled"}, build : Builds] :
          new = [state |-> s, build |-> inst.build]
    OBVIOUS
  <2>3. installations' = [installations EXCEPT ![i] = new] /\ UNCHANGED bindings
    <3>1. installations' = [installations EXCEPT ![i] = [installations[i] EXCEPT !.state = s]]
          /\ UNCHANGED bindings
      BY <1>5 DEF SetInstallationState
    <3>2. [inst EXCEPT !.state = s] = new
      BY <2>2
    <3>. QED
      BY <2>1, <3>1, <3>2
  <2>4. /\ installations' \in [Installations -> [state : {"enabled", "disabled"}, build : Builds]]
        /\ installations'[i] = new
        /\ \A j \in Installations \ {i} : installations'[j] = installations[j]
    BY <1>1, <2>3 DEF ScopeTypes
  <2>5. CASE s = "enabled"
    <3>1. UNCHANGED execs
      BY <1>5, <2>5 DEF SetInstallationState
    <3>2. installations[i].state = "enabled" => installations'[i] = installations[i]
      BY <2>1, <2>2, <2>4, <2>5
    <3>3. PermissionsAreCurrent'
      BY <1>1, <2>3, <2>4, <3>1, <3>2 DEF ExecsInv, PermissionsAreCurrent, Current, Bound
    <3>. QED
      BY <1>1, <1>4, <2>3, <2>4, <3>1, <3>3 DEF ExecsInv, ScopeTypes
  <2>6. CASE s = "disabled"
    <3>1. FailDebugExecutions(ExecutionsOf(i))
      BY <1>5, <2>6 DEF SetInstallationState
    <3>2. /\ execs' \in [Executions -> ExecRow]
          /\ \A x \in Executions :
               /\ execs'[x].endedBy = execs[x].endedBy
               /\ execs'[x].state \in NonTerminal => execs'[x] = execs[x] /\ x \notin ExecutionsOf(i)
      BY <1>1, <3>1, Failing
    <3>3. PermissionsAreCurrent'
      BY <1>1, <2>3, <2>4, <3>2 DEF ExecsInv, PermissionsAreCurrent, Current, Bound, ExecutionsOf
    <3>. QED
      BY <1>1, <1>4, <2>3, <2>4, <3>2, <3>3 DEF ExecsInv, ScopeTypes
  <2>. QED
    BY <2>5, <2>6
<1>6. ASSUME NEW i \in Installations, NEW b \in Builds, MigrateInstallation(i, b)
      PROVE  ExecsInv' /\ ScopeTypes'
  <2>1. /\ installations' = [installations EXCEPT ![i] = [state |-> "enabled", build |-> b]]
        /\ UNCHANGED bindings /\ FailDebugExecutions(ExecutionsOf(i))
    BY <1>6 DEF MigrateInstallation
  <2>2. /\ installations' \in [Installations -> [state : {"enabled", "disabled"}, build : Builds]]
        /\ \A j \in Installations \ {i} : installations'[j] = installations[j]
    BY <1>1, <2>1 DEF ScopeTypes
  <2>3. /\ execs' \in [Executions -> ExecRow]
        /\ \A x \in Executions :
             /\ execs'[x].endedBy = execs[x].endedBy
             /\ execs'[x].state \in NonTerminal => execs'[x] = execs[x] /\ x \notin ExecutionsOf(i)
    BY <1>1, <2>1, Failing
  <2>4. PermissionsAreCurrent'
    BY <1>1, <2>1, <2>2, <2>3 DEF ExecsInv, PermissionsAreCurrent, Current, Bound, ExecutionsOf
  <2>. QED
    BY <1>1, <1>4, <2>1, <2>2, <2>3, <2>4 DEF ExecsInv, ScopeTypes
<1>7. ASSUME NEW d \in Devices, NEW i \in Installations, NEW p \in Profiles, BindDevice(d, i, p)
      PROVE  ExecsInv' /\ ScopeTypes'
  <2>1. bindings' = [bindings EXCEPT ![d] = [inst |-> i, profile |-> p]] /\ UNCHANGED installations
    BY <1>7 DEF BindDevice
  <2>2. /\ bindings' \in [Devices -> Binding \cup {None}]
        /\ \A x \in Devices \ {d} : bindings'[x] = bindings[x]
    BY <1>1, <2>1 DEF ScopeTypes, Binding
  <2>3. CASE bindings'[d] = bindings[d]
    <3>1. UNCHANGED <<bindings, execs>>
      BY <1>1, <1>7, <2>1, <2>3 DEF BindDevice, ScopeTypes
    <3>. QED
      BY <1>1, <1>2, <2>1, <2>2, <3>1, ExecsStay DEF ScopeTypes
  <2>4. CASE bindings'[d] # bindings[d]
    <3>1. PICK S : /\ FailDebugExecutions(S)
                   /\ S = ExecutionsOn(d) \cap
                            (ExecutionsOf(i) \cup IF bindings[d] = None THEN {} ELSE ExecutionsOf(bindings[d].inst))
      BY <1>7, <2>4 DEF BindDevice, FailAtBindingChange
    <3>2. /\ execs' \in [Executions -> ExecRow]
          /\ \A x \in Executions :
               /\ execs'[x].endedBy = execs[x].endedBy
               /\ execs'[x].state \in NonTerminal => execs'[x] = execs[x] /\ x \notin S
      BY <1>1, <3>1, Failing
    <3>3. ASSUME NEW x \in Executions, execs'[x].state \in NonTerminal
          PROVE  Current(execs[x]) /\ execs'[x] = execs[x] /\ execs[x].device # d
      <4>1. Current(execs[x]) /\ execs'[x] = execs[x] /\ x \notin S
        BY <1>1, <3>2, <3>3 DEF ExecsInv, PermissionsAreCurrent
      <4>. QED
        BY <3>1, <4>1 DEF Current, Bound, ExecutionsOn, ExecutionsOf
    <3>4. PermissionsAreCurrent'
      BY <2>1, <2>2, <3>3 DEF PermissionsAreCurrent, Current, Bound
    <3>. QED
      BY <1>1, <1>4, <2>1, <2>2, <3>2, <3>4 DEF ExecsInv, ScopeTypes
  <2>. QED
    BY <2>3, <2>4
<1>8. ASSUME ChangeMembership PROVE ExecsInv' /\ ScopeTypes'
  <2>1. UNCHANGED <<installations, bindings, execs>>
    BY <1>8 DEF ChangeMembership
  <2>. QED
    BY <1>1, <1>2, <2>1, ExecsStay DEF ScopeTypes
<1>9. ExecsInv' /\ ScopeTypes'
  BY <1>5, <1>6, <1>7, <1>8 DEF Lifecycle
<1>. QED
  BY <1>3, <1>9, DebugInvParts

\* The rest is about sessions that end once, and about one event at a time.
LEMMA OthersMove ==
  ASSUME OthersInv, tokens' \subseteq Executions, UNCHANGED <<encoding, queued>>,
         sessions' \in [Executions -> SessionRow],
         \A x \in Executions : sessions[x].state \in Terminal => sessions'[x].state \in Terminal,
         EventTypes',
         \A e \in Events :
           \/ events'[e] = events[e]
           \/ /\ events'[e].pc # "absent" => events'[e].session \in Executions /\ events'[e].says \in Reports
              /\ events'[e].pc \in {"updated", "completing"} =>
                   events'[e].says \in Terminal /\ sessions'[events'[e].session].state \in Terminal
              /\ events'[e].pc = "completing" => events'[e].execution = events'[e].session
  PROVE  OthersInv'
<1>1. EncodedAsAsked'
  BY DEF OthersInv, EncodedAsAsked
<1>2. ASSUME NEW e \in Events
      PROVE  /\ events'[e].pc # "absent" => events'[e].session \in Executions /\ events'[e].says \in Reports
             /\ events'[e].pc \in {"updated", "completing"} =>
                  events'[e].says \in Terminal /\ sessions'[events'[e].session].state \in Terminal
             /\ events'[e].pc = "completing" => events'[e].execution = events'[e].session
  <2>1. CASE events'[e] = events[e]
    <3>1. /\ events[e].pc # "absent" => events[e].session \in Executions /\ events[e].says \in Reports
          /\ events[e].pc \in {"updated", "completing"} =>
               events[e].says \in Terminal /\ sessions[events[e].session].state \in Terminal
          /\ events[e].pc = "completing" => events[e].execution = events[e].session
      BY DEF OthersInv, EventsKnow
    <3>. QED
      BY <2>1, <3>1
  <2>. QED
    BY <2>1
<1>3. EventsKnow'
  BY <1>2 DEF EventsKnow
<1>. QED
  BY <1>1, <1>3 DEF OthersInv, EncodingTypes

\* Nothing is written but the manager's memory and its progress.
LEMMA QuietStep ==
  ASSUME DebugInv, tokens' \subseteq Executions,
         UNCHANGED <<installations, bindings, execs, sessions, events, encoding, queued>>
  PROVE  DebugInv'
<1>1. ExecsInv /\ OthersInv /\ ScopeTypes
  BY DebugInvParts
<1>2. ExecsInv'
  BY <1>1, ExecsStay
<1>3. OthersInv' /\ ScopeTypes'
  BY <1>1 DEF OthersInv, EncodedAsAsked, EventsKnow, EventTypes, EncodingTypes, ScopeTypes
<1>. QED
  BY <1>2, <1>3, DebugInvParts

\* Only executions, and the memory of their tokens, change.
LEMMA ExecsStep ==
  ASSUME DebugInv, ExecsInv', tokens' \subseteq Executions,
         UNCHANGED <<installations, bindings, sessions, events, encoding, queued>>
  PROVE  DebugInv'
<1>1. OthersInv /\ ScopeTypes
  BY DebugInvParts
<1>2. OthersInv' /\ ScopeTypes'
  BY <1>1 DEF OthersInv, EncodedAsAsked, EventsKnow, EventTypes, EncodingTypes, ScopeTypes
<1>. QED
  BY <1>2, DebugInvParts

\* A session is written, never one that has ended, while events stay.
LEMMA SessionStep ==
  ASSUME DebugInv, NEW x \in Executions, NEW row \in SessionRow,
         sessions' = sessions \/ (sessions[x].state \notin Terminal /\ sessions' = [sessions EXCEPT ![x] = row]),
         UNCHANGED <<installations, bindings, execs, tokens, events, encoding, queued>>
  PROVE  DebugInv'
<1>1. ExecsInv /\ OthersInv /\ ScopeTypes
  BY DebugInvParts
<1>2. /\ sessions' \in [Executions -> SessionRow]
      /\ \A y \in Executions : sessions[y].state \in Terminal => sessions'[y] = sessions[y]
  BY <1>1 DEF OthersInv
<1>3. ExecsInv'
  BY <1>1, <1>2, ExecsStay
<1>4. tokens' \subseteq Executions /\ EventTypes'
  BY <1>1 DEF OthersInv, EventTypes
<1>5. OthersInv'
  BY <1>1, <1>2, <1>4, OthersMove
<1>6. ScopeTypes'
  BY <1>1 DEF ScopeTypes
<1>. QED
  BY <1>3, <1>5, <1>6, DebugInvParts

\* Time passes, and the clock of the manager ends or pauses what is over.
LEMMA ClockInv ==
  ASSUME DebugInv, Clock
  PROVE  DebugInv'
<1>1. ExecsInv /\ OthersInv
  BY DebugInvParts
<1>2. UNCHANGED <<installations, bindings, sessions, tokens, events, encoding, queued>>
  BY DEF Clock, scopeVars, managerVars
<1>3. PICK x \in Executions :
        \/ execs[x].state \in NonTerminal /\ Set(x, Ended(execs[x], "expired"))
        \/ execs[x].state = "active" /\ Set(x, [execs[x] EXCEPT !.state = "paused"])
        \/ execs[x].state \in NonTerminal /\ Set(x, [execs[x] EXCEPT !.lease = FALSE])
        \/ execs[x].state \in NonTerminal /\ Set(x, [execs[x] EXCEPT !.lease = FALSE, !.ttl = FALSE])
  BY DEF Clock, ExpireDebugExecutions, TimePasses
<1>4. PICK o \in ExecRow : o = execs[x]
  BY <1>1 DEF ExecsInv
<1>5. PICK row : /\ row \in {Ended(o, "expired"), [o EXCEPT !.state = "paused"], [o EXCEPT !.lease = FALSE],
                             [o EXCEPT !.lease = FALSE, !.ttl = FALSE]}
                 /\ Set(x, row) /\ o.state \in NonTerminal
  <2>1. CASE execs[x].state \in NonTerminal /\ Set(x, Ended(execs[x], "expired"))
    BY <1>4, <2>1
  <2>2. CASE execs[x].state = "active" /\ Set(x, [execs[x] EXCEPT !.state = "paused"])
    BY <1>4, <2>2 DEF NonTerminal
  <2>3. CASE execs[x].state \in NonTerminal /\ Set(x, [execs[x] EXCEPT !.lease = FALSE])
    BY <1>4, <2>3
  <2>4. CASE execs[x].state \in NonTerminal /\ Set(x, [execs[x] EXCEPT !.lease = FALSE, !.ttl = FALSE])
    BY <1>4, <2>4
  <2>. QED
    BY <1>3, <2>1, <2>2, <2>3, <2>4
<1>6. /\ row \in ExecRow /\ row.inst = o.inst /\ row.device = o.device /\ row.build = o.build
      /\ row.endedBy = o.endedBy
  <2>1. CASE row = Ended(o, "expired")
    BY <2>1 DEF Ended, ExecRow
  <2>2. CASE row = [o EXCEPT !.state = "paused"]
    BY <2>2 DEF ExecRow, NonTerminal
  <2>3. CASE row = [o EXCEPT !.lease = FALSE]
    BY <2>3 DEF ExecRow
  <2>4. CASE row = [o EXCEPT !.lease = FALSE, !.ttl = FALSE]
    BY <2>4 DEF ExecRow
  <2>. QED
    BY <1>5, <2>1, <2>2, <2>3, <2>4
<1>7. ExecsInv'
  BY <1>1, <1>2, <1>4, <1>5, <1>6, RowStays
<1>8. tokens' \subseteq Executions
  BY <1>1, <1>2 DEF OthersInv
<1>. QED
  BY <1>2, <1>7, <1>8, ExecsStep

\* An execution is created for the installation its device is bound to.
LEMMA StartDebugExecutionInv ==
  ASSUME DebugInv, NEW x \in Executions, NEW i \in Installations, NEW d \in Devices,
         StartDebugExecution(x, i, d)
  PROVE  DebugInv'
<1>1. ExecsInv /\ OthersInv /\ ScopeTypes
  BY DebugInvParts
<1>2. UNCHANGED <<installations, bindings, sessions, events, encoding, queued>>
  BY DEF StartDebugExecution, scopeVars
<1>3. PICK b \in Builds : b = installations[i].build
  BY <1>1 DEF ScopeTypes
<1>4. PICK row : row = [state |-> "active", inst |-> i, device |-> d, build |-> b,
                        lease |-> TRUE, ttl |-> TRUE, endedBy |-> None]
  OBVIOUS
<1>5. row \in ExecRow
  BY <1>4 DEF ExecRow, NonTerminal
<1>6. Set(x, row) /\ Current(row) /\ row.endedBy = None
  BY <1>3, <1>4 DEF StartDebugExecution, CreateDebugExecution, Current
<1>7. ExecsInv'
  BY <1>1, <1>2, <1>5, <1>6, RowWritten
<1>8. tokens' \subseteq Executions
  BY <1>1 DEF StartDebugExecution, CacheExecutionCapability, OthersInv
<1>. QED
  BY <1>2, <1>7, <1>8, ExecsStep

\* The user's and the manager's steps of one execution.
LEMMA StartStepsInv ==
  ASSUME DebugInv, NEW x \in Executions, StartSteps(x)
  PROVE  DebugInv'
<1>1. ExecsInv /\ OthersInv /\ ScopeTypes
  BY DebugInvParts
<1>2. tokens \subseteq Executions
  BY <1>1 DEF OthersInv
<1>3. PICK o \in ExecRow : o = execs[x]
  BY <1>1 DEF ExecsInv
<1>4. CASE \E i \in Installations, d \in Devices : StartDebugExecution(x, i, d)
  BY <1>4, StartDebugExecutionInv
<1>5. CASE RequestSession(x) \/ RequestFails(x) \/ FinishStart(x) \/ AbortDebugSession(x)
  <2>1. UNCHANGED <<installations, bindings, execs, tokens, sessions, events, encoding, queued>>
    BY <1>5 DEF RequestSession, RequestFails, FinishStart, AbortDebugSession, scopeVars, managerVars
  <2>. QED
    BY <1>2, <2>1, QuietStep
<1>6. CASE PluginStartSession(x)
  <2>1. UNCHANGED <<installations, bindings, execs, tokens, events, encoding, queued>>
    BY <1>6 DEF PluginStartSession, scopeVars, managerVars
  <2>2. PICK row \in SessionRow : row = [state |-> "active", inst |-> o.inst, device |-> o.device]
    BY DEF SessionRow, ExecRow
  <2>3. sessions' = sessions \/ (sessions[x].state = "absent" /\ sessions' = [sessions EXCEPT ![x] = row])
    BY <1>3, <1>6, <2>2 DEF PluginStartSession, CreateDebugSession
  <2>4. "absent" \notin Terminal
    BY DEF Terminal
  <2>. QED
    BY <2>1, <2>3, <2>4, SessionStep
<1>7. CASE PluginAbortSession(x)
  <2>1. UNCHANGED <<installations, bindings, execs, tokens, events, encoding, queued>>
    BY <1>7 DEF PluginAbortSession, scopeVars, managerVars
  <2>2. PICK s \in SessionRow : s = sessions[x]
    BY <1>1 DEF OthersInv
  <2>3. [s EXCEPT !.state = "failed"] \in SessionRow
    BY DEF SessionRow, Terminal
  <2>4. \/ sessions' = sessions
        \/ /\ sessions[x].state \notin Terminal
           /\ sessions' = [sessions EXCEPT ![x] = [s EXCEPT !.state = "failed"]]
    BY <1>1, <1>7, <2>2 DEF PluginAbortSession, AbortSession, OthersInv
  <2>. QED
    BY <2>1, <2>3, <2>4, SessionStep
<1>8. CASE FailExecution(x)
  <2>1. UNCHANGED <<installations, bindings, sessions, events, encoding, queued>>
    BY <1>8 DEF FailExecution, scopeVars
  <2>2. execs' = execs \/ Set(x, Completed(x, "failed", None))
    BY <1>8 DEF FailExecution
  <2>3. "failed" \in Terminal
    BY DEF Terminal
  <2>4. ExecsInv'
    BY <1>1, <2>1, <2>2, <2>3, ExecsStay, RowCompleted
  <2>5. tokens' \subseteq Executions
    BY <1>2, <1>8 DEF FailExecution, ForgetExecutionCapability
  <2>. QED
    BY <2>1, <2>4, <2>5, ExecsStep
<1>9. CASE RenewLease(x) \/ ReleaseLease(x)
  <2>1. UNCHANGED <<installations, bindings, sessions, events, encoding, queued>>
    BY <1>9 DEF RenewLease, ReleaseLease, scopeVars
  <2>2. tokens' \subseteq Executions
    BY <1>2, <1>9 DEF RenewLease, ReleaseLease, ForgetExecutionCapability, managerVars
  <2>3. PICK row : row \in {[o EXCEPT !.lease = TRUE], [o EXCEPT !.state = "paused", !.lease = FALSE]}
                   /\ (execs' = execs \/ (Set(x, row) /\ o.state = "active"))
    BY <1>3, <1>9 DEF RenewLease, ReleaseLease, UserMayControl
  <2>4. /\ row \in ExecRow /\ row.inst = o.inst /\ row.device = o.device /\ row.build = o.build
        /\ row.endedBy = o.endedBy
    BY <2>3 DEF ExecRow, NonTerminal
  <2>5. "active" \in NonTerminal
    BY DEF NonTerminal
  <2>6. ExecsInv'
    BY <1>1, <1>3, <2>1, <2>3, <2>4, <2>5, ExecsStay, RowStays
  <2>. QED
    BY <2>1, <2>2, <2>6, ExecsStep
<1>. QED
  BY <1>4, <1>5, <1>6, <1>7, <1>8, <1>9 DEF StartSteps

\* One event moves on: executions and scope as they are, sessions growing.
LEMMA EventStep ==
  ASSUME DebugInv, NEW e \in Events, NEW v, IsEvent(v), events' = [events EXCEPT ![e] = v],
         v.pc # "absent" => v.session \in Executions /\ v.says \in Reports,
         v.pc \in {"updated", "completing"} =>
           v.says \in Terminal /\ sessions'[v.session].state \in Terminal,
         v.pc = "completing" => v.execution = v.session,
         ExecsInv', tokens' \subseteq Executions,
         sessions' \in [Executions -> SessionRow],
         \A x \in Executions : sessions[x].state \in Terminal => sessions'[x].state \in Terminal,
         UNCHANGED <<installations, bindings, encoding, queued>>
  PROVE  DebugInv'
<1>1. OthersInv /\ ScopeTypes
  BY DebugInvParts
<1>2. /\ EventTypes' /\ events'[e] = v
      /\ \A f \in Events \ {e} : events'[f] = events[f]
  BY <1>1 DEF OthersInv, EventTypes
<1>3. \A f \in Events :
        \/ events'[f] = events[f]
        \/ /\ events'[f].pc # "absent" => events'[f].session \in Executions /\ events'[f].says \in Reports
           /\ events'[f].pc \in {"updated", "completing"} =>
                events'[f].says \in Terminal /\ sessions'[events'[f].session].state \in Terminal
           /\ events'[f].pc = "completing" => events'[f].execution = events'[f].session
  BY <1>2
<1>4. OthersInv'
  BY <1>1, <1>2, <1>3, OthersMove
<1>5. ScopeTypes'
  BY <1>1 DEF ScopeTypes
<1>. QED
  BY <1>4, <1>5, DebugInvParts

\* An event is reported, routed, handled, repeated and answered.
LEMMA EventStepsInv ==
  ASSUME DebugInv, NEW e \in Events, EventSteps(e)
  PROVE  DebugInv'
<1>1. ExecsInv /\ OthersInv /\ ScopeTypes
  BY DebugInvParts
<1>2. /\ tokens \subseteq Executions /\ sessions \in [Executions -> SessionRow]
  BY <1>1 DEF OthersInv
<1>3. PICK ev : ev = events[e] /\ IsEvent(ev)
  BY <1>1 DEF OthersInv, EventTypes
<1>4. /\ ev.pc # "absent" => ev.session \in Executions /\ ev.says \in Reports
      /\ ev.pc \in {"updated", "completing"} =>
           ev.says \in Terminal /\ sessions[ev.session].state \in Terminal
      /\ ev.pc = "completing" => ev.execution = ev.session
  BY <1>1, <1>3 DEF OthersInv, EventsKnow
<1>5. ASSUME UNCHANGED <<installations, bindings, execs, sessions>> PROVE ExecsInv'
  BY <1>1, <1>5, ExecsStay
<1>7. ASSUME NEW pc
      PROVE  [ev EXCEPT !.pc = pc] = [ev EXCEPT !.pc = pc, !.execution = ev.execution]
  BY <1>3 DEF IsEvent
<1>8. ASSUME NEW x \in Executions, NEW says \in Reports, DeviceReports(e, x, says)
      PROVE  DebugInv'
  <2>1. PICK d, i, b :
          events' = [events EXCEPT ![e] = [pc |-> "queued", session |-> x, says |-> says, inst |-> i,
                                           device |-> d, build |-> b, execution |-> None]]
    BY <1>8 DEF DeviceReports
  <2>2. PICK v : v = [pc |-> "queued", session |-> x, says |-> says, inst |-> i,
                      device |-> d, build |-> b, execution |-> None]
    OBVIOUS
  <2>3. /\ IsEvent(v) /\ v.pc = "queued" /\ v.session = x /\ v.says = says
        /\ events' = [events EXCEPT ![e] = v]
    BY <2>1, <2>2 DEF IsEvent
  <2>4. UNCHANGED <<installations, bindings, execs, tokens, sessions, encoding, queued>>
    BY <1>8 DEF DeviceReports, scopeVars, managerVars
  <2>. QED
    BY <1>2, <1>5, <2>3, <2>4, EventStep
<1>9. CASE DispatchEvent(e)
  <2>1. UNCHANGED <<installations, bindings, execs, sessions, encoding, queued>>
    BY <1>9 DEF DispatchEvent, scopeVars
  <2>2. tokens' \subseteq Executions
    BY <1>2, <1>9 DEF DispatchEvent, ForgetExecutionCapability, managerVars
  <2>3. /\ ev.pc = "queued"
        /\ \E x \in tokens \cup {None} :
             events' = [events EXCEPT ![e] = [ev EXCEPT !.pc = "dispatched", !.execution = x]]
    <3>1. PICK x : /\ ev.pc = "queued" /\ x \in tokens \cup {None}
                   /\ events' = [events EXCEPT ![e].pc = "dispatched", ![e].execution = x]
      BY <1>3, <1>9 DEF DispatchEvent
    <3>2. events' = [events EXCEPT ![e] = [ev EXCEPT !.pc = "dispatched", !.execution = x]]
      BY <1>1, <1>3, <3>1 DEF OthersInv, EventTypes
    <3>. QED
      BY <3>1, <3>2
  <2>4. PICK x \in tokens \cup {None} :
          events' = [events EXCEPT ![e] = [ev EXCEPT !.pc = "dispatched", !.execution = x]]
    BY <2>3
  <2>5. PICK v : v = [ev EXCEPT !.pc = "dispatched", !.execution = x]
    OBVIOUS
  <2>6. /\ IsEvent(v) /\ v.pc = "dispatched" /\ v.session = ev.session /\ v.says = ev.says
    <3>1. x \in Executions \cup {None}
      BY <1>2
    <3>. QED
      BY <1>3, <2>5, <3>1 DEF IsEvent
  <2>. QED
    BY <1>2, <1>4, <1>5, <2>1, <2>2, <2>3, <2>4, <2>5, <2>6, EventStep
<1>10. CASE OnEvent(e)
  <2>1. UNCHANGED <<installations, bindings, execs, tokens, encoding, queued>>
    BY <1>10 DEF OnEvent, scopeVars, managerVars
  <2>2. ev.pc = "dispatched" /\ ev.session \in Executions /\ ev.says \in {"running", "completed", "failed"}
    BY <1>3, <1>4, <1>10, ReportsAreStates DEF OnEvent
  <2>3. PICK o \in SessionRow : o = sessions[ev.session]
    BY <1>2, <2>2
  <2>4. PICK row \in SessionRow : row = [o EXCEPT !.state = SessionState(ev.says)]
    BY <2>2 DEF SessionRow, SessionState, Terminal
  <2>5. /\ sessions' = IF ~SessionAvailable(ev) \/ o.state \in Terminal THEN sessions
                        ELSE [sessions EXCEPT ![ev.session] = row]
        /\ row.state = SessionState(ev.says)
    BY <1>2, <1>3, <1>10, <2>2, <2>3, <2>4 DEF OnEvent, UpdateDebugSessionState, SessionRow
  <2>6. /\ sessions' \in [Executions -> SessionRow]
        /\ \A x \in Executions : sessions[x].state \in Terminal => sessions'[x].state \in Terminal
        /\ SessionAvailable(ev) /\ ev.says \in Terminal => sessions'[ev.session].state \in Terminal
    BY <1>2, <2>2, <2>3, <2>4, <2>5 DEF SessionState, Terminal
  <2>7. PICK pc : /\ pc = IF SessionAvailable(ev) /\ ev.says \in Terminal /\ ev.execution # None
                           THEN "updated" ELSE "handled"
                  /\ events' = [events EXCEPT ![e].pc = pc]
    BY <1>3, <1>10 DEF OnEvent
  <2>8. PICK v : v = [ev EXCEPT !.pc = pc]
    OBVIOUS
  <2>9. events' = [events EXCEPT ![e] = v]
    BY <1>1, <1>3, <2>7, <2>8 DEF OthersInv, EventTypes
  <2>10. IsEvent(v) /\ v.pc = pc /\ v.session = ev.session /\ v.says = ev.says
    BY <1>3, <2>8 DEF IsEvent
  <2>11. ExecsInv'
    BY <1>1, <2>1, <2>6, ExecsStay
  <2>. QED
    BY <1>2, <1>4, <2>1, <2>2, <2>6, <2>7, <2>9, <2>10, <2>11, EventStep
<1>11. CASE PluginGetsExecution(e)
  <2>1. UNCHANGED <<installations, bindings, execs, tokens, sessions, encoding, queued>>
    BY <1>11 DEF PluginGetsExecution, scopeVars, managerVars
  <2>2. PICK pc : /\ ev.pc = "updated" /\ pc \in {"queued", "completing", "handled"}
                  /\ pc = "completing" => ev.execution = ev.session
                  /\ events' = [events EXCEPT ![e].pc = pc]
    BY <1>3, <1>11 DEF PluginGetsExecution, IsItsExecution
  <2>3. PICK v : v = [ev EXCEPT !.pc = pc]
    OBVIOUS
  <2>4. events' = [events EXCEPT ![e] = v]
    BY <1>1, <1>3, <2>2, <2>3 DEF OthersInv, EventTypes
  <2>5. IsEvent(v) /\ v.pc = pc /\ v.session = ev.session /\ v.says = ev.says /\ v.execution = ev.execution
    BY <1>3, <2>3 DEF IsEvent
  <2>. QED
    BY <1>2, <1>4, <1>5, <2>1, <2>2, <2>4, <2>5, EventStep
<1>12. CASE PluginCompletesExecution(e)
  <2>1. UNCHANGED <<installations, bindings, sessions, encoding, queued>>
    BY <1>12 DEF PluginCompletesExecution, scopeVars
  <2>2. PICK x : x = ev.execution
    OBVIOUS
  <2>3. /\ ev.pc = "completing" /\ x \in Executions /\ ev.session = x
        /\ ev.says \in Terminal /\ sessions[x].state \in Terminal
    BY <1>3, <1>4, <1>12, <2>2 DEF PluginCompletesExecution
  <2>4. \/ Set(x, Completed(x, ev.says, x)) /\ ForgetExecutionCapability(x)
        \/ UNCHANGED <<execs, tokens>>
    BY <1>3, <1>12, <2>2, <2>3 DEF PluginCompletesExecution, managerVars
  <2>5. tokens' \subseteq Executions
    BY <1>2, <2>4 DEF ForgetExecutionCapability
  <2>6. ExecsInv'
    BY <1>1, <2>1, <2>3, <2>4, ExecsStay, RowCompleted
  <2>7. PICK pc \in {"handled", "queued"} : events' = [events EXCEPT ![e].pc = pc]
    BY <1>12 DEF PluginCompletesExecution
  <2>8. PICK v : v = [ev EXCEPT !.pc = pc]
    OBVIOUS
  <2>9. events' = [events EXCEPT ![e] = v]
    BY <1>1, <1>3, <2>7, <2>8 DEF OthersInv, EventTypes
  <2>10. IsEvent(v) /\ v.pc = pc /\ v.session = ev.session /\ v.says = ev.says
    BY <1>3, <2>8 DEF IsEvent
  <2>. QED
    BY <1>2, <1>4, <2>1, <2>3, <2>5, <2>6, <2>7, <2>9, <2>10, EventStep
<1>13. CASE EventEnds(e)
  <2>1. UNCHANGED <<installations, bindings, execs, tokens, sessions, encoding, queued>>
    BY <1>13 DEF EventEnds, scopeVars, managerVars
  <2>2. PICK pc \in {"done", "queued"}, x \in Executions \cup {None} :
          /\ ev.pc # "absent"
          /\ events' = [events EXCEPT ![e] = [ev EXCEPT !.pc = pc, !.execution = x]]
    <3>1. CASE events[e].pc = "handled" /\ events' = [events EXCEPT ![e].pc = "done"]
      <4>1. events' = [events EXCEPT ![e] = [ev EXCEPT !.pc = "done"]]
        BY <1>1, <1>3, <3>1 DEF OthersInv, EventTypes
      <4>2. ev.execution \in Executions \cup {None}
        BY <1>3 DEF IsEvent
      <4>. QED
        BY <1>3, <1>7, <3>1, <4>1, <4>2
    <3>2. CASE /\ events[e].pc \in {"dispatched", "updated", "completing", "handled"}
               /\ events' = [events EXCEPT ![e].pc = "queued", ![e].execution = None]
      <4>1. events' = [events EXCEPT ![e] = [ev EXCEPT !.pc = "queued", !.execution = None]]
        BY <1>1, <1>3, <3>2 DEF OthersInv, EventTypes
      <4>. QED
        BY <1>3, <3>2, <4>1
    <3>. QED
      BY <1>13, <3>1, <3>2 DEF EventEnds
  <2>3. PICK v : v = [ev EXCEPT !.pc = pc, !.execution = x]
    OBVIOUS
  <2>4. IsEvent(v) /\ v.pc = pc /\ v.session = ev.session /\ v.says = ev.says
    BY <1>3, <2>3 DEF IsEvent
  <2>. QED
    BY <1>2, <1>4, <1>5, <2>1, <2>2, <2>3, <2>4, EventStep
<1>. QED
  BY <1>8, <1>9, <1>10, <1>11, <1>12, <1>13 DEF EventSteps

\* A new manager process continues no request; events go back to the queue.
LEMMA RestartInv ==
  ASSUME DebugInv, RestartManager
  PROVE  DebugInv'
<1>1. ExecsInv /\ OthersInv /\ ScopeTypes
  BY DebugInvParts
<1>2. /\ UNCHANGED <<installations, bindings, execs, sessions, queued>>
      /\ tokens' = {} /\ encoding' = NoEncoding
      /\ events' = [e \in Events |-> IF events[e].pc \in {"absent", "done"} THEN events[e]
                                    ELSE [events[e] EXCEPT !.pc = "queued", !.execution = None]]
  BY DEF RestartManager, scopeVars
<1>3. ASSUME NEW e \in Events
      PROVE  /\ IsEvent(events'[e])
             /\ events'[e].pc # "absent" => events'[e].session \in Executions /\ events'[e].says \in Reports
             /\ events'[e].pc \notin {"updated", "completing"}
  <2>1. PICK ev : ev = events[e] /\ IsEvent(ev)
    BY <1>1 DEF OthersInv, EventTypes
  <2>2. ev.pc # "absent" => ev.session \in Executions /\ ev.says \in Reports
    BY <1>1, <2>1 DEF OthersInv, EventsKnow
  <2>3. PICK v : v = [ev EXCEPT !.pc = "queued", !.execution = None]
    OBVIOUS
  <2>4. IsEvent(v) /\ v.pc = "queued" /\ v.session = ev.session /\ v.says = ev.says
    BY <2>1, <2>3 DEF IsEvent
  <2>5. events'[e] = IF ev.pc \in {"absent", "done"} THEN ev ELSE v
    BY <1>2, <2>1, <2>3
  <2>. QED
    BY <2>1, <2>2, <2>4, <2>5
<1>4. EventTypes' /\ EventsKnow'
  BY <1>2, <1>3 DEF EventTypes, EventsKnow
<1>5. ExecsInv'
  BY <1>1, <1>2, ExecsStay
<1>6. OthersInv' /\ ScopeTypes'
  BY <1>1, <1>2, <1>4 DEF OthersInv, EncodedAsAsked, EncodingTypes, ScopeTypes, NoEncoding
<1>. QED
  BY <1>5, <1>6, DebugInvParts

\* An action is encoded by the build it was asked of, and queued only while
\* that build is the installation's.
LEMMA ActionStepsInv ==
  ASSUME DebugInv, ActionSteps
  PROVE  DebugInv'
<1>1. ExecsInv /\ OthersInv /\ ScopeTypes
  BY DebugInvParts
<1>2. UNCHANGED <<installations, bindings, execs, tokens, sessions, events>>
  BY DEF ActionSteps, EncodeAction, PluginEncodes, EnqueueEncoded, scopeVars, managerVars
<1>3. EncodingTypes' /\ EncodedAsAsked'
  <2>1. CASE \E i \in Installations, d \in Devices, x \in Executions \cup {None} : EncodeAction(i, d, x)
    BY <1>1, <2>1 DEF OthersInv, EncodingTypes, EncodedAsAsked, EncodeAction
  <2>2. CASE PluginEncodes
    <3>1. queued' = queued /\ encoding.pc = "asked"
      BY <2>2 DEF PluginEncodes
    <3>2. CASE plug # encoding.build
      BY <1>1, <2>2, <3>1, <3>2 DEF OthersInv, EncodingTypes, EncodedAsAsked, PluginEncodes, NoEncoding
    <3>3. CASE plug = encoding.build
      <4>1. encoding' = [encoding EXCEPT !.pc = "encoded", !.by = plug]
        BY <2>2, <3>3 DEF PluginEncodes
      <4>2. DOMAIN encoding = {"pc", "inst", "device", "build", "execution", "by"}
        BY <1>1 DEF OthersInv, EncodingTypes
      <4>. QED
        BY <1>1, <3>1, <3>3, <4>1, <4>2 DEF OthersInv, EncodingTypes, EncodedAsAsked
    <3>. QED
      BY <3>2, <3>3
  <2>3. CASE EnqueueEncoded
    <3>1. encoding' = NoEncoding /\ encoding.pc = "encoded" /\ encoding.by = encoding.build
      BY <1>1, <2>3 DEF EnqueueEncoded, OthersInv, EncodingTypes, EncodedAsAsked
    <3>2. PICK i, d, b : i = encoding.inst /\ d = encoding.device /\ b = encoding.build
      OBVIOUS
    <3>3. \/ queued' = queued
          \/ /\ installations[i] = [state |-> "enabled", build |-> b] /\ Bound(d, i)
             /\ queued' = queued \cup {[by |-> b, for |-> installations[bindings[d].inst].build]}
      BY <2>3, <3>1, <3>2 DEF EnqueueEncoded
    <3>4. \A c \in queued' : c.by = c.for
      BY <1>1, <3>3 DEF OthersInv, EncodingTypes, EncodedAsAsked, Bound
    <3>. QED
      BY <3>1, <3>4 DEF EncodingTypes, EncodedAsAsked, NoEncoding
  <2>. QED
    BY <2>1, <2>2, <2>3 DEF ActionSteps
<1>4. ExecsInv'
  BY <1>1, <1>2, ExecsStay
<1>5. OthersInv' /\ ScopeTypes'
  BY <1>1, <1>2, <1>3 DEF OthersInv, EventsKnow, EventTypes, EncodingTypes, ScopeTypes
<1>. QED
  BY <1>4, <1>5, DebugInvParts

\* Every step keeps the invariant.
LEMMA DebugNextInv == DebugInv /\ [DebugNext]_vars => DebugInv'
<1>. SUFFICES ASSUME DebugInv, [DebugNext]_vars PROVE DebugInv'
  OBVIOUS
<1>1. tokens \subseteq Executions
  BY DEF DebugInv, DebugTypes
<1>2. CASE UNCHANGED vars
  <2>1. UNCHANGED <<installations, bindings, execs, tokens, sessions, events, encoding, queued>>
    BY <1>2 DEF vars, scopeVars, managerVars
  <2>. QED
    BY <1>1, <2>1, QuietStep
<1>3. CASE PruneExecutionCapabilities \/ \E b \in Builds : Redeploy(b)
  <2>1. UNCHANGED <<installations, bindings, execs, sessions, events, encoding, queued>>
    BY <1>3 DEF PruneExecutionCapabilities, Redeploy, scopeVars
  <2>2. tokens' \subseteq Executions
    BY <1>1, <1>3 DEF PruneExecutionCapabilities, Redeploy, ForgetExecutionCapability, managerVars
  <2>. QED
    BY <2>1, <2>2, QuietStep
<1>4. CASE \E x \in Executions : StartSteps(x)
  BY <1>4, StartStepsInv
<1>5. CASE \E e \in Events : EventSteps(e)
  BY <1>5, EventStepsInv
<1>. QED
  BY <1>2, <1>3, <1>4, <1>5, LifecycleInv, RestartInv, ClockInv, ActionStepsInv
  DEF DebugNext, ExecutionSteps

\* Permissions and commands are current, and the memory of what each
\* permission, event and encoded action rests on is right.
THEOREM DebugInvariant == DebugSpec => []DebugInv
<1>1. DebugInit => DebugInv
  <2>. SUFFICES ASSUME DebugInit PROVE DebugInv
    OBVIOUS
  <2>1. ScopeTypes
    BY DEF DebugInit, ScopeTypes, Binding
  <2>2. PICK none : none = NoExecution
    OBVIOUS
  <2>3. none \in ExecRow /\ none.state = "absent" /\ none.endedBy = None
    BY <2>2 DEF NoExecution, ExecRow
  <2>4. execs = [x \in Executions |-> none]
    BY <2>2 DEF DebugInit
  <2>5. ExecsInv
    BY <2>3, <2>4 DEF ExecsInv, PermissionsAreCurrent, EndedByItsOwnSession, NonTerminal
  <2>6. NoSession \in SessionRow
    BY DEF NoSession, SessionRow
  <2>7. IsEvent(NoEvent) /\ NoEvent.pc = "absent"
    BY DEF NoEvent, IsEvent
  <2>8. EventTypes /\ EventsKnow
    BY <2>7 DEF DebugInit, EventTypes, EventsKnow
  <2>9. OthersInv
    BY <2>6, <2>8 DEF DebugInit, OthersInv, EncodedAsAsked, EncodingTypes, NoEncoding
  <2>. QED
    BY <2>1, <2>5, <2>9, DebugInvParts
<1>. QED
  BY <1>1, DebugNextInv, PTL DEF DebugSpec

\* Whoever may drive a device does so through the installation it is bound to,
\* enabled and at the build that was granted; and so was every queued command
\* encoded.
THEOREM PermissionsStayCurrent == DebugSpec => []ControlIsCurrent
<1>1. DebugInv => ControlIsCurrent
  BY DEF DebugInv, PermissionsAreCurrent, Current, EncodedAsAsked, ControlIsCurrent
<1>. QED
  BY <1>1, DebugInvariant, PTL

\* An execution ended by an event was ended by an event of its own session,
\* which had ended.
THEOREM OldSessionsEndNothing == DebugSpec => []EndedByItsOwnSession
<1>1. DebugInv => EndedByItsOwnSession
  BY DEF DebugInv
<1>. QED
  BY <1>1, DebugInvariant, PTL

=============================================================================
