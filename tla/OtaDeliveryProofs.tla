------------------------- MODULE OtaDeliveryProofs -------------------------
(***************************************************************************)
(* Proofs about the delivery of firmware updates for every set of targets, *)
(* devices, releases and brokers, and every bound: types, that nothing is  *)
(* marked delivered that no loop published, and that the delivery          *)
(* implements the life of a target.                                        *)
(***************************************************************************)
EXTENDS OtaDelivery, TLAPS

\* A loop that is handling a target has one.
LoopsHoldTargets == \A w \in Workers : pc[w] # "idle" => job[w] \in Targets

\* Whatever a loop is about to mark, and whatever a device works on, was
\* published.
NoticesFirst ==
  /\ \A w \in Workers : pc[w] = "mark" => job[w] \in published
  /\ \A t \in Targets : progress[t] # {} => t \in published

\* Behind everything that can confirm a target there is a report: the reported
\* firmware, what createOtaJob read of it before its transaction, and the stat
\* message between its two statements.
Evidence ==
  /\ \A d \in Devices : reported[d] \in known[d]
  /\ \A t \in Targets : asked[t] = "running" => ReleaseOf[t] \in known[DeviceOf[t]]
  /\ \A d \in Devices : stat[d].step # "none" => stat[d].fw \in Releases
  /\ \A d \in Devices : stat[d].step = "confirm" => stat[d].fw \in known[d]

IInv ==
  /\ TypeOK
  /\ LoopsHoldTargets
  /\ NoticesFirst
  /\ Evidence
  /\ DeliveredWasPublished

-----------------------------------------------------------------------------
(* Types *)

\* What each statement leaves in a row of ota_targets.
LEMMA Rows ==
  ASSUME NEW r \in Target
  PROVE  /\ \A s \in {"pending", "completed"} : NewTarget(s) \in Target
         /\ [r EXCEPT !.state = "expired", !.lease = "none"] \in Target
         /\ [r EXCEPT !.state = "failed"] \in Target
         /\ [r EXCEPT !.state = "completed"] \in Target
         /\ [r EXCEPT !.state = "leased", !.lease = "held"] \in Target
         /\ [r EXCEPT !.state = "pending", !.lease = "none", !.ready = FALSE] \in Target
         /\ [r EXCEPT !.state = "delivered", !.lease = "none", !.stalled = FALSE] \in Target
         /\ [r EXCEPT !.lease = "lapsed"] \in Target
         /\ [r EXCEPT !.window = "past"] \in Target
         /\ [r EXCEPT !.ready = TRUE] \in Target
         /\ [r EXCEPT !.stalled = TRUE] \in Target
         /\ \A s \in {"delivering", "downloaded", "installed", "failed"} :
              [r EXCEPT !.state = s] \in Target
<1>1. \A s \in {"pending", "completed"} : NewTarget(s) \in Target
  BY DEF NewTarget, Target, Undelivered, Settled
<1>2. /\ [r EXCEPT !.state = "expired", !.lease = "none"] \in Target
      /\ [r EXCEPT !.state = "failed"] \in Target
      /\ [r EXCEPT !.state = "completed"] \in Target
  BY DEF Target, Settled
<1>3. /\ [r EXCEPT !.state = "leased", !.lease = "held"] \in Target
      /\ [r EXCEPT !.state = "pending", !.lease = "none", !.ready = FALSE] \in Target
  BY DEF Target, Undelivered
<1>4. [r EXCEPT !.state = "delivered", !.lease = "none", !.stalled = FALSE] \in Target
  BY DEF Target, Delivered
<1>5. /\ [r EXCEPT !.lease = "lapsed"] \in Target
      /\ [r EXCEPT !.window = "past"] \in Target
      /\ [r EXCEPT !.ready = TRUE] \in Target
      /\ [r EXCEPT !.stalled = TRUE] \in Target
  BY DEF Target
<1>6. ASSUME NEW s \in {"delivering", "downloaded", "installed", "failed"}
      PROVE  [r EXCEPT !.state = s] \in Target
  BY DEF Target, Delivered, Settled
<1>. QED
  BY <1>1, <1>2, <1>3, <1>4, <1>5, <1>6

\* Time passing moves one timestamp of one target, and no state.
LEMMA ClockRow ==
  ASSUME TypeOK, NEW t \in Targets, ClockStep(t)
  PROVE  /\ target' \in [Targets -> Target]
         /\ \A x \in Targets : target'[x].state = target[x].state
<1>. DEFINE r == target[t]
<1>. /\ r \in Target
     /\ target \in [Targets -> Target]
  BY DEF TypeOK
<1>1. CASE LeaseLapses(t)
  <2>. DEFINE q == [r EXCEPT !.lease = "lapsed"]
  <2>1. target' = [target EXCEPT ![t] = q]
    BY <1>1 DEF LeaseLapses
  <2>2. q \in Target
    BY Rows
  <2>3. q.state = r.state
    BY DEF Target
  <2>. HIDE DEF q
  <2>. QED
    BY <2>1, <2>2, <2>3
<1>2. CASE WindowPasses(t)
  <2>. DEFINE q == [r EXCEPT !.window = "past"]
  <2>1. target' = [target EXCEPT ![t] = q]
    BY <1>2 DEF WindowPasses
  <2>2. q \in Target
    BY Rows
  <2>3. q.state = r.state
    BY DEF Target
  <2>. HIDE DEF q
  <2>. QED
    BY <2>1, <2>2, <2>3
<1>3. CASE RetryDelayPasses(t)
  <2>. DEFINE q == [r EXCEPT !.ready = TRUE]
  <2>1. target' = [target EXCEPT ![t] = q]
    BY <1>3 DEF RetryDelayPasses
  <2>2. q \in Target
    BY Rows
  <2>3. q.state = r.state
    BY DEF Target
  <2>. HIDE DEF q
  <2>. QED
    BY <2>1, <2>2, <2>3
<1>4. CASE StallWindowPasses(t)
  <2>. DEFINE q == [r EXCEPT !.stalled = TRUE]
  <2>1. target' = [target EXCEPT ![t] = q]
    BY <1>4 DEF StallWindowPasses
  <2>2. q \in Target
    BY Rows
  <2>3. q.state = r.state
    BY DEF Target
  <2>. HIDE DEF q
  <2>. QED
    BY <2>1, <2>2, <2>3
<1>. QED
  BY <1>1, <1>2, <1>3, <1>4 DEF ClockStep

\* Steps of jobs, clocks and devices' results write one target.
LEMMA TargetStepType ==
  ASSUME TypeOK, NEW t \in Targets, JobStep(t) \/ ClockStep(t) \/ UpdateStep(t)
  PROVE  TypeOK'
<1>. USE DEF TypeOK, tables, loops, devices
<1>1. CASE CreateOtaJobReads(t)
  BY <1>1 DEF CreateOtaJobReads
<1>2. CASE CreateOtaJob(t)
  BY <1>2, Rows DEF CreateOtaJob
<1>3. CASE ClockStep(t)
  <2>1. target' \in [Targets -> Target]
    BY <1>3, ClockRow
  <2>. QED
    BY <1>3, <2>1 DEF ClockStep, LeaseLapses, WindowPasses, RetryDelayPasses, StallWindowPasses
<1>4. CASE DeviceDownload(t)
  BY <1>4, Rows DEF DeviceDownload, MarkOtaTargetDelivering
<1>5. ASSUME NEW s \in Stages, DeviceAdvances(t, s) PROVE TypeOK'
  BY <1>5, OtaAssumption DEF DeviceAdvances
<1>6. ASSUME NEW s \in Stages, RecordOtaResult(t, s) PROVE TypeOK'
  <2>1. s \in {"downloaded", "installed", "failed"}
    BY <1>6 DEF RecordOtaResult, Stages
  <2>2. target' = [target EXCEPT ![t] = [target[t] EXCEPT !.state = s]]
    BY <1>6 DEF RecordOtaResult
  <2>3. target' \in [Targets -> Target]
    BY <2>1, <2>2, Rows
  <2>. QED
    BY <1>6, <2>3 DEF RecordOtaResult
<1>. QED
  BY <1>1, <1>2, <1>3, <1>4, <1>5, <1>6 DEF JobStep, UpdateStep

\* Steps of a poll loop.
LEMMA LoopStepType ==
  ASSUME TypeOK, LoopsHoldTargets, NEW w \in Workers, LoopStep(w)
  PROVE  TypeOK'
<1>. USE DEF TypeOK, tables, loops, devices
<1>1. CASE ExpireOtaTargets(w)
  BY <1>1, Rows DEF ExpireOtaTargets, Update
<1>2. CASE ExpireStalledOtaTargets(w)
  BY <1>2, Rows DEF ExpireStalledOtaTargets, Update
<1>3. ASSUME NEW t \in Targets, LeaseNextOtaTarget(w, t) PROVE TypeOK'
  BY <1>3, Rows DEF LeaseNextOtaTarget
<1>4. CASE HandleLeasedOtaTarget(w)
  BY <1>4 DEF HandleLeasedOtaTarget
<1>5. CASE ReleaseOtaTarget(w)
  BY <1>5, Rows DEF ReleaseOtaTarget, CycleContinues, Update
<1>6. CASE MarkOtaTargetDelivered(w)
  BY <1>6, Rows DEF MarkOtaTargetDelivered, CycleContinues, Update
<1>7. CASE PublishToDevice(w)
  BY <1>7 DEF PublishToDevice, LoopsHoldTargets, Stages
<1>8. CASE PublishFails(w)
  BY <1>8, OtaAssumption DEF PublishFails
<1>9. CASE CycleFails(w)
  BY <1>9, OtaAssumption DEF CycleFails, CycleContinues
<1>10. CASE BrokerCrashes(w)
  BY <1>10, OtaAssumption DEF BrokerCrashes, CycleContinues, Quiet
<1>. QED
  BY <1>1, <1>2, <1>3, <1>4, <1>5, <1>6, <1>7, <1>8, <1>9, <1>10 DEF LoopStep

\* Steps of a device's session and of its stat messages.
LEMMA DeviceStepType ==
  ASSUME TypeOK, Evidence, NEW d \in Devices, DeviceStep(d)
  PROVE  TypeOK'
<1>. USE DEF TypeOK, tables, loops, devices
<1>1. CASE (\E w \in Workers : DeviceConnects(d, w)) \/ DeviceSubscribes(d) \/ DeviceDisconnects(d)
  BY <1>1, OtaAssumption DEF DeviceConnects, DeviceSubscribes, DeviceDisconnects
<1>2. CASE DeviceSendsStat(d)
  BY <1>2 DEF DeviceSendsStat
<1>3. CASE HandleStat(d)
  BY <1>3 DEF HandleStat, Evidence
<1>4. CASE ConfirmOtaTargetByFirmware(d)
  BY <1>4, Rows DEF ConfirmOtaTargetByFirmware, Update, Quiet
<1>5. CASE StatLost(d)
  BY <1>5, OtaAssumption DEF StatLost, Quiet
<1>6. ASSUME NEW r \in Releases, BindArtifact(d, r) PROVE TypeOK'
  BY <1>6 DEF BindArtifact
<1>. QED
  BY <1>1, <1>2, <1>3, <1>4, <1>5, <1>6 DEF DeviceStep

-----------------------------------------------------------------------------
(* The other parts of the invariant *)

\* Loops hold their target until the cycle continues, and mark it only after
\* publishing it; a device works only on notices it was sent.
LEMMA LoopKeepsNotices ==
  ASSUME IInv, NEW w \in Workers, LoopStep(w)
  PROVE  LoopsHoldTargets' /\ NoticesFirst'
<1>. USE DEF IInv, TypeOK, LoopsHoldTargets, NoticesFirst, loops, devices
<1>1. CASE ExpireOtaTargets(w) \/ ExpireStalledOtaTargets(w)
  BY <1>1 DEF ExpireOtaTargets, ExpireStalledOtaTargets
<1>2. ASSUME NEW t \in Targets, LeaseNextOtaTarget(w, t)
      PROVE  LoopsHoldTargets' /\ NoticesFirst'
  BY <1>2 DEF LeaseNextOtaTarget
<1>3. CASE HandleLeasedOtaTarget(w)
  BY <1>3 DEF HandleLeasedOtaTarget
<1>4. CASE ReleaseOtaTarget(w) \/ MarkOtaTargetDelivered(w)
  BY <1>4 DEF ReleaseOtaTarget, MarkOtaTargetDelivered, CycleContinues
<1>5. CASE PublishToDevice(w)
  BY <1>5 DEF PublishToDevice
<1>6. CASE PublishFails(w) \/ CycleFails(w) \/ BrokerCrashes(w)
  BY <1>6 DEF PublishFails, CycleFails, BrokerCrashes, CycleContinues
<1>. QED
  BY <1>1, <1>2, <1>3, <1>4, <1>5, <1>6 DEF LoopStep

\* Outside the loops only DeviceAdvances touches what these two parts read.
LEMMA OthersKeepNotices ==
  ASSUME IInv,
         \/ \E t \in Targets : JobStep(t) \/ ClockStep(t) \/ UpdateStep(t)
         \/ \E d \in Devices : DeviceStep(d)
  PROVE  LoopsHoldTargets' /\ NoticesFirst'
<1>. USE DEF IInv, TypeOK, LoopsHoldTargets, NoticesFirst, loops, devices
<1>1. ASSUME NEW t \in Targets, NEW s \in Stages, DeviceAdvances(t, s)
      PROVE  LoopsHoldTargets' /\ NoticesFirst'
  BY <1>1 DEF DeviceAdvances
<1>2. ASSUME NEW t \in Targets,
             \/ JobStep(t) \/ ClockStep(t) \/ DeviceDownload(t)
             \/ \E s \in Stages : RecordOtaResult(t, s)
      PROVE  LoopsHoldTargets' /\ NoticesFirst'
  BY <1>2 DEF JobStep, CreateOtaJobReads, CreateOtaJob, ClockStep, LeaseLapses, WindowPasses,
              RetryDelayPasses, StallWindowPasses, DeviceDownload, RecordOtaResult
<1>3. ASSUME NEW d \in Devices, DeviceStep(d)
      PROVE  LoopsHoldTargets' /\ NoticesFirst'
  BY <1>3 DEF DeviceStep, DeviceConnects, DeviceSubscribes, DeviceDisconnects, DeviceSendsStat,
              HandleStat, ConfirmOtaTargetByFirmware, StatLost, BindArtifact
<1>. QED
  BY <1>1, <1>2, <1>3 DEF UpdateStep

\* A report precedes whatever is concluded from it.
LEMMA EvidenceKept ==
  ASSUME IInv, Next
  PROVE  Evidence'
<1>. USE DEF IInv, TypeOK, Evidence, tables, loops, devices, Quiet
<1>1. ASSUME NEW t \in Targets, CreateOtaJobReads(t) PROVE Evidence'
  BY <1>1, OtaAssumption DEF CreateOtaJobReads
<1>2. ASSUME NEW t \in Targets, CreateOtaJob(t) \/ ClockStep(t) \/ UpdateStep(t)
      PROVE  Evidence'
  BY <1>2 DEF CreateOtaJob, ClockStep, LeaseLapses, WindowPasses, RetryDelayPasses,
              StallWindowPasses, UpdateStep, DeviceDownload, DeviceAdvances, RecordOtaResult
<1>3. ASSUME NEW w \in Workers, BrokerCrashes(w) PROVE Evidence'
  BY <1>3 DEF BrokerCrashes
<1>4. ASSUME NEW w \in Workers, LoopStep(w), ~BrokerCrashes(w) PROVE Evidence'
  <2>1. UNCHANGED <<reported, asked, stat, known>>
    BY <1>4 DEF LoopStep, ExpireOtaTargets, ExpireStalledOtaTargets, LeaseNextOtaTarget,
                HandleLeasedOtaTarget, ReleaseOtaTarget, MarkOtaTargetDelivered,
                PublishToDevice, PublishFails, CycleFails
  <2>. QED
    BY <2>1
<1>5. ASSUME NEW d \in Devices,
             \/ \E w \in Workers : DeviceConnects(d, w)
             \/ DeviceSubscribes(d) \/ DeviceDisconnects(d)
      PROVE  Evidence'
  BY <1>5 DEF DeviceConnects, DeviceSubscribes, DeviceDisconnects
<1>6. ASSUME NEW d \in Devices, DeviceSendsStat(d) PROVE Evidence'
  BY <1>6 DEF DeviceSendsStat
<1>7. ASSUME NEW d \in Devices, HandleStat(d) PROVE Evidence'
  BY <1>7, OtaAssumption DEF HandleStat
<1>8. ASSUME NEW d \in Devices, ConfirmOtaTargetByFirmware(d) \/ StatLost(d) PROVE Evidence'
  <2>1. UNCHANGED <<reported, asked, known>> /\ stat' = [stat EXCEPT ![d] = Quiet]
    BY <1>8 DEF ConfirmOtaTargetByFirmware, StatLost
  <2>. QED
    BY <2>1
<1>9. ASSUME NEW d \in Devices, NEW r \in Releases, BindArtifact(d, r) PROVE Evidence'
  BY <1>9, OtaAssumption DEF BindArtifact
<1>. QED
  BY <1>1, <1>2, <1>3, <1>4, <1>5, <1>6, <1>7, <1>8, <1>9
     DEF Next, JobStep, DeviceStep

\* Only a loop past its publish moves a target out of the lease, only a device
\* that got the notice reports on it, and the stall sweep takes what was
\* delivered.
LEMMA DeliveryKept ==
  ASSUME IInv, Next
  PROVE  DeliveredWasPublished'
<1>. USE DEF IInv, TypeOK, tables, loops, devices
<1>. DEFINE Out == Delivered \cup {"installed", "failed"}
<1>0. published \subseteq published'
  BY DEF Next, JobStep, CreateOtaJobReads, CreateOtaJob, ClockStep, LeaseLapses, WindowPasses,
         RetryDelayPasses, StallWindowPasses, UpdateStep, DeviceDownload, DeviceAdvances,
         RecordOtaResult, LoopStep, ExpireOtaTargets, ExpireStalledOtaTargets,
         LeaseNextOtaTarget, HandleLeasedOtaTarget, ReleaseOtaTarget, MarkOtaTargetDelivered,
         PublishToDevice, PublishFails, CycleFails, BrokerCrashes, DeviceStep, DeviceConnects,
         DeviceSubscribes, DeviceDisconnects, DeviceSendsStat, HandleStat,
         ConfirmOtaTargetByFirmware, StatLost, BindArtifact
<1>. SUFFICES ASSUME NEW x \in Targets, target'[x].state \in Out, x \notin published
              PROVE  x \in published'
  BY <1>0 DEF DeliveredWasPublished, InState
<1>1. target[x].state \notin Out
  BY DEF DeliveredWasPublished, InState
<1>2. target[x] \in Target
  OBVIOUS
<1>3. ASSUME NEW t \in Targets, JobStep(t) \/ ClockStep(t) PROVE FALSE
  <2>1. CASE JobStep(t)
    BY <1>1, <1>2, <2>1 DEF JobStep, CreateOtaJobReads, CreateOtaJob, NewTarget, Delivered
  <2>2. CASE ClockStep(t)
    <3>1. target'[x].state = target[x].state
      BY <2>2, ClockRow
    <3>. QED
      BY <1>1, <3>1
  <2>. QED
    BY <1>3, <2>1, <2>2
<1>4. ASSUME NEW t \in Targets, UpdateStep(t) PROVE FALSE
  BY <1>1, <1>2, <1>4
     DEF UpdateStep, DeviceDownload, MarkOtaTargetDelivering, DeviceAdvances, RecordOtaResult,
         Accepting, NoticesFirst, Target, Delivered
<1>5. ASSUME NEW w \in Workers, ExpireOtaTargets(w) \/ ReleaseOtaTarget(w) PROVE FALSE
  <2>1. target'[x].state \in {target[x].state, "expired", "pending"}
    <3>1. CASE ExpireOtaTargets(w)
      BY <1>2, <3>1 DEF ExpireOtaTargets, Update, Target
    <3>2. CASE ReleaseOtaTarget(w)
      BY <1>2, <3>2 DEF ReleaseOtaTarget, Update, Target
    <3>. QED
      BY <1>5, <3>1, <3>2
  <2>. QED
    BY <1>1, <2>1 DEF Delivered
<1>6. ASSUME NEW w \in Workers, ExpireStalledOtaTargets(w) PROVE FALSE
  BY <1>1, <1>2, <1>6 DEF ExpireStalledOtaTargets, Update, InState, Target, Delivered
<1>7. ASSUME NEW w \in Workers, NEW t \in Targets, LeaseNextOtaTarget(w, t) PROVE FALSE
  BY <1>1, <1>2, <1>7 DEF LeaseNextOtaTarget, Target, Delivered
<1>8. ASSUME NEW w \in Workers, MarkOtaTargetDelivered(w) PROVE FALSE
  BY <1>1, <1>2, <1>8 DEF MarkOtaTargetDelivered, Update, NoticesFirst
<1>9. ASSUME NEW w \in Workers,
             \/ HandleLeasedOtaTarget(w) \/ PublishToDevice(w) \/ PublishFails(w)
             \/ CycleFails(w) \/ BrokerCrashes(w)
      PROVE  FALSE
  BY <1>1, <1>9 DEF HandleLeasedOtaTarget, PublishToDevice, PublishFails, CycleFails,
                    BrokerCrashes
<1>10. ASSUME NEW d \in Devices, ConfirmOtaTargetByFirmware(d) PROVE FALSE
  BY <1>1, <1>2, <1>10 DEF ConfirmOtaTargetByFirmware, Update, Target, Delivered
<1>11. ASSUME NEW d \in Devices, DeviceStep(d), ~ConfirmOtaTargetByFirmware(d) PROVE FALSE
  BY <1>1, <1>11 DEF DeviceStep, DeviceConnects, DeviceSubscribes, DeviceDisconnects,
                     DeviceSendsStat, HandleStat, StatLost, BindArtifact
<1>. QED
  BY <1>3, <1>4, <1>5, <1>6, <1>7, <1>8, <1>9, <1>10, <1>11 DEF Next, LoopStep

-----------------------------------------------------------------------------
(* The invariant *)

\* The invariant holds at the start.
LEMMA InitKeeps == Init => IInv
<1>. SUFFICES ASSUME Init PROVE IInv
  OBVIOUS
<1>1. NewTarget("absent") \in Target /\ NewTarget("absent").state = "absent"
  BY DEF NewTarget, Target
<1>2. TypeOK
  BY <1>1, OtaAssumption DEF Init, TypeOK, Quiet
<1>3. LoopsHoldTargets /\ NoticesFirst /\ Evidence
  BY DEF Init, LoopsHoldTargets, NoticesFirst, Evidence, Quiet
<1>4. DeliveredWasPublished
  BY <1>1 DEF Init, DeliveredWasPublished, InState, Delivered
<1>. QED
  BY <1>2, <1>3, <1>4 DEF IInv

\* Every step keeps the invariant.
LEMMA NextKeeps == IInv /\ [Next]_vars => IInv'
<1>. SUFFICES ASSUME IInv, [Next]_vars PROVE IInv'
  OBVIOUS
<1>1. CASE Next
  <2>1. TypeOK'
    BY <1>1, TargetStepType, LoopStepType, DeviceStepType DEF IInv, Next
  <2>2. LoopsHoldTargets' /\ NoticesFirst'
    BY <1>1, LoopKeepsNotices, OthersKeepNotices DEF Next
  <2>3. Evidence' /\ DeliveredWasPublished'
    BY <1>1, EvidenceKept, DeliveryKept
  <2>. QED
    BY <2>1, <2>2, <2>3 DEF IInv
<1>2. CASE UNCHANGED vars
  BY <1>2 DEF vars, tables, loops, devices, IInv, TypeOK, LoopsHoldTargets, NoticesFirst,
              Evidence, DeliveredWasPublished, InState
<1>. QED
  BY <1>1, <1>2

\* The inductive invariant is an invariant of the delivery.
THEOREM Invariant == Spec => []IInv
  BY InitKeeps, NextKeeps, PTL DEF Spec

\* Every variable of the delivery keeps its type.
THEOREM TypeCorrect == Spec => []TypeOK
<1>1. IInv => TypeOK
  BY DEF IInv
<1>. QED
  BY <1>1, Invariant, PTL

\* A target is marked delivered, installed or failed by its device only after a
\* loop handed its notice to MQTT, whoever held the lease meanwhile.
THEOREM DeliveryIsPublication == Spec => []DeliveredWasPublished
<1>1. IInv => DeliveredWasPublished
  BY DEF IInv
<1>. QED
  BY <1>1, Invariant, PTL

-----------------------------------------------------------------------------
(* The life of a target *)

\* The life of a target by its state.
LEMMA Lives ==
  ASSUME NEW r \in Target
  PROVE  /\ r.state \in Undelivered \cup Delivered => LifeOf(r) = "open"
         /\ r.state = "expired" => LifeOf(r) = "failed"
         /\ r.state \in {"absent", "installed", "completed", "failed"} => LifeOf(r) = r.state
<1>1. CASE r.state \in Undelivered \cup Delivered
  <2>1. LifeOf(r) = "open"
    BY <1>1 DEF LifeOf, Undelivered, Delivered
  <2>. QED
    BY <1>1, <2>1 DEF Undelivered, Delivered
<1>2. CASE r.state \notin Undelivered \cup Delivered
  <2>1. LifeOf(r) = IF r.state = "expired" THEN "failed" ELSE r.state
    BY <1>2 DEF LifeOf
  <2>. QED
    BY <1>2, <2>1
<1>. QED
  BY <1>1, <1>2

\* A step that moves no target, and learns nothing, is not seen.
LEMMA Unseen ==
  ASSUME known' = known, \A t \in Targets : LifeOf(target'[t]) = LifeOf(target[t])
  PROVE  UNCHANGED Life!vars
  BY DEF Life!vars

\* A step that moves some open targets together.
LEMMA Moved ==
  ASSUME known' = known, NEW S \in SUBSET Targets, NEW s \in {"open", "installed", "failed"},
         \A t \in S : <<LifeOf(target[t]), s>> \in Life!Moves,
         \A t \in Targets : LifeOf(target'[t]) = IF t \in S THEN s ELSE LifeOf(target[t])
  PROVE  Life!Next
<1>1. Life!Move(S, s)
  BY DEF Life!Move
<1>. QED
  BY <1>1 DEF Life!Next

\* A step that confirms some targets together.
LEMMA Confirmed ==
  ASSUME known' = known, NEW S \in SUBSET Targets,
         \A t \in S : /\ LifeOf(target[t]) \in {"absent", "open", "installed"}
                      /\ ReleaseOf[t] \in known[DeviceOf[t]],
         \A t \in Targets :
           LifeOf(target'[t]) = IF t \in S THEN "completed" ELSE LifeOf(target[t])
  PROVE  Life!Next
<1>1. Life!Confirm(S)
  BY DEF Life!Confirm
<1>. QED
  BY <1>1 DEF Life!Next

\* A target is created open, or confirmed by what createOtaJob read before.
LEMMA CreateRefines ==
  ASSUME IInv, NEW t \in Targets, CreateOtaJob(t)
  PROVE  Life!Next
<1>. DEFINE q == NewTarget(IF asked[t] = "running" THEN "completed" ELSE "pending")
<1>0. target \in [Targets -> Target] /\ asked \in [Targets -> {"no", "other", "running"}]
  BY DEF IInv, TypeOK
<1>1. /\ known' = known /\ target[t].state = "absent"
      /\ \A x \in Targets : target'[x] = IF x = t THEN q ELSE target[x]
  BY <1>0 DEF CreateOtaJob
<1>2. LifeOf(target[t]) = "absent"
  BY <1>0, <1>1, Lives
<1>3. CASE asked[t] = "running"
  <2>1. q \in Target /\ q.state = "completed"
    BY <1>0, <1>3, Rows DEF NewTarget
  <2>2. LifeOf(q) = "completed"
    BY <2>1, Lives
  <2>3. ReleaseOf[t] \in known[DeviceOf[t]]
    BY <1>3 DEF IInv, Evidence
  <2>4. /\ \A x \in {t} : /\ LifeOf(target[x]) \in {"absent", "open", "installed"}
                         /\ ReleaseOf[x] \in known[DeviceOf[x]]
        /\ \A x \in Targets :
             LifeOf(target'[x]) = IF x \in {t} THEN "completed" ELSE LifeOf(target[x])
    BY <1>1, <1>2, <2>2, <2>3
  <2>. HIDE DEF q
  <2>. QED
    BY <1>1, <2>4, {t} \in SUBSET Targets, Confirmed
<1>4. CASE asked[t] # "running"
  <2>1. q \in Target /\ q.state = "pending"
    BY <1>0, <1>4, Rows DEF NewTarget
  <2>2. LifeOf(q) = "open"
    BY <2>1, Lives DEF Undelivered
  <2>3. <<LifeOf(target[t]), "open">> \in Life!Moves
    BY <1>2 DEF Life!Moves
  <2>4. /\ \A x \in {t} : <<LifeOf(target[x]), "open">> \in Life!Moves
        /\ \A x \in Targets :
             LifeOf(target'[x]) = IF x \in {t} THEN "open" ELSE LifeOf(target[x])
    BY <1>1, <2>2, <2>3
  <2>. HIDE DEF q
  <2>. QED
    BY <1>1, <2>4, {t} \in SUBSET Targets, Moved
<1>. QED
  BY <1>3, <1>4

\* A result moves a delivered target, once.
LEMMA ResultRefines ==
  ASSUME IInv, NEW t \in Targets, NEW s \in Stages, RecordOtaResult(t, s)
  PROVE  Life!Next \/ UNCHANGED Life!vars
<1>. DEFINE q == [target[t] EXCEPT !.state = s]
<1>0. target \in [Targets -> Target]
  BY DEF IInv, TypeOK
<1>1. s \in {"downloaded", "installed", "failed"}
  BY DEF RecordOtaResult, Stages
<1>2. /\ known' = known /\ target[t].state \in Delivered
      /\ \A x \in Targets : target'[x] = IF x = t THEN q ELSE target[x]
  BY <1>0 DEF RecordOtaResult, Accepting, Delivered
<1>3. q \in Target
  BY <1>0, <1>1, Rows
<1>4. q.state = s
  BY <1>0 DEF Target
<1>5. LifeOf(target[t]) = "open"
  BY <1>0, <1>2, Lives
<1>. HIDE DEF q
<1>6. CASE s = "downloaded"
  <2>1. LifeOf(q) = "open"
    BY <1>3, <1>4, <1>6, Lives DEF Delivered
  <2>. QED
    BY <1>2, <1>5, <2>1, Unseen
<1>7. CASE s \in {"installed", "failed"}
  <2>1. LifeOf(q) = s
    BY <1>3, <1>4, <1>7, Lives
  <2>2. <<LifeOf(target[t]), s>> \in Life!Moves
    BY <1>5, <1>7 DEF Life!Moves
  <2>3. /\ \A x \in {t} : <<LifeOf(target[x]), s>> \in Life!Moves
        /\ \A x \in Targets :
             LifeOf(target'[x]) = IF x \in {t} THEN s ELSE LifeOf(target[x])
    BY <1>2, <2>1, <2>2
  <2>. QED
    BY <1>2, <1>7, <2>3, {t} \in SUBSET Targets, Moved
<1>. QED
  BY <1>1, <1>6, <1>7

\* Both sweeps fail open targets: the ones nobody sent, and the ones no device
\* answered.
LEMMA SweepRefines ==
  ASSUME IInv, NEW w \in Workers, ExpireOtaTargets(w) \/ ExpireStalledOtaTargets(w)
  PROVE  Life!Next
<1>0. target \in [Targets -> Target]
  BY DEF IInv, TypeOK
<1>1. PICK S \in SUBSET Targets :
        /\ \A t \in S : target[t].state \in Undelivered \cup Delivered
        /\ \A t \in Targets \ S : target'[t] = target[t]
        /\ \A t \in S : /\ target'[t] \in Target
                       /\ target'[t].state \in {"expired", "failed"}
  <2>1. CASE ExpireOtaTargets(w)
    <3>1. PICK S \in SUBSET Targets : S = {t \in Targets : Expirable(target[t])}
      OBVIOUS
    <3>2. target' = [t \in Targets |-> IF t \in S
                       THEN [target[t] EXCEPT !.state = "expired", !.lease = "none"]
                       ELSE target[t]]
      BY <2>1, <3>1 DEF ExpireOtaTargets, Update
    <3>3. \A t \in S : target[t].state \in Undelivered
      BY <3>1 DEF Expirable, Undelivered
    <3>4. \A t \in S : target'[t] \in Target
      BY <1>0, <3>2, Rows
    <3>5. \A t \in S : target'[t].state = "expired"
      BY <1>0, <3>2 DEF Target
    <3>6. \A t \in Targets \ S : target'[t] = target[t]
      BY <3>2
    <3>. QED
      BY <3>3, <3>4, <3>5, <3>6
  <2>2. CASE ExpireStalledOtaTargets(w)
    <3>1. PICK S \in SUBSET Targets : S = {t \in InState(Delivered) : target[t].stalled}
      BY DEF InState
    <3>2. target' = [t \in Targets |-> IF t \in S THEN [target[t] EXCEPT !.state = "failed"]
                                                 ELSE target[t]]
      BY <2>2, <3>1 DEF ExpireStalledOtaTargets, Update
    <3>3. \A t \in S : target[t].state \in Delivered
      BY <3>1 DEF InState
    <3>4. \A t \in S : target'[t] \in Target
      BY <1>0, <3>2, Rows
    <3>5. \A t \in S : target'[t].state = "failed"
      BY <1>0, <3>2 DEF Target
    <3>6. \A t \in Targets \ S : target'[t] = target[t]
      BY <3>2
    <3>. QED
      BY <3>3, <3>4, <3>5, <3>6
  <2>. QED
    BY <2>1, <2>2
<1>2. known' = known
  BY DEF ExpireOtaTargets, ExpireStalledOtaTargets
<1>3. \A t \in S : LifeOf(target[t]) = "open" /\ LifeOf(target'[t]) = "failed"
  BY <1>0, <1>1, Lives
<1>4. \A t \in S : <<LifeOf(target[t]), "failed">> \in Life!Moves
  BY <1>3 DEF Life!Moves
<1>. QED
  BY <1>1, <1>2, <1>3, <1>4, Moved

\* A stat message confirms the targets of the firmware it reported, even when
\* the device's row has been overwritten between its two statements.
LEMMA ConfirmRefines ==
  ASSUME IInv, NEW d \in Devices, ConfirmOtaTargetByFirmware(d)
  PROVE  Life!Next
<1>0. target \in [Targets -> Target]
  BY DEF IInv, TypeOK
<1>1. PICK S \in SUBSET Targets :
        S = {t \in InState(Delivered \cup {"installed"}) :
               DeviceOf[t] = d /\ ReleaseOf[t] = stat[d].fw}
  BY DEF InState
<1>2. target' = [t \in Targets |-> IF t \in S THEN [target[t] EXCEPT !.state = "completed"]
                                             ELSE target[t]]
  BY <1>1 DEF ConfirmOtaTargetByFirmware, Update
<1>3. known' = known
  BY DEF ConfirmOtaTargetByFirmware
<1>4. \A t \in S : /\ target[t].state \in Delivered \cup {"installed"}
                  /\ ReleaseOf[t] \in known[DeviceOf[t]]
  BY <1>1 DEF InState, ConfirmOtaTargetByFirmware, IInv, Evidence
<1>5. \A t \in S : LifeOf(target[t]) \in {"open", "installed"}
  BY <1>0, <1>4, Lives
<1>6. \A t \in S : target'[t] \in Target
  BY <1>0, <1>2, Rows
<1>7. \A t \in S : target'[t].state = "completed"
  BY <1>0, <1>2 DEF Target
<1>8. \A t \in S : LifeOf(target'[t]) = "completed"
  BY <1>6, <1>7, Lives
<1>9. \A t \in Targets : t \notin S => LifeOf(target'[t]) = LifeOf(target[t])
  BY <1>2
<1>. QED
  BY <1>3, <1>4, <1>5, <1>8, <1>9, Confirmed

\* Reports and bindings teach the platform a device's firmware.
LEMMA LearnRefines ==
  ASSUME IInv, NEW d \in Devices,
         HandleStat(d) \/ \E r \in Releases : BindArtifact(d, r)
  PROVE  Life!Next
<1>1. PICK r \in Releases : known' = [known EXCEPT ![d] = @ \cup {r}]
  BY DEF HandleStat, BindArtifact, IInv, Evidence
<1>2. target' = target
  BY DEF HandleStat, BindArtifact
<1>3. Life!Learn(d, r)
  BY <1>1, <1>2 DEF Life!Learn
<1>. QED
  BY <1>3 DEF Life!Next

\* Leasing, deferring, marking, time and the download leave a target open.
LEMMA OpenStaysOpen ==
  ASSUME IInv,
         \/ \E w \in Workers : \/ \E t \in Targets : LeaseNextOtaTarget(w, t)
                             \/ ReleaseOtaTarget(w) \/ MarkOtaTargetDelivered(w)
         \/ \E t \in Targets : ClockStep(t) \/ DeviceDownload(t)
  PROVE  UNCHANGED Life!vars
<1>0. target \in [Targets -> Target]
  BY DEF IInv, TypeOK
<1>1. target' \in [Targets -> Target]
  <2>1. TypeOK'
    BY TargetStepType, LoopStepType DEF IInv, LoopStep, UpdateStep
  <2>. QED
    BY <2>1 DEF TypeOK
<1>2. known' = known
  BY DEF LeaseNextOtaTarget, ReleaseOtaTarget, MarkOtaTargetDelivered, ClockStep, LeaseLapses,
         WindowPasses, RetryDelayPasses, StallWindowPasses, DeviceDownload
<1>3. ASSUME NEW x \in Targets
      PROVE  \/ target'[x].state = target[x].state
             \/ /\ target[x].state \in Undelivered \cup Delivered
                /\ target'[x].state \in Undelivered \cup Delivered
  <2>1. target[x] \in Target
    BY <1>0
  <2>2. ASSUME NEW w \in Workers, NEW t \in Targets, LeaseNextOtaTarget(w, t)
        PROVE  \/ target'[x] = target[x]
               \/ target[x].state \in Undelivered /\ target'[x].state = "leased"
    BY <1>0, <2>1, <2>2 DEF LeaseNextOtaTarget, Target, Undelivered
  <2>3. ASSUME NEW w \in Workers, ReleaseOtaTarget(w)
        PROVE  \/ target'[x] = target[x]
               \/ target[x].state = "leased" /\ target'[x].state = "pending"
    BY <1>0, <2>1, <2>3 DEF ReleaseOtaTarget, Update, InState, Target
  <2>4. ASSUME NEW w \in Workers, MarkOtaTargetDelivered(w)
        PROVE  \/ target'[x] = target[x]
               \/ target[x].state = "leased" /\ target'[x].state = "delivered"
    BY <1>0, <2>1, <2>4 DEF MarkOtaTargetDelivered, Update, InState, Target
  <2>5. ASSUME NEW t \in Targets, ClockStep(t)
        PROVE  target'[x].state = target[x].state
    BY <2>5, ClockRow DEF IInv
  <2>6. ASSUME NEW t \in Targets, DeviceDownload(t)
        PROVE  \/ target'[x] = target[x]
               \/ target[x].state = "delivered" /\ target'[x].state = "delivering"
    BY <1>0, <2>1, <2>6 DEF DeviceDownload, MarkOtaTargetDelivering, Target
  <2>. QED
    BY <2>2, <2>3, <2>4, <2>5, <2>6 DEF Undelivered, Delivered
<1>4. ASSUME NEW x \in Targets PROVE LifeOf(target'[x]) = LifeOf(target[x])
  <2>1. CASE target'[x].state = target[x].state
    BY <2>1 DEF LifeOf
  <2>2. CASE /\ target[x].state \in Undelivered \cup Delivered
             /\ target'[x].state \in Undelivered \cup Delivered
    BY <1>0, <1>1, <2>2, Lives
  <2>. QED
    BY <1>3, <2>1, <2>2
<1>. QED
  BY <1>2, <1>4, Unseen

\* Every other step leaves the targets and the reports alone.
LEMMA TargetsUntouched ==
  ASSUME \/ \E t \in Targets : CreateOtaJobReads(t) \/ \E s \in Stages : DeviceAdvances(t, s)
         \/ \E w \in Workers : \/ HandleLeasedOtaTarget(w) \/ PublishToDevice(w)
                             \/ PublishFails(w) \/ CycleFails(w) \/ BrokerCrashes(w)
         \/ \E d \in Devices : \/ \E w \in Workers : DeviceConnects(d, w)
                             \/ DeviceSubscribes(d) \/ DeviceDisconnects(d)
                             \/ DeviceSendsStat(d) \/ StatLost(d)
         \/ UNCHANGED vars
  PROVE  UNCHANGED Life!vars
<1>1. target' = target /\ known' = known
  BY DEF CreateOtaJobReads, DeviceAdvances, HandleLeasedOtaTarget, PublishToDevice,
         PublishFails, CycleFails, BrokerCrashes, DeviceConnects, DeviceSubscribes,
         DeviceDisconnects, DeviceSendsStat, StatLost, vars, tables
<1>. QED
  BY <1>1, Unseen

\* The delivery, with its leases, sweeps, crashes, lost stat messages, repeated
\* and overtaken results, implements the life of a target: it moves only
\* towards its end, and to `completed' only on a report of its release.
THEOREM DeliveryKeepsTargetLife == Spec => KeepsTargetLife
<1>1. Init => Life!Init
  <2>. SUFFICES ASSUME Init PROVE Life!Init
    OBVIOUS
  <2>1. NewTarget("absent") \in Target /\ NewTarget("absent").state = "absent"
    BY DEF NewTarget, Target
  <2>2. LifeOf(NewTarget("absent")) = "absent"
    BY <2>1, Lives
  <2>. QED
    BY <2>2, OtaAssumption DEF Init, Life!Init
<1>2. IInv /\ [Next]_vars => [Life!Next]_(Life!vars)
  <2>. SUFFICES ASSUME IInv, [Next]_vars PROVE Life!Next \/ UNCHANGED Life!vars
    OBVIOUS
  <2>1. ASSUME NEW t \in Targets, JobStep(t) \/ ClockStep(t) \/ UpdateStep(t)
        PROVE  Life!Next \/ UNCHANGED Life!vars
    BY <2>1, CreateRefines, ResultRefines, OpenStaysOpen, TargetsUntouched
       DEF JobStep, UpdateStep
  <2>2. ASSUME NEW w \in Workers, LoopStep(w) PROVE Life!Next \/ UNCHANGED Life!vars
    BY <2>2, SweepRefines, OpenStaysOpen, TargetsUntouched DEF LoopStep
  <2>3. ASSUME NEW d \in Devices, DeviceStep(d) PROVE Life!Next \/ UNCHANGED Life!vars
    BY <2>3, ConfirmRefines, LearnRefines, TargetsUntouched DEF DeviceStep
  <2>4. CASE UNCHANGED vars
    BY <2>4, TargetsUntouched
  <2>. QED
    BY <2>1, <2>2, <2>3, <2>4 DEF Next
<1>. QED
  BY <1>1, <1>2, Invariant, PTL DEF Spec, KeepsTargetLife, Life!Spec

=============================================================================
