------------------------------ MODULE Rollout ------------------------------
(***************************************************************************)
(* Phased firmware deployment (packages/core/src/ota/rollout.ts): the      *)
(* tables of one rollout, its pool and its phases, the OTA jobs they       *)
(* create, the advance loop every API process runs                         *)
(* (packages/api/src/rollout-poller.ts), and the pause, resume, abort and  *)
(* rollback requests of packages/api/src/api/rollout.ts.                   *)
(*                                                                         *)
(* A statement or an interactive transaction of the code is one step.  A   *)
(* loop or a request stops between them, so what it read may be stale      *)
(* when it writes.  Whether the phase timeout has passed is left open each *)
(* time the loop asks.  The devices' own progress is what the OTA delivery *)
(* makes of a target: open, installed, then completed or failed.  The      *)
(* rollout has a baseline release; without one a rollback is refused.      *)
(***************************************************************************)
EXTENDS Naturals, Sequences, SequencesExt, FiniteSets, FiniteSetsExt

CONSTANTS
  PoolSize,       \* devices of the pool, numbered by their sort_idx
  Ratios,         \* the cumulative ratios a request may ask for, in Whole-ths
  Whole,          \* the ratio 1.0
  Groups,         \* the group sizes a request may ask for
  SuccessRatio,   \* success_ratio, in Whole-ths
  MinSample,      \* min_sample
  Manual,         \* the values of manual_approval to consider
  TimeoutsHappen, \* whether phase_timeout_hours may pass
  Pollers,        \* API processes, each with an advance loop
  Requests,       \* lifecycle requests, each made once
  Op,             \* what a request asks for
  MaxFailures     \* bound: database errors and process crashes

ASSUME RolloutBounds ==
  /\ PoolSize \in Nat \ {0} /\ Whole \in Nat \ {0} /\ MinSample \in Nat
  /\ SuccessRatio \in 1..Whole /\ MaxFailures \in Nat
  /\ Manual \subseteq BOOLEAN /\ TimeoutsHappen \in BOOLEAN

ASSUME RolloutPlans == Ratios \subseteq Seq(Nat) /\ Groups \subseteq Seq(Nat)

ASSUME RolloutRequests ==
  /\ Op \in [Requests -> {"pause", "resume", "abort", "rollback"}]
  /\ Requests \cap Pollers = {}

VARIABLES
  rollout,   \* ota_rollouts: state, manual_approval, rollback_job_id
  sizes,     \* ota_rollout_phases.target_count, by phase index
  phase,     \* ota_rollout_phases: state and job_id, by phase index
  jobs,      \* ota_jobs with their ota_targets, by creation
  pc, mem,   \* per loop or request: the next statement and what it has read
  failures

tables == <<rollout, sizes, phase, jobs>>
vars == <<tables, pc, mem, failures>>

Actors == Pollers \cup Requests
Pool == 1..PoolSize
Phases == DOMAIN sizes
NoJob == 0

RolloutStates == {"none", "running", "paused", "aborted", "completed"}
PhaseStates == {"pending", "active", "paused", "completed"}
TargetStates == {"open", "installed", "completed", "failed"}

-----------------------------------------------------------------------------
(* The plan of a rollout *)

\* (mutant) The last ratio may be anything.
RatiosWithoutEnd(r) ==
  /\ r # <<>>
  /\ \A i \in DOMAIN r : r[i] \in 1..Whole
  /\ \A i \in 2..Len(r) : r[i - 1] < r[i]

\* validateRatios
ValidRatios(r) ==
  /\ r # <<>>
  /\ \A i \in DOMAIN r : r[i] \in 1..Whole
  /\ \A i \in 2..Len(r) : r[i - 1] < r[i]
  /\ r[Len(r)] = Whole

Ceil(a, b) == (a + b - 1) \div b

\* Ratios are cumulative; a ratio that adds no device adds no phase.
AddPhase(plan, r) ==
  LET cumulative == Ceil(r * PoolSize, Whole)
  IN IF cumulative <= plan.prior THEN plan
     ELSE [counts |-> Append(plan.counts, cumulative - plan.prior), prior |-> cumulative]

AutoCounts(ratios) == FoldLeft(AddPhase, [counts |-> <<>>, prior |-> 0], ratios).counts

\* The sum of target_count over some phases.
Total(counts) == FoldLeft(LAMBDA sum, count : sum + count, 0, counts)

\* Groups are non-empty, do not overlap, and make up the pool.
ValidGroups(g) ==
  /\ g # <<>>
  /\ \A i \in DOMAIN g : g[i] > 0
  /\ Total(g) = PoolSize

Plans == {AutoCounts(r) : r \in {r \in Ratios : ValidRatios(r)}}
         \cup {g \in Groups : ValidGroups(g)}

\* The devices of a phase: pool.slice(start, start + targetCount).
Slice(counts, i) ==
  LET start == Total(SubSeq(counts, 1, i - 1))
  IN {d \in Pool : start < d /\ d <= start + counts[i]}

-----------------------------------------------------------------------------
TypeOK ==
  /\ rollout \in [state : RolloutStates, manual : BOOLEAN, rollback : 0..Len(jobs)]
  /\ sizes \in Seq(Nat \ {0})
  /\ phase \in [Phases -> [state : PhaseStates, job : 0..Len(jobs)]]
  /\ \A k \in DOMAIN jobs :
       /\ jobs[k].release \in {"new", "baseline"}
       /\ DOMAIN jobs[k].targets \subseteq Pool
       /\ \A d \in DOMAIN jobs[k].targets : jobs[k].targets[d] \in TargetStates
  /\ pc \in [Actors -> {"idle", "read", "judge", "finish", "activate", "complete",
                        "timeout", "stall", "rerun", "reactivate", "active", "next",
                        "stop", "existing", "targets", "confirmed", "claim", "done"}]
  /\ failures \in 0..MaxFailures

\* What a loop or a request remembers between two statements.
Blank == [phases |-> <<>>, index |-> 0, jobs |-> {}, old |-> NoJob, devices |-> {}]

Init ==
  /\ rollout = [state |-> "none", manual |-> FALSE, rollback |-> NoJob]
  /\ sizes = <<>>
  /\ phase = <<>>
  /\ jobs = <<>>
  /\ pc = [a \in Actors |-> "idle"]
  /\ mem = [a \in Actors |-> Blank]
  /\ failures = 0

Goto(a, s) == pc' = [pc EXCEPT ![a] = s]

\* The loop waits for its next tick; a request has answered.
Leave(a) ==
  /\ Goto(a, IF a \in Pollers THEN "idle" ELSE "done")
  /\ mem' = [mem EXCEPT ![a] = Blank]

Stays(a, s) == Goto(a, s) /\ UNCHANGED mem

-----------------------------------------------------------------------------
(* Jobs *)

\* createTargetsForRelease: devices that already report the release's firmware
\* (`running') are completed at once.
NewJob(release, devices, running) ==
  [release |-> release,
   targets |-> [d \in devices |-> IF d \in running THEN "completed" ELSE "open"]]

\* (mutant) The job id is not written to the phase.
ActivatedWithoutJob(i, running) ==
  /\ jobs' = Append(jobs, NewJob("new", Slice(sizes, i), running))
  /\ phase' = [phase EXCEPT ![i].state = "active"]

\* activatePendingPhase's transaction, without the claim.
Activated(i, running) ==
  /\ jobs' = Append(jobs, NewJob("new", Slice(sizes, i), running))
  /\ phase' = [phase EXCEPT ![i] = [state |-> "active", job |-> Len(jobs) + 1]]

CreateOtaRollout(counts, manual, running) ==
  /\ rollout.state = "none"
  /\ rollout' = [state |-> "running", manual |-> manual, rollback |-> NoJob]
  /\ sizes' = counts
  /\ jobs' = <<NewJob("new", Slice(counts, 1), running)>>
  /\ phase' = [i \in DOMAIN counts |->
                 IF i = 1 THEN [state |-> "active", job |-> 1]
                          ELSE [state |-> "pending", job |-> NoJob]]
  /\ UNCHANGED <<pc, mem, failures>>

\* The life of a target under the OTA delivery: a result or a report of the
\* device, a sweep, or the expiry of the delivery window.
TargetMoves == {<<"open", "installed">>, <<"open", "completed">>, <<"open", "failed">>,
                <<"installed", "completed">>}

TargetProgress(k, d, s) ==
  /\ <<jobs[k].targets[d], s>> \in TargetMoves
  /\ jobs' = [jobs EXCEPT ![k].targets[d] = s]
  /\ UNCHANGED <<rollout, sizes, phase, pc, mem, failures>>

-----------------------------------------------------------------------------
(* The advance loop *)

\* advanceRollouts selects the running rollouts; each is read again later.
AdvanceRollouts(p) ==
  /\ pc[p] = "idle"
  /\ rollout.state = "running"
  /\ Stays(p, "read")
  /\ UNCHANGED <<tables, failures>>

InState(ps, s) == {i \in DOMAIN ps : ps[i].state = s}

\* advanceOneRollout reads the phases, whatever the rollout's state is by now.
AdvanceOneRollout(p) ==
  LET active == InState(phase, "active")
      pending == InState(phase, "pending")
      remember(i) == mem' = [mem EXCEPT ![p] = [Blank EXCEPT !.phases = phase, !.index = i]]
  IN /\ pc[p] = "read"
     /\ \/ active # {} /\ Goto(p, "judge") /\ remember(Min(active))
        \/ /\ active = {} /\ pending # {} /\ ~rollout.manual
           /\ Goto(p, "activate") /\ remember(Min(pending))
        \/ InState(phase, "completed") = Phases /\ Goto(p, "complete") /\ remember(0)
        \/ /\ active = {} /\ InState(phase, "completed") # Phases
           /\ pending = {} \/ rollout.manual
           /\ Leave(p)
     /\ UNCHANGED <<tables, failures>>

\* (mutant) min_sample is not capped by the size of the phase.
MetUncapped(targets) ==
  LET actual == Cardinality(DOMAIN targets)
      completed == Cardinality({d \in DOMAIN targets : targets[d] = "completed"})
  IN /\ actual > 0
     /\ completed * Whole >= SuccessRatio * actual
     /\ completed >= MinSample

\* The gate of a phase, over the targets of its job.
Met(targets) ==
  LET actual == Cardinality(DOMAIN targets)
      completed == Cardinality({d \in DOMAIN targets : targets[d] = "completed"})
  IN /\ actual > 0
     /\ completed * Whole >= SuccessRatio * actual
     /\ completed >= Min({MinSample, actual})

\* (mutant) A phase that runs out of time is finished, not paused.
JudgeTimeoutAsMet(p, timedOut) ==
  LET k == mem[p].phases[mem[p].index].job
      met == k # NoJob /\ Met(jobs[k].targets)
  IN /\ pc[p] = "judge"
     /\ Stays(p, IF met \/ timedOut THEN "finish" ELSE "stall")
     /\ UNCHANGED <<tables, failures>>

JudgePhase(p, timedOut) ==
  LET k == mem[p].phases[mem[p].index].job
      met == k # NoJob /\ Met(jobs[k].targets)
  IN /\ pc[p] = "judge"
     /\ Stays(p, IF met THEN "finish" ELSE IF timedOut THEN "timeout" ELSE "stall")
     /\ UNCHANGED <<tables, failures>>

\* (mutant) The next phase is activated before this one is completed.
FinishPhaseLater(p) ==
  LET pending == InState(mem[p].phases, "pending")
  IN /\ pc[p] = "finish"
     /\ IF pending # {} /\ ~rollout.manual
        THEN Goto(p, "activate") /\ mem' = [mem EXCEPT ![p].index = Min(pending)]
        ELSE Leave(p)
     /\ UNCHANGED <<tables, failures>>

\* The phase is claimed by its state; what comes next is decided from the
\* phases as they were read.
FinishPhase(p) ==
  LET i == mem[p].index
      pending == InState(mem[p].phases, "pending")
  IN /\ pc[p] = "finish"
     /\ IF phase[i].state # "active"
        THEN Leave(p) /\ UNCHANGED phase
        ELSE /\ phase' = [phase EXCEPT ![i].state = "completed"]
             /\ \/ /\ pending # {} /\ ~rollout.manual
                   /\ Goto(p, "activate")
                   /\ mem' = [mem EXCEPT ![p].index = Min(pending)]
                \/ pending = {} /\ Stays(p, "complete")
                \/ pending # {} /\ rollout.manual /\ Leave(p)
     /\ UNCHANGED <<rollout, sizes, jobs, failures>>

\* (mutant) The phase is not claimed.
ActivateUnclaimed(a, running) ==
  LET i == mem[a].index IN
  /\ pc[a] = "activate"
  /\ Activated(i, running)
  /\ Leave(a)
  /\ UNCHANGED <<rollout, sizes, failures>>

\* One transaction, for the loop and for resume: claim the pending phase,
\* create its job.  The rollout's state is not asked for.
ActivatePendingPhase(a, running) ==
  LET i == mem[a].index IN
  /\ pc[a] = "activate"
  /\ IF phase[i].state = "pending" THEN Activated(i, running) ELSE UNCHANGED <<phase, jobs>>
  /\ Leave(a)
  /\ UNCHANGED <<rollout, sizes, failures>>

CompleteRollout(p) ==
  /\ pc[p] = "complete"
  /\ rollout' = [rollout EXCEPT !.state = IF @ = "running" THEN "completed" ELSE @]
  /\ Leave(p)
  /\ UNCHANGED <<sizes, phase, jobs, failures>>

PausePhases(S) ==
  phase' = [i \in Phases |-> IF i \in S /\ phase[i].state = "active"
                             THEN [phase[i] EXCEPT !.state = "paused"] ELSE phase[i]]

\* Two statements of one transaction; the second does not depend on the first.
TimeoutPausesRollout(p) ==
  /\ pc[p] = "timeout"
  /\ rollout' = [rollout EXCEPT !.state = IF @ = "running" THEN "paused" ELSE @]
  /\ PausePhases({mem[p].index})
  /\ Leave(p)
  /\ UNCHANGED <<sizes, jobs, failures>>

\* Devices (`stuck') that have been installed for long, are alive and still
\* report another firmware.
JudgeInstalledTargets(p, stuck) ==
  LET k == mem[p].phases[mem[p].index].job IN
  /\ pc[p] = "stall"
  /\ jobs' = IF k = NoJob THEN jobs
             ELSE [jobs EXCEPT ![k].targets =
                     [d \in DOMAIN @ |-> IF d \in stuck /\ @[d] = "installed"
                                         THEN "failed" ELSE @[d]]]
  /\ Leave(p)
  /\ UNCHANGED <<rollout, sizes, phase, failures>>

-----------------------------------------------------------------------------
(* Requests *)

Asks(q, op) == pc[q] = "idle" /\ Op[q] = op /\ rollout.state # "none"

PauseRollout(q) ==
  /\ Asks(q, "pause")
  /\ rollout' = [rollout EXCEPT !.state = IF @ = "running" THEN "paused" ELSE @]
  /\ PausePhases(Phases)
  /\ Leave(q)
  /\ UNCHANGED <<sizes, jobs, failures>>

ResumeRollout(q) ==
  /\ Asks(q, "resume")
  /\ \/ rollout.state \in {"aborted", "completed"} /\ Leave(q)
     \/ rollout.state = "paused" /\ Stays(q, "rerun")
     \/ rollout.state = "running" /\ Stays(q, "active")
  /\ UNCHANGED <<tables, failures>>

\* (mutant) The state read before is not asked for again.
ResumeUnconditionally(q) ==
  /\ pc[q] = "rerun"
  /\ rollout' = [rollout EXCEPT !.state = "running"]
  /\ Stays(q, "reactivate")
  /\ UNCHANGED <<sizes, phase, jobs, failures>>

\* The rollout runs again before its phases are active again.
ResumeSetsRunning(q) ==
  /\ pc[q] = "rerun"
  /\ rollout' = [rollout EXCEPT !.state = IF @ = "paused" THEN "running" ELSE @]
  /\ Stays(q, "reactivate")
  /\ UNCHANGED <<sizes, phase, jobs, failures>>

ResumeActivatesPaused(q) ==
  /\ pc[q] = "reactivate"
  /\ phase' = [i \in Phases |-> IF phase[i].state = "paused"
                                THEN [phase[i] EXCEPT !.state = "active"] ELSE phase[i]]
  /\ Leave(q)
  /\ UNCHANGED <<rollout, sizes, jobs, failures>>

\* The manual-approval wait: nothing may be active.
ResumeLooksForActive(q) ==
  /\ pc[q] = "active"
  /\ IF InState(phase, "active") # {} THEN Leave(q) ELSE Stays(q, "next")
  /\ UNCHANGED <<tables, failures>>

ResumePicksNext(q) ==
  LET pending == InState(phase, "pending") IN
  /\ pc[q] = "next"
  /\ \/ pending = {} /\ Leave(q)
     \/ /\ pending # {}
        /\ Goto(q, "activate")
        /\ mem' = [mem EXCEPT ![q].index = Min(pending)]
  /\ UNCHANGED <<tables, failures>>

AbortRollout(q) ==
  /\ Asks(q, "abort")
  /\ IF rollout.state \in {"running", "paused"}
     THEN rollout' = [rollout EXCEPT !.state = "aborted"] /\ Stays(q, "stop")
     ELSE UNCHANGED rollout /\ Leave(q)
  /\ UNCHANGED <<sizes, phase, jobs, failures>>

AbortPausesPhases(q) ==
  /\ pc[q] = "stop"
  /\ PausePhases(Phases)
  /\ Leave(q)
  /\ UNCHANGED <<rollout, sizes, jobs, failures>>

RollbackRollout(q) ==
  /\ Asks(q, "rollback")
  /\ Goto(q, "existing")
  /\ mem' = [mem EXCEPT ![q].jobs = {phase[i].job : i \in Phases} \ {NoJob}]
  /\ UNCHANGED <<tables, failures>>

RollbackReadsExisting(q) ==
  /\ pc[q] = "existing"
  /\ Goto(q, IF rollout.rollback = NoJob THEN "confirmed" ELSE "targets")
  /\ mem' = [mem EXCEPT ![q].old = rollout.rollback]
  /\ UNCHANGED <<tables, failures>>

\* A rollback whose targets have all failed or expired may be replaced.
AllTerminal(targets) ==
  DOMAIN targets # {} /\ \A d \in DOMAIN targets : targets[d] = "failed"

RollbackJudgesExisting(q) ==
  /\ pc[q] = "targets"
  /\ IF AllTerminal(jobs[mem[q].old].targets) THEN Stays(q, "confirmed") ELSE Leave(q)
  /\ UNCHANGED <<tables, failures>>

Confirmed(ks) ==
  {d \in Pool : \E k \in ks : d \in DOMAIN jobs[k].targets /\ jobs[k].targets[d] = "completed"}

RollbackReadsConfirmed(q) ==
  LET devices == Confirmed(mem[q].jobs) IN
  /\ pc[q] = "confirmed"
  /\ \/ devices = {} /\ Leave(q)
     \/ /\ devices # {}
        /\ Goto(q, "claim")
        /\ mem' = [mem EXCEPT ![q].devices = devices]
  /\ UNCHANGED <<tables, failures>>

\* (mutant) The slot is overwritten.
RollbackOverwrites(q, running) ==
  /\ pc[q] = "claim"
  /\ jobs' = Append(jobs, NewJob("baseline", mem[q].devices, running))
  /\ rollout' = [rollout EXCEPT !.state = "aborted", !.rollback = Len(jobs) + 1]
  /\ PausePhases(Phases)
  /\ Leave(q)
  /\ UNCHANGED <<sizes, failures>>

\* The slot is claimed if it is empty or holds the job found terminal; whoever
\* loses deletes the job again within the transaction.
RollbackClaims(q, running) ==
  LET m == mem[q] IN
  /\ pc[q] = "claim"
  /\ IF rollout.rollback \in {NoJob, m.old}
     THEN /\ jobs' = Append(jobs, NewJob("baseline", m.devices, running))
          /\ rollout' = [rollout EXCEPT !.state = "aborted", !.rollback = Len(jobs) + 1]
          /\ PausePhases(Phases)
     ELSE UNCHANGED <<jobs, rollout, phase>>
  /\ Leave(q)
  /\ UNCHANGED <<sizes, failures>>

\* A database error or the end of the process: the rest is not done.
Fails(a) ==
  /\ pc[a] \notin {"idle", "done"}
  /\ failures < MaxFailures
  /\ failures' = failures + 1
  /\ Leave(a)
  /\ UNCHANGED tables

-----------------------------------------------------------------------------
LoopStep(p) ==
  \/ AdvanceRollouts(p)
  \/ AdvanceOneRollout(p)
  \/ \E timedOut \in {FALSE, TimeoutsHappen} : JudgePhase(p, timedOut)
  \/ FinishPhase(p)
  \/ \E running \in SUBSET Pool : ActivatePendingPhase(p, running)
  \/ CompleteRollout(p)
  \/ TimeoutPausesRollout(p)
  \/ \E stuck \in SUBSET Pool : JudgeInstalledTargets(p, stuck)

RequestStep(q) ==
  \/ PauseRollout(q)
  \/ ResumeRollout(q)
  \/ ResumeSetsRunning(q)
  \/ ResumeActivatesPaused(q)
  \/ ResumeLooksForActive(q)
  \/ ResumePicksNext(q)
  \/ \E running \in SUBSET Pool : ActivatePendingPhase(q, running)
  \/ AbortRollout(q)
  \/ AbortPausesPhases(q)
  \/ RollbackRollout(q)
  \/ RollbackReadsExisting(q)
  \/ RollbackJudgesExisting(q)
  \/ RollbackReadsConfirmed(q)
  \/ \E running \in SUBSET Pool : RollbackClaims(q, running)

DeviceStep(k) ==
  \E d \in DOMAIN jobs[k].targets, s \in TargetStates : TargetProgress(k, d, s)

Next ==
  \/ \E counts \in Plans, manual \in Manual, running \in SUBSET Pool :
       CreateOtaRollout(counts, manual, running)
  \/ \E p \in Pollers : LoopStep(p)
  \/ \E q \in Requests : RequestStep(q)
  \/ \E k \in DOMAIN jobs : DeviceStep(k)
  \/ \E a \in Actors : Fails(a)

Spec == Init /\ [][Next]_vars

\* setInterval calls the loop again and again, a statement once issued ends,
\* and a device that can confirm its firmware does.
Fairness ==
  /\ \A p \in Pollers : WF_vars(LoopStep(p))
  /\ \A k \in 1..PoolSize, d \in Pool :
       WF_vars(k \in DOMAIN jobs /\ d \in DOMAIN jobs[k].targets
               /\ TargetProgress(k, d, "completed"))

FairSpec == Spec /\ Fairness

-----------------------------------------------------------------------------
(* What holds whatever loops and requests interleave *)

\* "A phase can never sit in `active' without a job (which would stall the
\* phase forever)", and the jobs of two phases are two jobs.
StartedPhasesHaveJobs ==
  \A i \in Phases : phase[i].state # "pending" =>
    /\ phase[i].job # NoJob
    /\ \A j \in Phases \ {i} : phase[j].job # phase[i].job

\* Whoever completes a phase, and from however old a reading, its gate is met.
CompletedPhasesMetGate ==
  \A i \in Phases : phase[i].state = "completed" => Met(jobs[phase[i].job].targets)

Upgrades(d) ==
  {k \in DOMAIN jobs : jobs[k].release = "new" /\ d \in DOMAIN jobs[k].targets}

\* Two loops and a resume that race for a phase never upgrade a device twice,
\* and no two phases share a device.
OneUpgradePerDevice == \A d \in Pool : Cardinality(Upgrades(d)) <= 1

\* A rollback goes to devices that have confirmed the upgrade, and only them.
RollbackOfConfirmed ==
  \A k \in DOMAIN jobs : jobs[k].release = "baseline" =>
    DOMAIN jobs[k].targets \subseteq Confirmed({u \in DOMAIN jobs : jobs[u].release = "new"})

\* Concurrent rollbacks leave one job: any other rollback job that was ever
\* created has no device left to deliver to.
OneLiveRollback ==
  \A k \in DOMAIN jobs :
    jobs[k].release = "baseline" /\ k # rollout.rollback => AllTerminal(jobs[k].targets)

\* A completed phase stays completed, a phase keeps its job, an aborted rollout
\* stays aborted, and a completed one only gives way to a rollback.
Irreversible ==
  [][/\ \A i \in Phases :
          /\ phase[i].state = "completed" => phase'[i].state = "completed"
          /\ phase[i].job # NoJob => phase'[i].job = phase[i].job
     /\ rollout.state = "aborted" => rollout'.state = "aborted"
     /\ rollout.state = "completed" =>
          \/ rollout'.state = "completed"
          \/ rollout'.state = "aborted" /\ rollout'.rollback # rollout.rollback
    ]_<<rollout, phase>>

-----------------------------------------------------------------------------
(* What holds of the loops while no phase times out and nothing is paused *)

\* A phase starts only when every earlier phase has been completed.  With
\* timeouts or a pause it fails: a loop that finds no active phase cannot tell
\* one that was just paused from a completed one.
GateHolds ==
  \A i, j \in Phases : j < i /\ phase[i].state # "pending" => phase[j].state = "completed"

\* A rollout is completed only when each of its phases is, and then every
\* device of the pool has had its upgrade.
CompletedCoversPool ==
  rollout.state = "completed" =>
    /\ InState(phase, "completed") = Phases
    /\ \A d \in Pool : Upgrades(d) # {}

SomeTargetFailed == \E k \in DOMAIN jobs : \E d \in DOMAIN jobs[k].targets : jobs[k].targets[d] = "failed"

\* A rollout in which no device fails runs to completion: no gate asks for
\* more devices than its phase has.
RunsToCompletion ==
  rollout.state = "running" ~> rollout.state = "completed" \/ SomeTargetFailed
=============================================================================
