--------------------------- MODULE RolloutProofs ---------------------------
(***************************************************************************)
(* Proofs about phased rollouts for every pool, every plan, any number of  *)
(* API processes and requests, and any bound on failures: the tables stay  *)
(* consistent whatever loops and requests interleave, and what is settled  *)
(* stays settled.                                                          *)
(***************************************************************************)
EXTENDS RolloutPlanProofs, SequenceTheorems, FiniteSetTheorems

Job == [release : {"new", "baseline"},
        targets : UNION {[D -> TargetStates] : D \in SUBSET Pool}]
PhaseRow == [state : PhaseStates, job : Nat]
Memory == [phases : Seq(PhaseRow), index : Nat, jobs : SUBSET Nat, old : Nat,
           devices : SUBSET Pool]
Steps == {"idle", "read", "judge", "finish", "activate", "complete", "timeout", "stall",
          "rerun", "reactivate", "active", "next", "stop", "existing", "targets",
          "confirmed", "claim", "done"}

\* The types, with the jobs and what is remembered between two statements.
Types ==
  /\ rollout \in [state : RolloutStates, manual : BOOLEAN, rollback : Nat]
  /\ sizes \in Seq(Nat \ {0})
  /\ phase \in [Phases -> PhaseRow]
  /\ jobs \in Seq(Job)
  /\ pc \in [Actors -> Steps]
  /\ mem \in [Actors -> Memory]
  /\ failures \in 0..MaxFailures

\* Before the rollout is created nobody works on it; after, it has a plan.
Planned ==
  \/ /\ rollout.state = "none" /\ sizes = <<>> /\ jobs = <<>>
     /\ rollout.rollback = NoJob
     /\ \A a \in Actors : pc[a] \in {"idle", "done"}
  \/ rollout.state # "none" /\ sizes \in Plans

\* A phase has a job once it has started: the upgrade of its slice.
PhaseJob(r, i) ==
  /\ r.state = "pending" <=> r.job = NoJob
  /\ r.job # NoJob =>
       /\ r.job \in DOMAIN jobs
       /\ jobs[r.job].release = "new"
       /\ DOMAIN jobs[r.job].targets = Slice(sizes, i)

PhaseJobs == \A i \in Phases : PhaseJob(phase[i], i)

\* Every upgrade belongs to a phase.
UpgradesOfPhases ==
  \A k \in DOMAIN jobs : jobs[k].release = "new" => \E i \in Phases : phase[i].job = k

RollbackSlot ==
  rollout.rollback # NoJob =>
    rollout.rollback \in DOMAIN jobs /\ jobs[rollout.rollback].release = "baseline"

NewJobs == {u \in DOMAIN jobs : jobs[u].release = "new"}

\* What a loop or a request that stands at step s with memory m knows.
Knows(s, m) ==
  /\ s \in {"judge", "finish", "timeout", "stall"} =>
       /\ m.index \in Phases
       /\ DOMAIN m.phases = Phases
       /\ m.phases[m.index].job # NoJob
       /\ m.phases[m.index].job = phase[m.index].job
  /\ s = "finish" => Met(jobs[m.phases[m.index].job].targets)
  /\ s = "activate" => m.index \in Phases
  /\ s \in {"existing", "targets", "confirmed", "claim"} => m.jobs \subseteq NewJobs
  /\ s = "targets" => m.old \in DOMAIN jobs
  /\ s \in {"confirmed", "claim"} =>
       \/ m.old = NoJob
       \/ m.old \in DOMAIN jobs /\ AllTerminal(jobs[m.old].targets)
  /\ s = "claim" => m.devices \subseteq Confirmed(NewJobs)

Knowledge == \A a \in Actors : Knows(pc[a], mem[a])

IInv ==
  /\ Types
  /\ Planned
  /\ PhaseJobs
  /\ UpgradesOfPhases
  /\ RollbackSlot
  /\ Knowledge
  /\ CompletedPhasesMetGate
  /\ RollbackOfConfirmed
  /\ OneLiveRollback

-----------------------------------------------------------------------------
(* Jobs *)

\* What becomes of a job: settled targets stay as they are.
Later(j, l) ==
  /\ l.release = j.release
  /\ DOMAIN l.targets = DOMAIN j.targets
  /\ \A d \in DOMAIN j.targets :
       j.targets[d] \in {"completed", "failed"} => l.targets[d] = j.targets[d]

JobsLater ==
  /\ jobs' \in Seq(Job)
  /\ DOMAIN jobs \subseteq DOMAIN jobs'
  /\ \A k \in DOMAIN jobs : Later(jobs[k], jobs'[k])

\* A new job has the release and the devices it is given.
LEMMA NewJobIsJob ==
  ASSUME NEW release \in {"new", "baseline"}, NEW devices \in SUBSET Pool, NEW running
  PROVE  /\ NewJob(release, devices, running) \in Job
         /\ NewJob(release, devices, running).release = release
         /\ DOMAIN NewJob(release, devices, running).targets = devices
<1>. DEFINE t == [d \in devices |-> IF d \in running THEN "completed" ELSE "open"]
<1>1. t \in [devices -> TargetStates] /\ DOMAIN t = devices
  BY DEF TargetStates
<1>2. NewJob(release, devices, running) = [release |-> release, targets |-> t]
  BY DEF NewJob
<1>. HIDE DEF t
<1>. QED
  BY <1>1, <1>2 DEF Job

\* The targets of a job.
LEMMA TargetsOfJob ==
  ASSUME NEW j \in Job
  PROVE  /\ DOMAIN j.targets \in SUBSET Pool
         /\ j.targets \in [DOMAIN j.targets -> TargetStates]
         /\ j.release \in {"new", "baseline"}
         /\ j = [release |-> j.release, targets |-> j.targets]
  BY DEF Job

\* The devices of the pool are finitely many.
LEMMA PoolFinite ==
  ASSUME NEW S \in SUBSET Pool
  PROVE  IsFiniteSet(S) /\ Cardinality(S) \in Nat
<1>1. IsFiniteSet(Pool)
  BY FS_Interval, RolloutBounds DEF Pool
<1>2. IsFiniteSet(S)
  BY <1>1, FS_Subset
<1>. QED
  BY <1>2, FS_CardinalityType

\* A gate once met stays met.
LEMMA MetStays ==
  ASSUME NEW j \in Job, NEW l \in Job, Later(j, l), Met(j.targets)
  PROVE  Met(l.targets)
<1>. DEFINE D == DOMAIN j.targets
            C == {d \in D : j.targets[d] = "completed"}
            E == {d \in D : l.targets[d] = "completed"}
<1>1. DOMAIN l.targets = D
  BY DEF Later
<1>2. C \in SUBSET E
  BY DEF Later
<1>3. D \in SUBSET Pool /\ E \in SUBSET Pool /\ C \in SUBSET Pool
  BY TargetsOfJob
<1>4. /\ Cardinality(D) > 0
      /\ Cardinality(C) * Whole >= SuccessRatio * Cardinality(D)
      /\ Cardinality(C) >= Min({MinSample, Cardinality(D)})
  BY DEF Met
<1>5. (/\ Cardinality(D) > 0
       /\ Cardinality(E) * Whole >= SuccessRatio * Cardinality(D)
       /\ Cardinality(E) >= Min({MinSample, Cardinality(D)})) => Met(l.targets)
  BY <1>1 DEF Met
<1>. HIDE DEF C, D, E
<1>6. /\ Cardinality(D) \in Nat /\ Cardinality(E) \in Nat /\ Cardinality(C) \in Nat
      /\ IsFiniteSet(E)
  BY <1>3, PoolFinite
<1>7. Cardinality(C) <= Cardinality(E)
  BY <1>2, <1>6, FS_Subset
<1>8. PICK m : m = Min({MinSample, Cardinality(D)})
  OBVIOUS
<1>9. m \in Nat
  BY <1>6, <1>8, MinIsLeast, RolloutBounds
<1>10. Cardinality(E) * Whole >= Cardinality(C) * Whole
  BY <1>6, <1>7, RolloutBounds
<1>11. /\ Cardinality(E) * Whole \in Nat /\ Cardinality(C) * Whole \in Nat
       /\ SuccessRatio * Cardinality(D) \in Nat
  BY <1>6, RolloutBounds
<1>12. Cardinality(E) * Whole >= SuccessRatio * Cardinality(D)
  BY <1>4, <1>10, <1>11
<1>13. Cardinality(E) >= m
  BY <1>4, <1>6, <1>7, <1>8, <1>9
<1>. QED
  BY <1>4, <1>5, <1>8, <1>12, <1>13

\* A job that has failed on every device has nobody left to deliver to.
LEMMA TerminalStays ==
  ASSUME NEW j, NEW l, Later(j, l), AllTerminal(j.targets)
  PROVE  AllTerminal(l.targets)
  BY DEF Later, AllTerminal

\* Appending a job leaves the others alone.
LEMMA AppendedJob ==
  ASSUME jobs \in Seq(Job), NEW j \in Job, jobs' = Append(jobs, j)
  PROVE  /\ JobsLater
         /\ DOMAIN jobs' = DOMAIN jobs \cup {Len(jobs) + 1}
         /\ Len(jobs) + 1 \in Nat \ {0}
         /\ Len(jobs) + 1 \notin DOMAIN jobs
         /\ jobs'[Len(jobs) + 1] = j
         /\ \A k \in DOMAIN jobs : jobs'[k] = jobs[k]
<1>. PICK s \in Seq(Job) : s = jobs
  OBVIOUS
<1>1. /\ Append(s, j) \in Seq(Job) /\ Len(Append(s, j)) = Len(s) + 1
      /\ \A i \in 1..Len(s) : Append(s, j)[i] = s[i]
      /\ Append(s, j)[Len(s) + 1] = j
  BY AppendProperties
<1>2. /\ Len(s) \in Nat /\ DOMAIN s = 1..Len(s)
      /\ DOMAIN Append(s, j) = 1..(Len(s) + 1)
  BY <1>1, LenProperties
<1>3. 1..(Len(s) + 1) = (1..Len(s)) \cup {Len(s) + 1}
  BY <1>2
<1>4. \A k \in DOMAIN jobs : Later(jobs[k], jobs'[k])
  BY <1>1, <1>2 DEF Later
<1>5. Len(s) + 1 \in Nat \ {0} /\ Len(s) + 1 \notin 1..Len(s)
  BY <1>2
<1>. QED
  BY <1>1, <1>2, <1>3, <1>4, <1>5 DEF JobsLater

\* So does changing one of them.
LEMMA ChangedJob ==
  ASSUME jobs \in Seq(Job), NEW k \in DOMAIN jobs, NEW j \in Job, Later(jobs[k], j),
         jobs' = [jobs EXCEPT ![k] = j]
  PROVE  JobsLater /\ DOMAIN jobs' = DOMAIN jobs
<1>. PICK s \in Seq(Job) : s = jobs
  OBVIOUS
<1>1. Len(s) \in Nat /\ DOMAIN s = 1..Len(s) /\ k \in 1..Len(s)
  BY LenProperties
<1>2. /\ [s EXCEPT ![k] = j] \in Seq(Job)
      /\ \A i \in 1..Len(s) : [s EXCEPT ![k] = j][i] = IF i = k THEN j ELSE s[i]
  BY <1>1, ExceptSeq
<1>3. DOMAIN jobs' = DOMAIN jobs
  OBVIOUS
<1>4. \A i \in DOMAIN jobs : Later(jobs[i], jobs'[i])
  BY <1>1, <1>2 DEF Later
<1>. QED
  BY <1>2, <1>3, <1>4 DEF JobsLater

-----------------------------------------------------------------------------
(* What a loop or a request learns by a step *)

Moves(a, s, m) ==
  /\ s \in Steps /\ m \in Memory
  /\ pc' = [pc EXCEPT ![a] = s]
  /\ mem' = [mem EXCEPT ![a] = m]
  /\ Knows(s, m)

ActorMoves(a) == \E s \in Steps, m \in Memory : Moves(a, s, m)

\* Whoever leaves knows nothing.
LEMMA LeaveMoves ==
  ASSUME NEW a, Leave(a)
  PROVE  ActorMoves(a)
<1>. DEFINE s == IF a \in Pollers THEN "idle" ELSE "done"
<1>1. s \in Steps /\ s \in {"idle", "done"}
  BY DEF Steps
<1>2. Blank \in Memory
  BY DEF Blank, Memory, NoJob
<1>3. Knows(s, Blank)
  BY <1>1 DEF Knows
<1>. QED
  BY <1>1, <1>2, <1>3 DEF Leave, Goto, Moves, ActorMoves

\* Staying with the same memory.
LEMMA StaysMoves ==
  ASSUME Types, NEW a \in Actors, NEW s \in Steps, Stays(a, s), Knows(s, mem[a])
  PROVE  ActorMoves(a)
<1>1. mem[a] \in Memory /\ mem' = [mem EXCEPT ![a] = mem[a]]
  BY DEF Types, Stays
<1>. QED
  BY <1>1 DEF Stays, Goto, Moves, ActorMoves

\* The indices of the phases.
LEMMA PhaseIndices ==
  ASSUME Types
  PROVE  /\ Phases \in SUBSET Nat /\ Phases = 1..Len(sizes) /\ Len(sizes) \in Nat
         /\ phase \in Seq(PhaseRow) /\ DOMAIN phase = Phases
<1>1. sizes \in Seq(Nat \ {0}) /\ phase \in [Phases -> PhaseRow]
  BY DEF Types
<1>2. Len(sizes) \in Nat /\ DOMAIN sizes = 1..Len(sizes)
  BY <1>1
<1>3. Phases = 1..Len(sizes)
  BY <1>2 DEF Phases
<1>4. phase \in Seq(PhaseRow)
  BY <1>1, <1>2, <1>3, SeqDef
<1>. QED
  BY <1>1, <1>2, <1>3, <1>4

\* The first phase in a state is a phase.
LEMMA FirstIsPhase ==
  ASSUME Types, NEW ps, DOMAIN ps = Phases, NEW s, InState(ps, s) # {}
  PROVE  /\ Min(InState(ps, s)) \in Phases /\ Min(InState(ps, s)) \in Nat
         /\ ps[Min(InState(ps, s))].state = s
         /\ \A i \in InState(ps, s) : Min(InState(ps, s)) <= i
<1>1. Phases \in SUBSET Nat
  BY PhaseIndices
<1>2. PICK S \in SUBSET Nat : S = InState(ps, s)
  BY <1>1 DEF InState
<1>3. Min(S) \in S /\ \A i \in S : Min(S) <= i
  BY <1>2, MinIsLeast
<1>. QED
  BY <1>2, <1>3 DEF InState

\* A step of the advance loop.
LEMMA LoopMoves ==
  ASSUME IInv, NEW p \in Pollers, LoopStep(p)
  PROVE  ActorMoves(p)
<1>. USE DEF IInv
<1>. /\ p \in Actors /\ Types /\ Knows(pc[p], mem[p])
  BY DEF Actors, Knowledge
<1>. mem[p] \in Memory
  BY DEF Types
<1>1. CASE AdvanceRollouts(p)
  <2>1. Knows("read", mem[p]) /\ "read" \in Steps /\ Stays(p, "read")
    BY <1>1 DEF Knows, Steps, AdvanceRollouts
  <2>. QED
    BY <2>1, StaysMoves
<1>2. CASE AdvanceOneRollout(p)
  <2>. DEFINE M(i) == [Blank EXCEPT !.phases = phase, !.index = i]
  <2>0. ASSUME NEW i \in Nat
        PROVE  M(i) \in Memory /\ M(i).phases = phase /\ M(i).index = i
    BY PhaseIndices DEF Blank, Memory, NoJob
  <2>1. CASE /\ InState(phase, "active") # {} /\ Goto(p, "judge")
             /\ mem' = [mem EXCEPT ![p] = M(Min(InState(phase, "active")))]
    <3>1. PICK i \in Nat : i = Min(InState(phase, "active"))
      BY <2>1, FirstIsPhase, PhaseIndices
    <3>2. i \in Phases /\ phase[i].state = "active" /\ DOMAIN phase = Phases
      BY <2>1, <3>1, FirstIsPhase, PhaseIndices
    <3>3. PhaseJob(phase[i], i)
      BY <3>2 DEF PhaseJobs
    <3>4. phase[i].job # NoJob
      BY <3>2, <3>3 DEF PhaseJob
    <3>5. M(i) \in Memory /\ M(i).phases = phase /\ M(i).index = i
      BY <2>0
    <3>. HIDE DEF M
    <3>6. Knows("judge", M(i))
      BY <3>2, <3>4, <3>5 DEF Knows
    <3>. QED
      BY <2>1, <3>1, <3>5, <3>6 DEF Goto, Moves, ActorMoves, Steps
  <2>2. CASE /\ InState(phase, "pending") # {} /\ Goto(p, "activate")
             /\ mem' = [mem EXCEPT ![p] = M(Min(InState(phase, "pending")))]
    <3>1. PICK i \in Nat : i = Min(InState(phase, "pending"))
      BY <2>2, FirstIsPhase, PhaseIndices
    <3>2. i \in Phases
      BY <2>2, <3>1, FirstIsPhase, PhaseIndices
    <3>3. M(i) \in Memory /\ M(i).index = i
      BY <2>0
    <3>. HIDE DEF M
    <3>4. Knows("activate", M(i))
      BY <3>2, <3>3 DEF Knows
    <3>. QED
      BY <2>2, <3>1, <3>3, <3>4 DEF Goto, Moves, ActorMoves, Steps
  <2>3. CASE Goto(p, "complete") /\ mem' = [mem EXCEPT ![p] = M(0)]
    <3>1. M(0) \in Memory
      BY <2>0
    <3>. HIDE DEF M
    <3>2. Knows("complete", M(0))
      BY DEF Knows
    <3>. QED
      BY <2>3, <3>1, <3>2 DEF Goto, Moves, ActorMoves, Steps
  <2>4. CASE Leave(p)
    BY <2>4, LeaveMoves
  <2>. QED
    BY <1>2, <2>1, <2>2, <2>3, <2>4 DEF AdvanceOneRollout
<1>3. CASE \E timedOut \in {FALSE, TimeoutsHappen} : JudgePhase(p, timedOut)
  <2>. DEFINE k == mem[p].phases[mem[p].index].job
  <2>1. PICK timedOut \in {FALSE, TimeoutsHappen} : JudgePhase(p, timedOut)
    BY <1>3
  <2>2. pc[p] = "judge"
    BY <2>1 DEF JudgePhase
  <2>3. CASE k # NoJob /\ Met(jobs[k].targets)
    <3>1. Stays(p, "finish")
      BY <2>1, <2>3 DEF JudgePhase
    <3>2. Knows("finish", mem[p])
      BY <2>2, <2>3 DEF Knows
    <3>. QED
      BY <3>1, <3>2, StaysMoves DEF Steps
  <2>4. CASE ~(k # NoJob /\ Met(jobs[k].targets))
    <3>1. Stays(p, "timeout") \/ Stays(p, "stall")
      BY <2>1, <2>4 DEF JudgePhase
    <3>2. Knows("timeout", mem[p]) /\ Knows("stall", mem[p])
      BY <2>2 DEF Knows
    <3>. QED
      BY <3>1, <3>2, StaysMoves DEF Steps
  <2>. QED
    BY <2>3, <2>4
<1>4. CASE FinishPhase(p)
  <2>. DEFINE ps == mem[p].phases
              i == Min(InState(ps, "pending"))
              m == [mem[p] EXCEPT !.index = i]
  <2>1. pc[p] = "finish"
    BY <1>4 DEF FinishPhase
  <2>2. CASE InState(ps, "pending") # {} /\ Goto(p, "activate")
             /\ mem' = [mem EXCEPT ![p].index = i]
    <3>1. DOMAIN ps = Phases
      BY <2>1 DEF Knows
    <3>2. i \in Phases /\ i \in Nat
      BY <2>2, <3>1, FirstIsPhase
    <3>3. mem' = [mem EXCEPT ![p] = m]
      BY <2>2 DEF Types
    <3>. HIDE DEF i
    <3>4. m \in Memory /\ m.index = i
      BY <3>2 DEF Memory
    <3>. HIDE DEF m
    <3>5. Knows("activate", m)
      BY <3>2, <3>4 DEF Knows
    <3>. QED
      BY <2>2, <3>3, <3>4, <3>5 DEF Goto, Moves, ActorMoves, Steps
  <2>3. CASE Stays(p, "complete")
    <3>1. Knows("complete", mem[p])
      BY DEF Knows
    <3>. QED
      BY <2>3, <3>1, StaysMoves DEF Steps
  <2>4. CASE Leave(p)
    BY <2>4, LeaveMoves
  <2>. QED
    BY <1>4, <2>2, <2>3, <2>4 DEF FinishPhase
<1>5. CASE \E running \in SUBSET Pool : ActivatePendingPhase(p, running)
  BY <1>5, LeaveMoves DEF ActivatePendingPhase
<1>6. CASE CompleteRollout(p)
  BY <1>6, LeaveMoves DEF CompleteRollout
<1>7. CASE TimeoutPausesRollout(p)
  BY <1>7, LeaveMoves DEF TimeoutPausesRollout
<1>8. CASE \E stuck \in SUBSET Pool : JudgeInstalledTargets(p, stuck)
  BY <1>8, LeaveMoves DEF JudgeInstalledTargets
<1>. QED
  BY <1>1, <1>2, <1>3, <1>4, <1>5, <1>6, <1>7, <1>8 DEF LoopStep

\* A step of a request.
LEMMA RequestMoves ==
  ASSUME IInv, NEW q \in Requests, RequestStep(q)
  PROVE  ActorMoves(q)
<1>. USE DEF IInv
<1>. /\ q \in Actors /\ Types /\ Knows(pc[q], mem[q])
  BY DEF Actors, Knowledge
<1>. mem[q] \in Memory
  BY DEF Types
<1>1. CASE PauseRollout(q)
  BY <1>1, LeaveMoves DEF PauseRollout
<1>2. CASE ResumeRollout(q)
  <2>1. Knows("rerun", mem[q]) /\ Knows("active", mem[q])
    BY DEF Knows
  <2>. QED
    BY <1>2, <2>1, LeaveMoves, StaysMoves DEF ResumeRollout, Steps
<1>3. CASE ResumeSetsRunning(q)
  <2>1. Knows("reactivate", mem[q])
    BY DEF Knows
  <2>. QED
    BY <1>3, <2>1, StaysMoves DEF ResumeSetsRunning, Steps
<1>4. CASE ResumeActivatesPaused(q)
  BY <1>4, LeaveMoves DEF ResumeActivatesPaused
<1>5. CASE ResumeLooksForActive(q)
  <2>1. Knows("next", mem[q])
    BY DEF Knows
  <2>. QED
    BY <1>5, <2>1, LeaveMoves, StaysMoves DEF ResumeLooksForActive, Steps
<1>6. CASE ResumePicksNext(q)
  <2>. DEFINE i == Min(InState(phase, "pending"))
              m == [mem[q] EXCEPT !.index = i]
  <2>1. CASE InState(phase, "pending") # {} /\ Goto(q, "activate")
             /\ mem' = [mem EXCEPT ![q].index = i]
    <3>1. i \in Phases /\ i \in Nat
      BY <2>1, FirstIsPhase, PhaseIndices
    <3>2. mem' = [mem EXCEPT ![q] = m]
      BY <2>1 DEF Types
    <3>. HIDE DEF i
    <3>3. m \in Memory /\ m.index = i
      BY <3>1 DEF Memory
    <3>. HIDE DEF m
    <3>4. Knows("activate", m)
      BY <3>1, <3>3 DEF Knows
    <3>. QED
      BY <2>1, <3>2, <3>3, <3>4 DEF Goto, Moves, ActorMoves, Steps
  <2>2. CASE Leave(q)
    BY <2>2, LeaveMoves
  <2>. QED
    BY <1>6, <2>1, <2>2 DEF ResumePicksNext
<1>7. CASE \E running \in SUBSET Pool : ActivatePendingPhase(q, running)
  BY <1>7, LeaveMoves DEF ActivatePendingPhase
<1>8. CASE AbortRollout(q)
  <2>1. Knows("stop", mem[q])
    BY DEF Knows
  <2>. QED
    BY <1>8, <2>1, LeaveMoves, StaysMoves DEF AbortRollout, Steps
<1>9. CASE AbortPausesPhases(q)
  BY <1>9, LeaveMoves DEF AbortPausesPhases
<1>10. CASE RollbackRollout(q)
  <2>. DEFINE ks == {phase[i].job : i \in Phases} \ {NoJob}
              m == [mem[q] EXCEPT !.jobs = ks]
  <2>1. ASSUME NEW i \in Phases, phase[i].job # NoJob
        PROVE  phase[i].job \in NewJobs
    BY <2>1 DEF PhaseJobs, PhaseJob, NewJobs
  <2>2. ks \in SUBSET Nat /\ ks \subseteq NewJobs
    BY <2>1 DEF Types, PhaseRow
  <2>3. mem' = [mem EXCEPT ![q] = m] /\ Goto(q, "existing")
    BY <1>10 DEF RollbackRollout, Types
  <2>. HIDE DEF ks
  <2>4. m \in Memory /\ m.jobs = ks
    BY <2>2 DEF Memory
  <2>. HIDE DEF m
  <2>5. Knows("existing", m)
    BY <2>2, <2>4 DEF Knows
  <2>. QED
    BY <2>3, <2>4, <2>5 DEF Goto, Moves, ActorMoves, Steps
<1>11. CASE RollbackReadsExisting(q)
  <2>. DEFINE m == [mem[q] EXCEPT !.old = rollout.rollback]
              s == IF rollout.rollback = NoJob THEN "confirmed" ELSE "targets"
  <2>1. pc[q] = "existing" /\ Goto(q, s) /\ mem' = [mem EXCEPT ![q] = m]
    BY <1>11 DEF RollbackReadsExisting, Types
  <2>2. m \in Memory /\ m.old = rollout.rollback /\ m.jobs = mem[q].jobs
    BY DEF Memory, Types
  <2>. HIDE DEF m
  <2>3. m.jobs \subseteq NewJobs
    BY <2>1, <2>2 DEF Knows
  <2>4. s = "targets" => m.old \in DOMAIN jobs
    BY <2>2 DEF RollbackSlot
  <2>5. s = "confirmed" => m.old = NoJob
    BY <2>2
  <2>6. s \in {"confirmed", "targets"}
    OBVIOUS
  <2>. HIDE DEF s
  <2>7. Knows(s, m)
    BY <2>3, <2>4, <2>5, <2>6 DEF Knows
  <2>. QED
    BY <2>1, <2>2, <2>6, <2>7 DEF Goto, Moves, ActorMoves, Steps
<1>12. CASE RollbackJudgesExisting(q)
  <2>1. CASE Stays(q, "confirmed") /\ AllTerminal(jobs[mem[q].old].targets)
    <3>1. pc[q] = "targets"
      BY <1>12 DEF RollbackJudgesExisting
    <3>2. Knows("confirmed", mem[q])
      BY <2>1, <3>1 DEF Knows
    <3>. QED
      BY <2>1, <3>2, StaysMoves DEF Steps
  <2>. QED
    BY <1>12, <2>1, LeaveMoves DEF RollbackJudgesExisting
<1>13. CASE RollbackReadsConfirmed(q)
  <2>. DEFINE ds == Confirmed(mem[q].jobs)
              m == [mem[q] EXCEPT !.devices = ds]
  <2>1. CASE Goto(q, "claim") /\ mem' = [mem EXCEPT ![q].devices = ds]
    <3>1. pc[q] = "confirmed"
      BY <1>13 DEF RollbackReadsConfirmed
    <3>2. mem[q].jobs \subseteq NewJobs
      BY <3>1 DEF Knows
    <3>3. ds \in SUBSET Pool /\ ds \subseteq Confirmed(NewJobs)
      BY <3>2 DEF Confirmed
    <3>4. mem' = [mem EXCEPT ![q] = m]
      BY <2>1 DEF Types
    <3>. HIDE DEF ds
    <3>5. /\ m \in Memory /\ m.devices = ds /\ m.old = mem[q].old
          /\ m.jobs = mem[q].jobs
      BY <3>3 DEF Memory
    <3>. HIDE DEF m
    <3>6. Knows("claim", m)
      BY <3>1, <3>2, <3>3, <3>5 DEF Knows
    <3>. QED
      BY <2>1, <3>4, <3>5, <3>6 DEF Goto, Moves, ActorMoves, Steps
  <2>. QED
    BY <1>13, <2>1, LeaveMoves DEF RollbackReadsConfirmed
<1>14. CASE \E running \in SUBSET Pool : RollbackClaims(q, running)
  BY <1>14, LeaveMoves DEF RollbackClaims
<1>. QED
  BY <1>1, <1>2, <1>3, <1>4, <1>5, <1>6, <1>7, <1>8, <1>9, <1>10, <1>11, <1>12, <1>13,
     <1>14 DEF RequestStep

-----------------------------------------------------------------------------
(* What a step does to the tables *)

RolloutRow == [state : RolloutStates, manual : BOOLEAN, rollback : Nat]

\* What becomes of a phase that is neither started nor created.
PhaseMoves(r, n) ==
  /\ n.job = r.job
  /\ n.state = "pending" <=> r.state = "pending"
  /\ r.state = "completed" => n.state = "completed"
  /\ n.state = "completed" => r.state = "completed" \/ Met(jobs[r.job].targets)

PhasesMove ==
  /\ sizes' = sizes
  /\ phase' \in [Phases -> PhaseRow]
  /\ \A i \in Phases : PhaseMoves(phase[i], phase'[i])

\* States of the rollout and of its phases change, nothing else.
Quiet == PhasesMove /\ jobs' = jobs /\ rollout'.rollback = rollout.rollback

Started(i, running) ==
  /\ phase[i].state = "pending"
  /\ Activated(i, running)
  /\ UNCHANGED <<rollout, sizes>>

Progressed(k, j) ==
  /\ Later(jobs[k], j)
  /\ jobs' = [jobs EXCEPT ![k] = j]
  /\ UNCHANGED <<rollout, sizes, phase>>

RolledBack(devices, running) ==
  /\ jobs' = Append(jobs, NewJob("baseline", devices, running))
  /\ rollout'.rollback = Len(jobs) + 1
  /\ rollout.rollback # NoJob => AllTerminal(jobs[rollout.rollback].targets)
  /\ devices \subseteq Confirmed(NewJobs)
  /\ PhasesMove

TablesChange ==
  \/ Quiet
  \/ \E i \in Phases, running \in SUBSET Pool : Started(i, running)
  \/ \E k \in DOMAIN jobs, j \in Job : Progressed(k, j)
  \/ \E devices \in SUBSET Pool, running \in SUBSET Pool : RolledBack(devices, running)

\* The life of the rollout itself.
RolloutMoves ==
  /\ rollout.state # "none"
  /\ rollout' \in RolloutRow
  /\ rollout'.state # "none"
  /\ rollout.state = "aborted" => rollout'.state = "aborted"
  /\ rollout.state = "completed" =>
       \/ rollout'.state = "completed"
       \/ rollout'.state = "aborted" /\ rollout'.rollback # rollout.rollback

\* Nothing changes.
LEMMA UnchangedMove ==
  ASSUME Types, UNCHANGED <<sizes, phase>>
  PROVE  PhasesMove
  BY DEF Types, PhasesMove, PhaseMoves

\* A rollout that stays as it is.
LEMMA UnchangedRollout ==
  ASSUME Types, rollout.state # "none", rollout' = rollout
  PROVE  RolloutMoves
  BY DEF Types, RolloutMoves, RolloutRow

\* Pausing phases.
LEMMA PauseMove ==
  ASSUME Types, NEW S, PausePhases(S), sizes' = sizes
  PROVE  PhasesMove
<1>1. ASSUME NEW i \in Phases
      PROVE  phase'[i] \in PhaseRow /\ PhaseMoves(phase[i], phase'[i])
  <2>1. phase[i] \in PhaseRow
    BY DEF Types
  <2>2. CASE i \in S /\ phase[i].state = "active"
    <3>. DEFINE n == [phase[i] EXCEPT !.state = "paused"]
    <3>1. phase'[i] = n
      BY <2>2 DEF PausePhases
    <3>2. n \in PhaseRow /\ n.state = "paused" /\ n.job = phase[i].job
      BY <2>1 DEF PhaseRow, PhaseStates
    <3>. HIDE DEF n
    <3>. QED
      BY <2>2, <3>1, <3>2 DEF PhaseMoves
  <2>3. CASE ~(i \in S /\ phase[i].state = "active")
    BY <2>1, <2>3 DEF PausePhases, PhaseMoves
  <2>. QED
    BY <2>2, <2>3
<1>2. phase' \in [Phases -> PhaseRow]
  BY <1>1 DEF PausePhases
<1>. QED
  BY <1>1, <1>2 DEF PhasesMove

\* The state of the rollout changes.
LEMMA StateMove ==
  ASSUME Types, rollout.state # "none",
         NEW s \in {"running", "paused", "aborted", "completed"},
         rollout.state # "aborted" \/ s = "aborted",
         rollout.state # "completed" \/ s = "completed",
         rollout' = [rollout EXCEPT !.state = s]
  PROVE  RolloutMoves /\ rollout'.rollback = rollout.rollback
<1>. DEFINE r == [rollout EXCEPT !.state = s]
<1>1. r \in RolloutRow /\ r.state = s /\ r.rollback = rollout.rollback
  BY DEF Types, RolloutRow, RolloutStates
<1>. HIDE DEF r
<1>2. rollout' = r
  BY DEF r
<1>. QED
  BY <1>1, <1>2 DEF RolloutMoves

\* Claiming a phase and creating its job.
LEMMA ActivateChange ==
  ASSUME IInv, NEW a \in Actors, NEW running \in SUBSET Pool, rollout.state # "none",
         ActivatePendingPhase(a, running)
  PROVE  TablesChange /\ RolloutMoves
<1>. DEFINE i == mem[a].index
<1>1. Types /\ Knows("activate", mem[a])
  BY DEF IInv, Knowledge, ActivatePendingPhase
<1>2. i \in Phases
  BY <1>1 DEF Knows
<1>3. RolloutMoves
  BY <1>1, UnchangedRollout DEF ActivatePendingPhase
<1>4. CASE phase[i].state = "pending"
  <2>1. Started(i, running)
    BY <1>4 DEF ActivatePendingPhase, Started
  <2>. QED
    BY <1>2, <1>3, <2>1 DEF TablesChange
<1>5. CASE phase[i].state # "pending"
  <2>1. UNCHANGED <<phase, jobs, sizes, rollout>>
    BY <1>5 DEF ActivatePendingPhase
  <2>2. PhasesMove
    BY <1>1, <2>1, UnchangedMove
  <2>. QED
    BY <1>3, <2>1, <2>2 DEF Quiet, TablesChange
<1>. QED
  BY <1>4, <1>5

\* A step of the advance loop.
LEMMA LoopChange ==
  ASSUME IInv, NEW p \in Pollers, LoopStep(p)
  PROVE  TablesChange /\ RolloutMoves
<1>. USE DEF IInv
<1>. /\ p \in Actors /\ Types /\ Knows(pc[p], mem[p]) /\ mem[p] \in Memory
  BY DEF Actors, Knowledge, Types
<1>0. rollout.state # "none"
  BY DEF LoopStep, Planned, AdvanceRollouts, AdvanceOneRollout, JudgePhase, FinishPhase,
         ActivatePendingPhase, CompleteRollout, TimeoutPausesRollout, JudgeInstalledTargets
<1>1. CASE UNCHANGED tables
  <2>1. PhasesMove /\ jobs' = jobs /\ rollout' = rollout
    BY <1>1, UnchangedMove DEF tables
  <2>. QED
    BY <1>0, <2>1, UnchangedRollout DEF Quiet, TablesChange
<1>2. CASE FinishPhase(p)
  <2>. DEFINE i == mem[p].index
  <2>1. Knows("finish", mem[p])
    BY <1>2 DEF FinishPhase
  <2>2. CASE phase[i].state # "active"
    BY <1>1, <1>2, <2>2 DEF FinishPhase, tables
  <2>3. CASE phase[i].state = "active"
    <3>. DEFINE n == [phase[i] EXCEPT !.state = "completed"]
    <3>1. i \in Phases /\ Met(jobs[phase[i].job].targets)
      BY <2>1 DEF Knows
    <3>2. phase[i] \in PhaseRow /\ phase \in [Phases -> PhaseRow]
      BY <3>1 DEF Types
    <3>3. phase' = [phase EXCEPT ![i] = n]
      BY <1>2, <2>3, <3>2 DEF FinishPhase
    <3>4. n \in PhaseRow /\ n.state = "completed" /\ n.job = phase[i].job
      BY <3>2 DEF PhaseRow, PhaseStates
    <3>5. UNCHANGED <<rollout, sizes, jobs>>
      BY <1>2 DEF FinishPhase
    <3>. HIDE DEF n, i
    <3>6. phase' \in [Phases -> PhaseRow]
      BY <3>1, <3>2, <3>3, <3>4
    <3>7. ASSUME NEW j \in Phases PROVE PhaseMoves(phase[j], phase'[j])
      <4>1. CASE j = i
        BY <2>3, <3>1, <3>2, <3>3, <3>4, <4>1 DEF PhaseMoves
      <4>2. CASE j # i
        BY <3>2, <3>3, <4>2 DEF PhaseMoves
      <4>. QED
        BY <4>1, <4>2
    <3>8. PhasesMove
      BY <3>5, <3>6, <3>7 DEF PhasesMove
    <3>. QED
      BY <1>0, <3>5, <3>8, UnchangedRollout DEF Quiet, TablesChange
  <2>. QED
    BY <2>2, <2>3
<1>3. CASE \E running \in SUBSET Pool : ActivatePendingPhase(p, running)
  BY <1>0, <1>3, ActivateChange
<1>4. CASE CompleteRollout(p)
  <2>. DEFINE s == IF rollout.state = "running" THEN "completed" ELSE rollout.state
  <2>1. rollout' = [rollout EXCEPT !.state = s]
    BY <1>4 DEF CompleteRollout, Types
  <2>2. s \in {"running", "paused", "aborted", "completed"}
    BY <1>0 DEF Types, RolloutStates
  <2>3. RolloutMoves /\ rollout'.rollback = rollout.rollback
    BY <1>0, <2>1, <2>2, StateMove
  <2>4. PhasesMove /\ jobs' = jobs
    BY <1>4, UnchangedMove DEF CompleteRollout
  <2>. QED
    BY <2>3, <2>4 DEF Quiet, TablesChange
<1>5. CASE TimeoutPausesRollout(p)
  <2>. DEFINE s == IF rollout.state = "running" THEN "paused" ELSE rollout.state
  <2>1. rollout' = [rollout EXCEPT !.state = s]
    BY <1>5 DEF TimeoutPausesRollout, Types
  <2>2. s \in {"running", "paused", "aborted", "completed"}
    BY <1>0 DEF Types, RolloutStates
  <2>3. RolloutMoves /\ rollout'.rollback = rollout.rollback
    BY <1>0, <2>1, <2>2, StateMove
  <2>4. PhasesMove /\ jobs' = jobs
    BY <1>5, PauseMove DEF TimeoutPausesRollout
  <2>. QED
    BY <2>3, <2>4 DEF Quiet, TablesChange
<1>6. CASE \E stuck \in SUBSET Pool : JudgeInstalledTargets(p, stuck)
  <2>1. PICK stuck \in SUBSET Pool : JudgeInstalledTargets(p, stuck)
    BY <1>6
  <2>. DEFINE k == mem[p].phases[mem[p].index].job
              t == jobs[k].targets
              u == [d \in DOMAIN t |-> IF d \in stuck /\ t[d] = "installed"
                                       THEN "failed" ELSE t[d]]
              j == [jobs[k] EXCEPT !.targets = u]
  <2>2. mem[p].index \in Phases /\ k # NoJob /\ k = phase[mem[p].index].job
    BY <2>1 DEF JudgeInstalledTargets, Knows
  <2>3. k \in DOMAIN jobs
    BY <2>2 DEF PhaseJobs, PhaseJob
  <2>4. jobs[k] \in Job
    BY <2>3, LenProperties, ElementOfSeq DEF Types
  <2>5. jobs' = [jobs EXCEPT ![k] = j]
    <3>1. jobs' = [jobs EXCEPT ![k].targets = u]
      BY <2>1, <2>2, <2>3 DEF JudgeInstalledTargets
    <3>. QED
      BY <2>3, <3>1
  <2>6. UNCHANGED <<rollout, sizes, phase>>
    BY <2>1 DEF JudgeInstalledTargets
  <2>. HIDE DEF k
  <2>7. DOMAIN t \in SUBSET Pool /\ t \in [DOMAIN t -> TargetStates]
    BY <2>4, TargetsOfJob
  <2>8. /\ u \in [DOMAIN t -> TargetStates] /\ DOMAIN u = DOMAIN t
        /\ \A d \in DOMAIN t : t[d] \in {"completed", "failed"} => u[d] = t[d]
    BY <2>7 DEF TargetStates
  <2>. HIDE DEF t, u
  <2>9. j \in Job /\ j.release = jobs[k].release /\ j.targets = u
    BY <2>4, <2>7, <2>8 DEF Job
  <2>. HIDE DEF j
  <2>10. Later(jobs[k], j)
    BY <2>8, <2>9 DEF Later, t
  <2>. QED
    BY <1>0, <2>3, <2>5, <2>6, <2>9, <2>10, UnchangedRollout DEF Progressed, TablesChange
<1>. QED
  BY <1>1, <1>2, <1>3, <1>4, <1>5, <1>6
  DEF LoopStep, AdvanceRollouts, AdvanceOneRollout, JudgePhase

\* The progress of a device.
LEMMA DeviceChange ==
  ASSUME IInv, NEW k \in DOMAIN jobs, DeviceStep(k)
  PROVE  TablesChange /\ RolloutMoves
<1>1. PICK d \in DOMAIN jobs[k].targets, s \in TargetStates : TargetProgress(k, d, s)
  BY DEF DeviceStep
<1>. DEFINE t == jobs[k].targets
            u == [t EXCEPT ![d] = s]
            j == [jobs[k] EXCEPT !.targets = u]
<1>2. Types /\ Planned /\ jobs[k] \in Job
  BY LenProperties, ElementOfSeq DEF IInv, Types
<1>3. jobs' = [jobs EXCEPT ![k] = j]
  BY <1>1 DEF TargetProgress
<1>4. UNCHANGED <<rollout, sizes, phase>>
  BY <1>1 DEF TargetProgress
<1>5. t[d] \notin {"completed", "failed"}
  BY <1>1 DEF TargetProgress, TargetMoves
<1>6. DOMAIN t \in SUBSET Pool /\ t \in [DOMAIN t -> TargetStates]
  BY <1>2, TargetsOfJob
<1>7. /\ u \in [DOMAIN t -> TargetStates] /\ DOMAIN u = DOMAIN t
      /\ \A x \in DOMAIN t : t[x] \in {"completed", "failed"} => u[x] = t[x]
  BY <1>5, <1>6
<1>. HIDE DEF t, u
<1>8. j \in Job /\ j.release = jobs[k].release /\ j.targets = u
  BY <1>2, <1>6, <1>7 DEF Job
<1>. HIDE DEF j
<1>9. Later(jobs[k], j)
  BY <1>7, <1>8 DEF Later, t
<1>10. rollout.state # "none"
  BY <1>2 DEF Planned
<1>. QED
  BY <1>2, <1>3, <1>4, <1>8, <1>9, <1>10, UnchangedRollout DEF Progressed, TablesChange

\* A step of a request.
LEMMA RequestChange ==
  ASSUME IInv, NEW q \in Requests, RequestStep(q)
  PROVE  TablesChange /\ RolloutMoves
<1>. USE DEF IInv
<1>. /\ q \in Actors /\ Types /\ Knows(pc[q], mem[q]) /\ mem[q] \in Memory
  BY DEF Actors, Knowledge, Types
<1>0. rollout.state # "none"
  BY DEF RequestStep, Planned, Asks, PauseRollout, ResumeRollout, ResumeSetsRunning,
         ResumeActivatesPaused, ResumeLooksForActive, ResumePicksNext, ActivatePendingPhase,
         AbortRollout, AbortPausesPhases, RollbackRollout, RollbackReadsExisting,
         RollbackJudgesExisting, RollbackReadsConfirmed, RollbackClaims
<1>1. CASE UNCHANGED tables
  <2>1. PhasesMove /\ jobs' = jobs /\ rollout' = rollout
    BY <1>1, UnchangedMove DEF tables
  <2>. QED
    BY <1>0, <2>1, UnchangedRollout DEF Quiet, TablesChange
<1>2. CASE PauseRollout(q)
  <2>. DEFINE s == IF rollout.state = "running" THEN "paused" ELSE rollout.state
  <2>1. rollout' = [rollout EXCEPT !.state = s]
    BY <1>2 DEF PauseRollout, Types
  <2>2. s \in {"running", "paused", "aborted", "completed"}
    BY <1>0 DEF Types, RolloutStates
  <2>3. RolloutMoves /\ rollout'.rollback = rollout.rollback
    BY <1>0, <2>1, <2>2, StateMove
  <2>4. PhasesMove /\ jobs' = jobs
    BY <1>2, PauseMove DEF PauseRollout
  <2>. QED
    BY <2>3, <2>4 DEF Quiet, TablesChange
<1>3. CASE ResumeSetsRunning(q)
  <2>. DEFINE s == IF rollout.state = "paused" THEN "running" ELSE rollout.state
  <2>1. rollout' = [rollout EXCEPT !.state = s]
    BY <1>3 DEF ResumeSetsRunning, Types
  <2>2. s \in {"running", "paused", "aborted", "completed"}
    BY <1>0 DEF Types, RolloutStates
  <2>3. RolloutMoves /\ rollout'.rollback = rollout.rollback
    BY <1>0, <2>1, <2>2, StateMove
  <2>4. PhasesMove /\ jobs' = jobs
    BY <1>3, UnchangedMove DEF ResumeSetsRunning
  <2>. QED
    BY <2>3, <2>4 DEF Quiet, TablesChange
<1>4. CASE ResumeActivatesPaused(q)
  <2>1. ASSUME NEW i \in Phases
        PROVE  phase'[i] \in PhaseRow /\ PhaseMoves(phase[i], phase'[i])
    <3>1. phase[i] \in PhaseRow
      BY DEF Types
    <3>2. CASE phase[i].state = "paused"
      <4>. DEFINE n == [phase[i] EXCEPT !.state = "active"]
      <4>1. phase'[i] = n
        BY <1>4, <3>2 DEF ResumeActivatesPaused
      <4>2. n \in PhaseRow /\ n.state = "active" /\ n.job = phase[i].job
        BY <3>1 DEF PhaseRow, PhaseStates
      <4>. HIDE DEF n
      <4>. QED
        BY <3>2, <4>1, <4>2 DEF PhaseMoves
    <3>3. CASE phase[i].state # "paused"
      BY <1>4, <3>1, <3>3 DEF ResumeActivatesPaused, PhaseMoves
    <3>. QED
      BY <3>2, <3>3
  <2>2. phase' \in [Phases -> PhaseRow]
    BY <1>4, <2>1 DEF ResumeActivatesPaused
  <2>3. UNCHANGED <<rollout, sizes, jobs>>
    BY <1>4 DEF ResumeActivatesPaused
  <2>4. PhasesMove
    BY <2>1, <2>2, <2>3 DEF PhasesMove
  <2>. QED
    BY <1>0, <2>3, <2>4, UnchangedRollout DEF Quiet, TablesChange
<1>5. CASE \E running \in SUBSET Pool : ActivatePendingPhase(q, running)
  BY <1>0, <1>5, ActivateChange
<1>6. CASE AbortRollout(q)
  <2>1. CASE rollout.state \in {"running", "paused"}
    <3>1. rollout' = [rollout EXCEPT !.state = "aborted"]
      BY <1>6, <2>1 DEF AbortRollout
    <3>2. RolloutMoves /\ rollout'.rollback = rollout.rollback
      BY <1>0, <2>1, <3>1, StateMove
    <3>3. PhasesMove /\ jobs' = jobs
      BY <1>6, UnchangedMove DEF AbortRollout
    <3>. QED
      BY <3>2, <3>3 DEF Quiet, TablesChange
  <2>2. CASE rollout.state \notin {"running", "paused"}
    BY <1>1, <1>6, <2>2 DEF AbortRollout, tables
  <2>. QED
    BY <2>1, <2>2
<1>7. CASE AbortPausesPhases(q)
  <2>1. PhasesMove /\ jobs' = jobs /\ rollout' = rollout
    BY <1>7, PauseMove DEF AbortPausesPhases
  <2>. QED
    BY <1>0, <2>1, UnchangedRollout DEF Quiet, TablesChange
<1>8. CASE \E running \in SUBSET Pool : RollbackClaims(q, running)
  <2>1. PICK running \in SUBSET Pool : RollbackClaims(q, running)
    BY <1>8
  <2>2. CASE rollout.rollback \in {NoJob, mem[q].old}
    <3>. DEFINE r == [rollout EXCEPT !.state = "aborted", !.rollback = Len(jobs) + 1]
    <3>1. Knows("claim", mem[q])
      BY <2>1 DEF RollbackClaims
    <3>2. /\ jobs' = Append(jobs, NewJob("baseline", mem[q].devices, running))
          /\ rollout' = r /\ PausePhases(Phases) /\ sizes' = sizes
      BY <2>1, <2>2 DEF RollbackClaims
    <3>3. PhasesMove
      BY <3>2, PauseMove
    <3>4. mem[q].devices \in SUBSET Pool
      BY DEF Memory
    <3>5. mem[q].devices \subseteq Confirmed(NewJobs)
      BY <3>1 DEF Knows
    <3>6. rollout.rollback # NoJob => AllTerminal(jobs[rollout.rollback].targets)
      BY <2>2, <3>1 DEF Knows
    <3>7. Len(jobs) \in Nat
      BY LenProperties DEF Types
    <3>8. r \in RolloutRow /\ r.state = "aborted" /\ r.rollback = Len(jobs) + 1
      <4>1. PICK n \in Nat : n = Len(jobs) + 1
        BY <3>7
      <4>2. PICK x \in RolloutRow : x = rollout
        BY DEF Types, RolloutRow
      <4>. DEFINE y == [x EXCEPT !.state = "aborted", !.rollback = n]
      <4>3. y \in RolloutRow /\ y.state = "aborted" /\ y.rollback = n
        BY DEF RolloutRow, RolloutStates
      <4>4. r = y
        BY <4>1, <4>2
      <4>. HIDE DEF y, r
      <4>. QED
        BY <4>1, <4>3, <4>4
    <3>. HIDE DEF r
    <3>9. rollout.rollback # Len(jobs) + 1
      <4>1. DOMAIN jobs = 1..Len(jobs)
        BY LenProperties DEF Types
      <4>2. rollout.rollback \in DOMAIN jobs \/ rollout.rollback = 0
        BY DEF RollbackSlot, NoJob
      <4>. QED
        BY <3>7, <4>1, <4>2
    <3>10. RolloutMoves
      BY <1>0, <3>2, <3>8, <3>9 DEF RolloutMoves
    <3>11. RolledBack(mem[q].devices, running)
      BY <3>2, <3>3, <3>5, <3>6, <3>8 DEF RolledBack
    <3>. QED
      BY <3>4, <3>10, <3>11 DEF TablesChange
  <2>3. CASE rollout.rollback \notin {NoJob, mem[q].old}
    BY <1>1, <2>1, <2>3 DEF RollbackClaims, tables
  <2>. QED
    BY <2>2, <2>3
<1>9. CASE \/ ResumeRollout(q) \/ ResumeLooksForActive(q) \/ ResumePicksNext(q)
           \/ RollbackRollout(q) \/ RollbackReadsExisting(q)
           \/ RollbackJudgesExisting(q) \/ RollbackReadsConfirmed(q)
  BY <1>1, <1>9 DEF ResumeRollout, ResumeLooksForActive, ResumePicksNext,
     RollbackRollout, RollbackReadsExisting, RollbackJudgesExisting, RollbackReadsConfirmed
<1>. QED
  BY <1>2, <1>3, <1>4, <1>5, <1>6, <1>7, <1>8, <1>9 DEF RequestStep

-----------------------------------------------------------------------------
(* What a change of the tables keeps *)

PhasesKeep ==
  /\ sizes' = sizes
  /\ \A i \in Phases : phase[i].job # NoJob => phase'[i].job = phase[i].job

\* The new row of a phase that starts.
LEMMA StartedRow ==
  ASSUME IInv, NEW i \in Phases, NEW running \in SUBSET Pool, Started(i, running)
  PROVE  /\ JobsLater
         /\ DOMAIN jobs' = DOMAIN jobs \cup {Len(jobs) + 1}
         /\ Len(jobs) + 1 \in Nat \ {0} /\ Len(jobs) + 1 \notin DOMAIN jobs
         /\ \A k \in DOMAIN jobs : jobs'[k] = jobs[k]
         /\ jobs'[Len(jobs) + 1].release = "new"
         /\ DOMAIN jobs'[Len(jobs) + 1].targets = Slice(sizes, i)
         /\ phase' \in [Phases -> PhaseRow]
         /\ phase'[i].state = "active" /\ phase'[i].job = Len(jobs) + 1
         /\ \A x \in Phases \ {i} : phase'[x] = phase[x]
         /\ phase[i].job = NoJob
<1>. DEFINE j == NewJob("new", Slice(sizes, i), running)
            n == [state |-> "active", job |-> Len(jobs) + 1]
<1>1. jobs' = Append(jobs, j) /\ phase' = [phase EXCEPT ![i] = n]
  BY DEF Started, Activated
<1>2. Slice(sizes, i) \in SUBSET Pool
  BY DEF Slice
<1>3. j \in Job /\ j.release = "new" /\ DOMAIN j.targets = Slice(sizes, i)
  BY <1>2, NewJobIsJob
<1>. HIDE DEF j
<1>4. /\ JobsLater
      /\ DOMAIN jobs' = DOMAIN jobs \cup {Len(jobs) + 1}
      /\ Len(jobs) + 1 \in Nat \ {0} /\ Len(jobs) + 1 \notin DOMAIN jobs
      /\ jobs'[Len(jobs) + 1] = j
      /\ \A k \in DOMAIN jobs : jobs'[k] = jobs[k]
  BY <1>1, <1>3, AppendedJob DEF IInv, Types
<1>5. n \in PhaseRow /\ n.state = "active" /\ n.job = Len(jobs) + 1
  BY <1>4 DEF PhaseRow, PhaseStates
<1>. HIDE DEF n
<1>6. phase \in [Phases -> PhaseRow]
  BY DEF IInv, Types
<1>7. /\ phase' \in [Phases -> PhaseRow] /\ phase'[i] = n
      /\ \A x \in Phases \ {i} : phase'[x] = phase[x]
  BY <1>1, <1>5, <1>6
<1>8. phase[i].job = NoJob
  BY DEF IInv, PhaseJobs, PhaseJob, Started
<1>. QED
  BY <1>3, <1>4, <1>5, <1>7, <1>8

\* The new job of a rollback.
LEMMA RolledBackJob ==
  ASSUME IInv, NEW devices \in SUBSET Pool, NEW running \in SUBSET Pool,
         RolledBack(devices, running)
  PROVE  /\ JobsLater
         /\ DOMAIN jobs' = DOMAIN jobs \cup {Len(jobs) + 1}
         /\ Len(jobs) + 1 \in Nat \ {0} /\ Len(jobs) + 1 \notin DOMAIN jobs
         /\ \A k \in DOMAIN jobs : jobs'[k] = jobs[k]
         /\ jobs'[Len(jobs) + 1].release = "baseline"
         /\ DOMAIN jobs'[Len(jobs) + 1].targets = devices
<1>. DEFINE j == NewJob("baseline", devices, running)
<1>1. jobs' = Append(jobs, j)
  BY DEF RolledBack
<1>2. j \in Job /\ j.release = "baseline" /\ DOMAIN j.targets = devices
  BY NewJobIsJob
<1>. HIDE DEF j
<1>3. /\ JobsLater
      /\ DOMAIN jobs' = DOMAIN jobs \cup {Len(jobs) + 1}
      /\ Len(jobs) + 1 \in Nat \ {0} /\ Len(jobs) + 1 \notin DOMAIN jobs
      /\ jobs'[Len(jobs) + 1] = j
      /\ \A k \in DOMAIN jobs : jobs'[k] = jobs[k]
  BY <1>1, <1>2, AppendedJob DEF IInv, Types
<1>. QED
  BY <1>2, <1>3

\* However the tables change, jobs only progress and phases keep theirs.
LEMMA TablesKeep ==
  ASSUME IInv, TablesChange
  PROVE  /\ JobsLater /\ PhasesKeep
         /\ phase' \in [Phases -> PhaseRow]
<1>1. CASE Quiet
  <2>1. JobsLater
    BY <1>1 DEF Quiet, JobsLater, Later, IInv, Types
  <2>. QED
    BY <1>1, <2>1 DEF Quiet, PhasesMove, PhaseMoves, PhasesKeep
<1>2. CASE \E i \in Phases, running \in SUBSET Pool : Started(i, running)
  <2>1. PICK i \in Phases, running \in SUBSET Pool : Started(i, running)
    BY <1>2
  <2>2. /\ JobsLater /\ phase' \in [Phases -> PhaseRow] /\ phase[i].job = NoJob
        /\ \A x \in Phases \ {i} : phase'[x] = phase[x]
    BY <2>1, StartedRow
  <2>3. sizes' = sizes
    BY <2>1 DEF Started
  <2>. QED
    BY <2>2, <2>3 DEF PhasesKeep
<1>3. CASE \E k \in DOMAIN jobs, j \in Job : Progressed(k, j)
  <2>1. PICK k \in DOMAIN jobs, j \in Job : Progressed(k, j)
    BY <1>3
  <2>2. JobsLater
    BY <2>1, ChangedJob DEF Progressed, IInv, Types
  <2>. QED
    BY <2>1, <2>2 DEF Progressed, PhasesKeep, IInv, Types
<1>4. CASE \E devices \in SUBSET Pool, running \in SUBSET Pool : RolledBack(devices, running)
  <2>1. PICK devices \in SUBSET Pool, running \in SUBSET Pool : RolledBack(devices, running)
    BY <1>4
  <2>2. JobsLater
    BY <2>1, RolledBackJob
  <2>. QED
    BY <2>1, <2>2 DEF RolledBack, PhasesMove, PhaseMoves, PhasesKeep
<1>. QED
  BY <1>1, <1>2, <1>3, <1>4 DEF TablesChange

\* A job of the tables, before and after.
LEMMA JobBeforeAfter ==
  ASSUME Types, JobsLater, NEW k \in DOMAIN jobs
  PROVE  k \in DOMAIN jobs' /\ jobs[k] \in Job /\ jobs'[k] \in Job /\ Later(jobs[k], jobs'[k])
<1>1. jobs[k] \in Job
  BY LenProperties, ElementOfSeq DEF Types
<1>2. k \in DOMAIN jobs' /\ Later(jobs[k], jobs'[k]) /\ jobs' \in Seq(Job)
  BY DEF JobsLater
<1>3. jobs'[k] \in Job
  BY <1>2, LenProperties, ElementOfSeq
<1>. QED
  BY <1>1, <1>2, <1>3

\* A device that has confirmed an upgrade has confirmed it.
LEMMA ConfirmedStays ==
  ASSUME Types, JobsLater
  PROVE  NewJobs \subseteq NewJobs' /\ Confirmed(NewJobs) \subseteq Confirmed(NewJobs)'
<1>1. NewJobs \subseteq NewJobs'
  BY JobBeforeAfter DEF NewJobs, Later
<1>2. ASSUME NEW d \in Confirmed(NewJobs)
      PROVE  d \in Confirmed(NewJobs)'
  <2>1. PICK k \in NewJobs : d \in DOMAIN jobs[k].targets /\ jobs[k].targets[d] = "completed"
    BY DEF Confirmed
  <2>2. d \in DOMAIN jobs'[k].targets /\ jobs'[k].targets[d] = "completed"
    BY <2>1, JobBeforeAfter DEF NewJobs, Later
  <2>3. d \in Pool /\ k \in NewJobs'
    BY <1>1 DEF Confirmed
  <2>. QED
    BY <2>2, <2>3 DEF Confirmed
<1>. QED
  BY <1>1, <1>2

\* What is known stays true.
LEMMA KnowsStays ==
  ASSUME Types, PhaseJobs, JobsLater, PhasesKeep, NEW s, NEW m, Knows(s, m)
  PROVE  Knows(s, m)'
<1>0. sizes' = sizes
  BY DEF PhasesKeep
<1>1. ASSUME s \in {"judge", "finish", "timeout", "stall"}
      PROVE  (/\ m.index \in Phases
              /\ DOMAIN m.phases = Phases
              /\ m.phases[m.index].job # NoJob
              /\ m.phases[m.index].job = phase[m.index].job)'
  <2>1. /\ m.index \in Phases
        /\ DOMAIN m.phases = Phases
        /\ m.phases[m.index].job # NoJob
        /\ m.phases[m.index].job = phase[m.index].job
    BY <1>1 DEF Knows
  <2>2. phase'[m.index].job = phase[m.index].job
    BY <2>1 DEF PhasesKeep
  <2>. QED
    BY <1>0, <2>1, <2>2 DEF Phases, NoJob
<1>2. ASSUME s = "finish"
      PROVE  Met(jobs[m.phases[m.index].job].targets)'
  <2>. DEFINE k == m.phases[m.index].job
  <2>1. k # NoJob /\ m.index \in Phases /\ k = phase[m.index].job /\ Met(jobs[k].targets)
    BY <1>2 DEF Knows
  <2>2. k \in DOMAIN jobs
    BY <2>1 DEF PhaseJobs, PhaseJob
  <2>3. Met(jobs'[k].targets)
    BY <2>1, <2>2, JobBeforeAfter, MetStays
  <2>. QED
    BY <2>3 DEF Met
<1>3. s = "activate" => (m.index \in Phases)'
  BY <1>0 DEF Knows, Phases
<1>4. s \in {"existing", "targets", "confirmed", "claim"} => (m.jobs \subseteq NewJobs)'
  BY ConfirmedStays DEF Knows
<1>5. s = "targets" => (m.old \in DOMAIN jobs)'
  BY JobBeforeAfter DEF Knows
<1>6. ASSUME s \in {"confirmed", "claim"}
      PROVE  (\/ m.old = NoJob
              \/ m.old \in DOMAIN jobs /\ AllTerminal(jobs[m.old].targets))'
  <2>1. CASE m.old = NoJob
    BY <2>1 DEF NoJob
  <2>2. CASE m.old \in DOMAIN jobs /\ AllTerminal(jobs[m.old].targets)
    <3>1. m.old \in DOMAIN jobs' /\ AllTerminal(jobs'[m.old].targets)
      BY <2>2, JobBeforeAfter, TerminalStays
    <3>. QED
      BY <3>1 DEF AllTerminal
  <2>. QED
    BY <1>6, <2>1, <2>2 DEF Knows
<1>7. s = "claim" => (m.devices \subseteq Confirmed(NewJobs))'
  BY ConfirmedStays DEF Knows
<1>. QED
  BY <1>1, <1>2, <1>3, <1>4, <1>5, <1>6, <1>7 DEF Knows

-----------------------------------------------------------------------------
(* The invariant of the tables *)

\* A phase that keeps its job keeps its upgrade.
LEMMA PhaseJobStays ==
  ASSUME Types, JobsLater, sizes' = sizes, NEW i, NEW r, NEW n, PhaseJob(r, i),
         n.job = r.job, n.state = "pending" <=> r.state = "pending"
  PROVE  PhaseJob(n, i)'
<1>1. n.state = "pending" <=> n.job = NoJob
  BY DEF PhaseJob
<1>2. ASSUME n.job # NoJob
      PROVE  /\ n.job \in DOMAIN jobs'
             /\ jobs'[n.job].release = "new"
             /\ DOMAIN jobs'[n.job].targets = Slice(sizes, i)
  <2>1. /\ n.job \in DOMAIN jobs /\ jobs[n.job].release = "new"
        /\ DOMAIN jobs[n.job].targets = Slice(sizes, i)
    BY <1>2 DEF PhaseJob
  <2>2. n.job \in DOMAIN jobs' /\ Later(jobs[n.job], jobs'[n.job])
    BY <2>1, JobBeforeAfter
  <2>. QED
    BY <2>1, <2>2 DEF Later
<1>3. Slice(sizes, i)' = Slice(sizes, i)
  BY DEF Slice
<1>. QED
  BY <1>1, <1>2, <1>3 DEF PhaseJob, NoJob

\* Every phase that has started still has the upgrade of its slice.
LEMMA PhaseJobsStep ==
  ASSUME IInv, TablesChange
  PROVE  PhaseJobs'
<1>0. /\ Types /\ PhaseJobs /\ JobsLater /\ sizes' = sizes /\ Phases' = Phases
      /\ phase \in [Phases -> PhaseRow]
  BY TablesKeep DEF IInv, Types, PhasesKeep, Phases
<1>1. ASSUME NEW i \in Phases, phase'[i].job = phase[i].job,
             phase'[i].state = "pending" <=> phase[i].state = "pending"
      PROVE  PhaseJob(phase[i], i)'
  <2>1. PICK r, n : r = phase[i] /\ n = phase'[i]
    OBVIOUS
  <2>2. PhaseJob(r, i)
    BY <1>0, <2>1 DEF PhaseJobs
  <2>3. PhaseJob(n, i)'
    BY <1>0, <1>1, <2>1, <2>2, PhaseJobStays
  <2>. QED
    BY <2>1, <2>3 DEF PhaseJob
<1>2. CASE PhasesMove \/ phase' = phase
  BY <1>0, <1>1, <1>2 DEF PhasesMove, PhaseMoves, PhaseJobs
<1>3. CASE \E i \in Phases, running \in SUBSET Pool : Started(i, running)
  <2>1. PICK i \in Phases, running \in SUBSET Pool : Started(i, running)
    BY <1>3
  <2>2. /\ DOMAIN jobs' = DOMAIN jobs \cup {Len(jobs) + 1}
        /\ Len(jobs) + 1 \in Nat \ {0}
        /\ jobs'[Len(jobs) + 1].release = "new"
        /\ DOMAIN jobs'[Len(jobs) + 1].targets = Slice(sizes, i)
        /\ phase'[i].state = "active" /\ phase'[i].job = Len(jobs) + 1
        /\ \A x \in Phases \ {i} : phase'[x] = phase[x]
    BY <2>1, StartedRow
  <2>3. Slice(sizes, i)' = Slice(sizes, i)
    BY <1>0 DEF Slice
  <2>4. PhaseJob(phase[i], i)'
    BY <2>2, <2>3 DEF PhaseJob, NoJob
  <2>5. ASSUME NEW x \in Phases PROVE PhaseJob(phase[x], x)'
    <3>1. CASE x = i
      BY <2>4, <3>1
    <3>2. CASE x # i
      BY <1>1, <2>2, <3>2
    <3>. QED
      BY <3>1, <3>2
  <2>. QED
    BY <1>0, <2>5 DEF PhaseJobs
<1>. QED
  BY <1>2, <1>3 DEF TablesChange, Quiet, Progressed, RolledBack

\* Jobs are numbered from one.
LEMMA JobNumbers ==
  ASSUME Types
  PROVE  /\ \A k \in DOMAIN jobs : k \in Nat /\ k # NoJob
         /\ Len(jobs) \in Nat /\ DOMAIN jobs = 1..Len(jobs)
  BY LenProperties DEF Types, NoJob

\* Every upgrade still belongs to a phase.
LEMMA UpgradesStep ==
  ASSUME IInv, TablesChange
  PROVE  UpgradesOfPhases'
<1>0. /\ Types /\ UpgradesOfPhases /\ JobsLater /\ PhasesKeep /\ Phases' = Phases
  BY TablesKeep DEF IInv, PhasesKeep, Phases
<1>1. ASSUME NEW k \in DOMAIN jobs, jobs'[k].release = "new"
      PROVE  \E i \in Phases : phase'[i].job = k
  <2>1. jobs[k].release = "new"
    BY <1>0, <1>1, JobBeforeAfter DEF Later
  <2>2. PICK i \in Phases : phase[i].job = k
    BY <1>0, <2>1 DEF UpgradesOfPhases
  <2>3. phase'[i].job = k
    BY <1>0, <2>2, JobNumbers DEF PhasesKeep
  <2>. QED
    BY <2>3
<1>2. CASE DOMAIN jobs' = DOMAIN jobs
  BY <1>0, <1>1, <1>2 DEF UpgradesOfPhases
<1>3. CASE \E i \in Phases, running \in SUBSET Pool : Started(i, running)
  <2>1. PICK i \in Phases, running \in SUBSET Pool : Started(i, running)
    BY <1>3
  <2>2. /\ DOMAIN jobs' = DOMAIN jobs \cup {Len(jobs) + 1}
        /\ phase'[i].job = Len(jobs) + 1
    BY <2>1, StartedRow
  <2>. QED
    BY <1>0, <1>1, <2>2 DEF UpgradesOfPhases
<1>4. CASE \E devices \in SUBSET Pool, running \in SUBSET Pool : RolledBack(devices, running)
  <2>1. PICK devices \in SUBSET Pool, running \in SUBSET Pool : RolledBack(devices, running)
    BY <1>4
  <2>2. /\ DOMAIN jobs' = DOMAIN jobs \cup {Len(jobs) + 1}
        /\ jobs'[Len(jobs) + 1].release = "baseline"
    BY <2>1, RolledBackJob
  <2>. QED
    BY <1>0, <1>1, <2>2 DEF UpgradesOfPhases
<1>. QED
  BY <1>2, <1>3, <1>4 DEF TablesChange, Quiet, Progressed

\* The slot of the rollback holds a rollback.
LEMMA SlotStep ==
  ASSUME IInv, TablesChange
  PROVE  RollbackSlot'
<1>0. Types /\ RollbackSlot /\ JobsLater
  BY TablesKeep DEF IInv
<1>1. CASE rollout'.rollback = rollout.rollback
  <2>. SUFFICES ASSUME rollout.rollback # NoJob
                PROVE  /\ rollout.rollback \in DOMAIN jobs'
                       /\ jobs'[rollout.rollback].release = "baseline"
    BY <1>1 DEF RollbackSlot, NoJob
  <2>1. rollout.rollback \in DOMAIN jobs /\ jobs[rollout.rollback].release = "baseline"
    BY <1>0 DEF RollbackSlot
  <2>. QED
    BY <1>0, <2>1, JobBeforeAfter DEF Later
<1>2. CASE \E devices \in SUBSET Pool, running \in SUBSET Pool : RolledBack(devices, running)
  <2>1. PICK devices \in SUBSET Pool, running \in SUBSET Pool : RolledBack(devices, running)
    BY <1>2
  <2>2. /\ DOMAIN jobs' = DOMAIN jobs \cup {Len(jobs) + 1}
        /\ jobs'[Len(jobs) + 1].release = "baseline"
    BY <2>1, RolledBackJob
  <2>. QED
    BY <2>1, <2>2 DEF RolledBack, RollbackSlot
<1>. QED
  BY <1>1, <1>2 DEF TablesChange, Quiet, Started, Progressed

\* Whoever completes a phase, its gate is met; and it stays met.
LEMMA GateStep ==
  ASSUME IInv, TablesChange
  PROVE  CompletedPhasesMetGate'
<1>0. /\ Types /\ PhaseJobs /\ CompletedPhasesMetGate /\ JobsLater /\ Phases' = Phases
  BY TablesKeep DEF IInv, PhasesKeep, Phases
<1>1. ASSUME NEW i \in Phases, phase'[i].job = phase[i].job, phase[i].state # "pending",
             phase[i].state = "completed" \/ Met(jobs[phase[i].job].targets)
      PROVE  Met(jobs'[phase'[i].job].targets)
  <2>. DEFINE k == phase[i].job
  <2>1. Met(jobs[k].targets)
    BY <1>0, <1>1 DEF CompletedPhasesMetGate
  <2>2. k \in DOMAIN jobs
    BY <1>0, <1>1 DEF PhaseJobs, PhaseJob
  <2>3. Met(jobs'[k].targets)
    BY <1>0, <2>1, <2>2, JobBeforeAfter, MetStays
  <2>. QED
    BY <1>1, <2>3
<1>2. ASSUME NEW i \in Phases, phase'[i].state = "completed"
      PROVE  Met(jobs'[phase'[i].job].targets)
  <2>1. CASE PhasesMove
    <3>1. PhaseMoves(phase[i], phase'[i])
      BY <2>1 DEF PhasesMove
    <3>. QED
      BY <1>1, <1>2, <3>1 DEF PhaseMoves
  <2>2. CASE phase' = phase
    BY <1>1, <1>2, <2>2
  <2>3. CASE \E x \in Phases, running \in SUBSET Pool : Started(x, running)
    <3>1. PICK x \in Phases, running \in SUBSET Pool : Started(x, running)
      BY <2>3
    <3>2. /\ phase'[x].state = "active"
          /\ \A y \in Phases \ {x} : phase'[y] = phase[y]
      BY <3>1, StartedRow
    <3>3. phase'[i] = phase[i]
      BY <1>2, <3>2
    <3>. QED
      BY <1>1, <1>2, <3>3
  <2>. QED
    BY <2>1, <2>2, <2>3 DEF TablesChange, Quiet, Progressed, RolledBack
<1>3. ASSUME NEW i \in Phases, phase'[i].state = "completed"
      PROVE  Met(jobs[phase[i].job].targets)'
  BY <1>2, <1>3 DEF Met
<1>. QED
  BY <1>0, <1>3 DEF CompletedPhasesMetGate

\* Rollbacks go to devices that have confirmed.
LEMMA ConfirmedStep ==
  ASSUME IInv, TablesChange
  PROVE  RollbackOfConfirmed'
<1>0. Types /\ RollbackOfConfirmed /\ JobsLater
  BY TablesKeep DEF IInv
<1>1. RollbackOfConfirmed' <=>
        \A k \in DOMAIN jobs' : jobs'[k].release = "baseline" =>
          DOMAIN jobs'[k].targets \subseteq Confirmed(NewJobs)'
  BY DEF RollbackOfConfirmed, NewJobs
<1>2. ASSUME NEW k \in DOMAIN jobs, jobs'[k].release = "baseline"
      PROVE  DOMAIN jobs'[k].targets \subseteq Confirmed(NewJobs)'
  <2>1. Later(jobs[k], jobs'[k])
    BY <1>0, JobBeforeAfter
  <2>2. DOMAIN jobs[k].targets \subseteq Confirmed(NewJobs)
    BY <1>0, <1>2, <2>1 DEF RollbackOfConfirmed, NewJobs, Later
  <2>. QED
    BY <1>0, <2>1, <2>2, ConfirmedStays DEF Later
<1>3. CASE DOMAIN jobs' = DOMAIN jobs
  BY <1>1, <1>2, <1>3
<1>4. CASE \E i \in Phases, running \in SUBSET Pool : Started(i, running)
  <2>1. PICK i \in Phases, running \in SUBSET Pool : Started(i, running)
    BY <1>4
  <2>2. /\ DOMAIN jobs' = DOMAIN jobs \cup {Len(jobs) + 1}
        /\ jobs'[Len(jobs) + 1].release = "new"
    BY <2>1, StartedRow
  <2>. QED
    BY <1>1, <1>2, <2>2
<1>5. CASE \E devices \in SUBSET Pool, running \in SUBSET Pool : RolledBack(devices, running)
  <2>1. PICK devices \in SUBSET Pool, running \in SUBSET Pool : RolledBack(devices, running)
    BY <1>5
  <2>2. /\ DOMAIN jobs' = DOMAIN jobs \cup {Len(jobs) + 1}
        /\ DOMAIN jobs'[Len(jobs) + 1].targets = devices
    BY <2>1, RolledBackJob
  <2>3. devices \subseteq Confirmed(NewJobs)'
    BY <1>0, <2>1, ConfirmedStays DEF RolledBack
  <2>. QED
    BY <1>1, <1>2, <2>2, <2>3
<1>. QED
  BY <1>3, <1>4, <1>5 DEF TablesChange, Quiet, Progressed

\* Every rollback but the one in the slot has failed everywhere.
LEMMA OneLiveStep ==
  ASSUME IInv, TablesChange
  PROVE  OneLiveRollback'
<1>0. Types /\ OneLiveRollback /\ RollbackSlot /\ JobsLater
  BY TablesKeep DEF IInv
<1>1. OneLiveRollback' <=>
        \A k \in DOMAIN jobs' :
          jobs'[k].release = "baseline" /\ k # rollout'.rollback => AllTerminal(jobs'[k].targets)
  BY DEF OneLiveRollback, AllTerminal
<1>2. ASSUME NEW k \in DOMAIN jobs, jobs'[k].release = "baseline",
             k = rollout.rollback => AllTerminal(jobs[k].targets)
      PROVE  AllTerminal(jobs'[k].targets)
  <2>1. Later(jobs[k], jobs'[k])
    BY <1>0, JobBeforeAfter
  <2>2. AllTerminal(jobs[k].targets)
    BY <1>0, <1>2, <2>1 DEF OneLiveRollback, Later
  <2>. QED
    BY <2>1, <2>2, TerminalStays
<1>3. CASE DOMAIN jobs' = DOMAIN jobs /\ rollout'.rollback = rollout.rollback
  BY <1>1, <1>2, <1>3
<1>4. CASE \E i \in Phases, running \in SUBSET Pool : Started(i, running)
  <2>1. PICK i \in Phases, running \in SUBSET Pool : Started(i, running)
    BY <1>4
  <2>2. /\ DOMAIN jobs' = DOMAIN jobs \cup {Len(jobs) + 1}
        /\ jobs'[Len(jobs) + 1].release = "new"
    BY <2>1, StartedRow
  <2>3. rollout' = rollout
    BY <2>1 DEF Started
  <2>. QED
    BY <1>1, <1>2, <2>2, <2>3
<1>5. CASE \E devices \in SUBSET Pool, running \in SUBSET Pool : RolledBack(devices, running)
  <2>1. PICK devices \in SUBSET Pool, running \in SUBSET Pool : RolledBack(devices, running)
    BY <1>5
  <2>2. DOMAIN jobs' = DOMAIN jobs \cup {Len(jobs) + 1}
    BY <2>1, RolledBackJob
  <2>3. rollout'.rollback = Len(jobs) + 1
    BY <2>1 DEF RolledBack
  <2>4. \A k \in DOMAIN jobs : k = rollout.rollback => AllTerminal(jobs[k].targets)
    BY <1>0, <2>1, JobNumbers DEF RolledBack
  <2>. QED
    BY <1>1, <1>2, <2>2, <2>3, <2>4
<1>. QED
  BY <1>3, <1>4, <1>5 DEF TablesChange, Quiet, Progressed

-----------------------------------------------------------------------------
(* The invariant *)

\* Before the first step.
LEMMA InitInv == Init => IInv
<1>. SUFFICES ASSUME Init PROVE IInv
  OBVIOUS
<1>. USE DEF Init
<1>1. Blank \in Memory
  BY DEF Blank, Memory, NoJob
<1>2. Types
  <2>1. rollout \in [state : RolloutStates, manual : BOOLEAN, rollback : Nat]
    BY DEF RolloutStates, NoJob
  <2>2. sizes \in Seq(Nat \ {0}) /\ jobs \in Seq(Job) /\ DOMAIN sizes = {}
    OBVIOUS
  <2>3. phase \in [Phases -> PhaseRow]
    BY <2>2 DEF Phases
  <2>4. pc \in [Actors -> Steps] /\ mem \in [Actors -> Memory]
    BY <1>1 DEF Steps
  <2>. QED
    BY <2>1, <2>2, <2>3, <2>4, RolloutBounds DEF Types
<1>3. Planned
  BY DEF Planned, NoJob
<1>4. DOMAIN jobs = {} /\ Phases = {}
  BY DEF Phases
<1>5. PhaseJobs /\ UpgradesOfPhases /\ CompletedPhasesMetGate
  BY <1>4 DEF PhaseJobs, UpgradesOfPhases, CompletedPhasesMetGate
<1>6. RollbackSlot /\ RollbackOfConfirmed /\ OneLiveRollback
  BY <1>4 DEF RollbackSlot, RollbackOfConfirmed, OneLiveRollback, NoJob
<1>7. Knowledge
  BY DEF Knowledge, Knows
<1>. QED
  BY <1>2, <1>3, <1>5, <1>6, <1>7 DEF IInv

\* The transaction that creates a rollout.
LEMMA CreateInv ==
  ASSUME IInv, NEW c \in Plans, NEW manual \in Manual, NEW running \in SUBSET Pool,
         CreateOtaRollout(c, manual, running)
  PROVE  IInv'
<1>. USE DEF IInv
<1>. DEFINE j == NewJob("new", Slice(c, 1), running)
            row(i) == IF i = 1 THEN [state |-> "active", job |-> 1]
                               ELSE [state |-> "pending", job |-> NoJob]
<1>1. /\ rollout.state = "none" /\ sizes' = c /\ jobs' = <<j>>
      /\ rollout' = [state |-> "running", manual |-> manual, rollback |-> NoJob]
      /\ phase' = [i \in DOMAIN c |-> row(i)]
      /\ UNCHANGED <<pc, mem, failures>>
  BY DEF CreateOtaRollout
<1>2. /\ c \in Seq(Nat \ {0}) /\ c # <<>> /\ Phases' = DOMAIN c
      /\ 1 \in DOMAIN c
  BY <1>1, PlansAddUp DEF Phases
<1>3. j \in Job /\ j.release = "new" /\ DOMAIN j.targets = Slice(c, 1)
  <2>1. Slice(c, 1) \in SUBSET Pool
    BY DEF Slice
  <2>. QED
    BY <2>1, NewJobIsJob
<1>4. DOMAIN jobs' = {1} /\ jobs'[1] = j
  BY <1>1
<1>. HIDE DEF j
<1>5. \A i \in DOMAIN c : /\ phase'[i] = row(i) /\ row(i) \in PhaseRow
                          /\ row(i).state # "completed"
                          /\ row(i).job = IF i = 1 THEN 1 ELSE NoJob
                          /\ row(i).state = IF i = 1 THEN "active" ELSE "pending"
  BY <1>1 DEF PhaseRow, PhaseStates, NoJob
<1>6. Types'
  <2>1. rollout' \in [state : RolloutStates, manual : BOOLEAN, rollback : Nat]
    BY <1>1, RolloutBounds DEF RolloutStates, NoJob
  <2>2. jobs' \in Seq(Job)
    BY <1>1, <1>3
  <2>3. phase' \in [DOMAIN c -> PhaseRow]
    BY <1>1, <1>5
  <2>4. pc' \in [Actors -> Steps] /\ mem' \in [Actors -> Memory] /\ failures' \in 0..MaxFailures
    BY <1>1 DEF Types
  <2>. QED
    BY <1>1, <1>2, <2>1, <2>2, <2>3, <2>4 DEF Types
<1>7. Planned'
  BY <1>1 DEF Planned
<1>8. PhaseJobs'
  <2>1. ASSUME NEW i \in DOMAIN c PROVE PhaseJob(phase[i], i)'
    <3>1. Slice(sizes, i)' = Slice(c, i)
      BY <1>1 DEF Slice
    <3>2. CASE i = 1
      BY <1>3, <1>4, <1>5, <3>1, <3>2 DEF PhaseJob, NoJob
    <3>3. CASE i # 1
      BY <1>5, <3>3 DEF PhaseJob, NoJob
    <3>. QED
      BY <3>2, <3>3
  <2>. QED
    BY <1>2, <2>1 DEF PhaseJobs
<1>9. UpgradesOfPhases'
  BY <1>2, <1>4, <1>5 DEF UpgradesOfPhases
<1>10. RollbackSlot'
  BY <1>1 DEF RollbackSlot, NoJob
<1>11. CompletedPhasesMetGate'
  BY <1>2, <1>5 DEF CompletedPhasesMetGate
<1>12. RollbackOfConfirmed' /\ OneLiveRollback'
  BY <1>3, <1>4 DEF RollbackOfConfirmed, OneLiveRollback
<1>13. Knowledge'
  <2>1. \A a \in Actors : pc'[a] \in {"idle", "done"}
    BY <1>1, <1>2 DEF Planned
  <2>. QED
    BY <2>1 DEF Knowledge, Knows
<1>. QED
  BY <1>6, <1>7, <1>8, <1>9, <1>10, <1>11, <1>12, <1>13

\* What everybody knows stays true, and the one who moves knows what it learnt.
LEMMA KnowledgeStep ==
  ASSUME IInv, TablesChange, NEW a \in Actors, ActorMoves(a)
  PROVE  Knowledge' /\ pc' \in [Actors -> Steps] /\ mem' \in [Actors -> Memory]
<1>0. Types /\ PhaseJobs /\ Knowledge /\ JobsLater /\ PhasesKeep
  BY TablesKeep DEF IInv
<1>1. PICK s \in Steps, m \in Memory : Moves(a, s, m)
  BY DEF ActorMoves
<1>2. /\ pc \in [Actors -> Steps] /\ mem \in [Actors -> Memory]
      /\ pc' = [pc EXCEPT ![a] = s] /\ mem' = [mem EXCEPT ![a] = m]
  BY <1>0, <1>1 DEF Types, Moves
<1>3. ASSUME NEW b \in Actors PROVE Knows(pc[b], mem[b])'
  <2>1. PICK t, n : t = pc'[b] /\ n = mem'[b]
    OBVIOUS
  <2>2. CASE b = a
    <3>1. t = s /\ n = m
      BY <1>2, <2>1, <2>2
    <3>2. Knows(t, n)
      BY <1>1, <3>1 DEF Moves
    <3>3. Knows(t, n)'
      BY <1>0, <3>2, KnowsStays
    <3>. QED
      BY <2>1, <3>3 DEF Knows
  <2>3. CASE b # a
    <3>1. t = pc[b] /\ n = mem[b]
      BY <1>2, <2>1, <2>3
    <3>2. Knows(t, n)
      BY <1>0, <3>1 DEF Knowledge
    <3>3. Knows(t, n)'
      BY <1>0, <3>2, KnowsStays
    <3>. QED
      BY <2>1, <3>3 DEF Knows
  <2>. QED
    BY <2>2, <2>3
<1>4. Knowledge'
  BY <1>3 DEF Knowledge
<1>. QED
  BY <1>2, <1>4

\* A step that nobody's memory is involved in.
LEMMA KnowledgeKept ==
  ASSUME IInv, TablesChange, UNCHANGED <<pc, mem>>
  PROVE  Knowledge' /\ pc' \in [Actors -> Steps] /\ mem' \in [Actors -> Memory]
<1>0. Types /\ PhaseJobs /\ Knowledge /\ JobsLater /\ PhasesKeep
  BY TablesKeep DEF IInv
<1>1. ASSUME NEW b \in Actors PROVE Knows(pc[b], mem[b])'
  <2>1. PICK t, n : t = pc[b] /\ n = mem[b]
    OBVIOUS
  <2>2. Knows(t, n)'
    BY <1>0, <2>1, KnowsStays DEF Knowledge
  <2>. QED
    BY <2>1, <2>2 DEF Knows
<1>. QED
  BY <1>0, <1>1 DEF Knowledge, Types

\* A change of the tables keeps the invariant.
LEMMA ChangeInv ==
  ASSUME IInv, TablesChange, RolloutMoves, failures' \in 0..MaxFailures,
         Knowledge', pc' \in [Actors -> Steps], mem' \in [Actors -> Memory]
  PROVE  IInv'
<1>1. JobsLater /\ PhasesKeep /\ phase' \in [Phases -> PhaseRow]
  BY TablesKeep
<1>2. Types'
  BY <1>1 DEF IInv, Types, RolloutMoves, RolloutRow, JobsLater, PhasesKeep, Phases
<1>3. Planned'
  BY <1>1 DEF IInv, Planned, RolloutMoves, PhasesKeep
<1>. QED
  BY <1>2, <1>3, PhaseJobsStep, UpgradesStep, SlotStep, GateStep, ConfirmedStep, OneLiveStep
  DEF IInv

\* Whoever acts, the tables change in one of the ways above.
LEMMA StepChange ==
  ASSUME IInv, [Next]_vars
  PROVE  \/ \E c \in Plans, manual \in Manual, running \in SUBSET Pool :
              CreateOtaRollout(c, manual, running)
         \/ UNCHANGED vars
         \/ TablesChange /\ RolloutMoves
<1>1. CASE \E p \in Pollers : LoopStep(p)
  BY <1>1, LoopChange
<1>2. CASE \E q \in Requests : RequestStep(q)
  BY <1>2, RequestChange
<1>3. CASE \E k \in DOMAIN jobs : DeviceStep(k)
  BY <1>3, DeviceChange
<1>4. CASE \E a \in Actors : Fails(a)
  <2>1. PICK a \in Actors : Fails(a)
    BY <1>4
  <2>2. rollout.state # "none"
    BY <2>1 DEF IInv, Planned, Fails
  <2>3. Types /\ UNCHANGED <<rollout, sizes, phase, jobs>>
    BY <2>1 DEF Fails, tables, IInv
  <2>. QED
    BY <2>2, <2>3, UnchangedMove, UnchangedRollout DEF Quiet, TablesChange
<1>. QED
  BY <1>1, <1>2, <1>3, <1>4 DEF Next

\* Every step keeps the invariant.
LEMMA NextInv == IInv /\ [Next]_vars => IInv'
<1>. SUFFICES ASSUME IInv, [Next]_vars PROVE IInv'
  OBVIOUS
<1>1. CASE \E c \in Plans, manual \in Manual, running \in SUBSET Pool :
             CreateOtaRollout(c, manual, running)
  BY <1>1, CreateInv
<1>2. CASE \E p \in Pollers : LoopStep(p)
  <2>1. PICK p \in Pollers : LoopStep(p)
    BY <1>2
  <2>2. p \in Actors
    BY DEF Actors
  <2>3. ActorMoves(p) /\ TablesChange /\ RolloutMoves
    BY <2>1, LoopMoves, LoopChange
  <2>4. failures' = failures
    BY <2>1 DEF LoopStep, AdvanceRollouts, AdvanceOneRollout, JudgePhase, FinishPhase,
       ActivatePendingPhase, CompleteRollout, TimeoutPausesRollout, JudgeInstalledTargets
  <2>5. failures' \in 0..MaxFailures
    BY <2>4 DEF IInv, Types
  <2>. QED
    BY <2>2, <2>3, <2>5, KnowledgeStep, ChangeInv
<1>3. CASE \E q \in Requests : RequestStep(q)
  <2>1. PICK q \in Requests : RequestStep(q)
    BY <1>3
  <2>2. q \in Actors
    BY DEF Actors
  <2>3. ActorMoves(q) /\ TablesChange /\ RolloutMoves
    BY <2>1, RequestMoves, RequestChange
  <2>4. failures' = failures
    BY <2>1 DEF RequestStep, PauseRollout, ResumeRollout, ResumeSetsRunning,
       ResumeActivatesPaused, ResumeLooksForActive, ResumePicksNext, ActivatePendingPhase,
       AbortRollout, AbortPausesPhases, RollbackRollout, RollbackReadsExisting,
       RollbackJudgesExisting, RollbackReadsConfirmed, RollbackClaims
  <2>5. failures' \in 0..MaxFailures
    BY <2>4 DEF IInv, Types
  <2>. QED
    BY <2>2, <2>3, <2>5, KnowledgeStep, ChangeInv
<1>4. CASE \E k \in DOMAIN jobs : DeviceStep(k)
  <2>1. PICK k \in DOMAIN jobs : DeviceStep(k)
    BY <1>4
  <2>2. TablesChange /\ RolloutMoves
    BY <2>1, DeviceChange
  <2>3. UNCHANGED <<pc, mem>> /\ failures' = failures
    BY <2>1 DEF DeviceStep, TargetProgress
  <2>4. failures' \in 0..MaxFailures
    BY <2>3 DEF IInv, Types
  <2>. QED
    BY <2>2, <2>3, <2>4, KnowledgeKept, ChangeInv
<1>5. CASE \E a \in Actors : Fails(a)
  <2>1. PICK a \in Actors : Fails(a)
    BY <1>5
  <2>2. rollout.state # "none"
    BY <2>1 DEF IInv, Planned, Fails
  <2>3. Types /\ UNCHANGED <<rollout, sizes, phase, jobs>>
    BY <2>1 DEF Fails, tables, IInv
  <2>4. TablesChange /\ RolloutMoves
    BY <2>2, <2>3, UnchangedMove, UnchangedRollout DEF Quiet, TablesChange
  <2>5. failures' \in 0..MaxFailures
    BY <2>1, <2>3, RolloutBounds DEF Fails, Types
  <2>6. ActorMoves(a)
    BY <2>1, LeaveMoves DEF Fails
  <2>. QED
    BY <2>4, <2>5, <2>6, KnowledgeStep, ChangeInv
<1>6. CASE UNCHANGED vars
  <2>1. UNCHANGED <<rollout, sizes, phase, jobs, pc, mem, failures>>
    BY <1>6 DEF vars, tables
  <2>2. Types' /\ Planned'
    BY <2>1 DEF IInv, Types, Planned, Phases
  <2>3. PhaseJobs' /\ UpgradesOfPhases' /\ RollbackSlot'
    BY <2>1 DEF IInv, PhaseJobs, PhaseJob, UpgradesOfPhases, RollbackSlot, Phases, Slice
  <2>4. CompletedPhasesMetGate'
    BY <2>1 DEF IInv, CompletedPhasesMetGate, Phases, Met
  <2>5. RollbackOfConfirmed'
    BY <2>1 DEF IInv, RollbackOfConfirmed, Confirmed
  <2>6. OneLiveRollback'
    BY <2>1 DEF IInv, OneLiveRollback, AllTerminal
  <2>7. Knowledge'
    <3>1. PhasesMove /\ jobs' = jobs /\ rollout' = rollout
      BY <2>1, UnchangedMove DEF IInv
    <3>. QED
      BY <2>1, <3>1, KnowledgeKept DEF Quiet, TablesChange
  <2>. QED
    BY <2>2, <2>3, <2>4, <2>5, <2>6, <2>7 DEF IInv
<1>. QED
  BY <1>1, <1>2, <1>3, <1>4, <1>5, <1>6 DEF Next

\* The inductive invariant of the rollout.
THEOREM RolloutInvariant == Spec => []IInv
  BY InitInv, NextInv, PTL DEF Spec

-----------------------------------------------------------------------------
(* What holds of every rollout *)

\* The types of the tables, of what is remembered and of the bound.
THEOREM RolloutTypes == Spec => []TypeOK
<1>1. ASSUME IInv PROVE TypeOK
  <2>. USE <1>1 DEF IInv
  <2>1. /\ Len(jobs) \in Nat /\ DOMAIN jobs = 1..Len(jobs)
        /\ \A k \in DOMAIN jobs : jobs[k] \in Job
    BY JobNumbers, ElementOfSeq DEF Types
  <2>2. rollout.rollback \in 0..Len(jobs)
    BY <2>1 DEF RollbackSlot, NoJob
  <2>3. rollout \in [state : RolloutStates, manual : BOOLEAN, rollback : 0..Len(jobs)]
    BY <2>2 DEF Types
  <2>4. \A i \in Phases : phase[i] \in [state : PhaseStates, job : 0..Len(jobs)]
    <3>. TAKE i \in Phases
    <3>1. phase[i] \in PhaseRow
      BY DEF Types
    <3>2. phase[i].job \in 0..Len(jobs)
      BY <2>1 DEF PhaseJobs, PhaseJob, NoJob
    <3>. QED
      BY <3>1, <3>2 DEF PhaseRow
  <2>5. phase \in [Phases -> [state : PhaseStates, job : 0..Len(jobs)]]
    BY <2>4 DEF Types
  <2>6. \A k \in DOMAIN jobs :
          /\ jobs[k].release \in {"new", "baseline"}
          /\ DOMAIN jobs[k].targets \subseteq Pool
          /\ \A d \in DOMAIN jobs[k].targets : jobs[k].targets[d] \in TargetStates
    BY <2>1, TargetsOfJob
  <2>. QED
    BY <2>3, <2>5, <2>6 DEF Types, TypeOK, Steps
<1>. QED
  BY <1>1, RolloutInvariant, PTL

\* Two phases never share a job: their jobs are the upgrades of two slices, and
\* the slices of a plan are disjoint and not empty.
LEMMA PhasesHaveOwnJobs ==
  ASSUME IInv, NEW i \in Phases, NEW j \in Phases, i # j, phase[i].job # NoJob
  PROVE  phase[j].job # phase[i].job
<1>. SUFFICES ASSUME phase[j].job = phase[i].job PROVE FALSE
  OBVIOUS
<1>1. Slice(sizes, i) = Slice(sizes, j)
  BY DEF IInv, PhaseJobs, PhaseJob
<1>2. sizes \in Plans
  BY DEF IInv, Planned, Phases
<1>3. Phases = 1..Len(sizes)
  BY PhaseIndices DEF IInv
<1>4. PICK c \in Plans : c = sizes
  BY <1>2
<1>5. /\ Slice(c, i) # {} /\ Slice(c, i) \cap Slice(c, j) = {}
  BY <1>3, <1>4, PlansPartitionPool
<1>. QED
  BY <1>1, <1>4, <1>5

\* A phase that has started has a job, and no other phase has the same.
THEOREM PhasesHaveJobs == Spec => []StartedPhasesHaveJobs
<1>1. ASSUME IInv PROVE StartedPhasesHaveJobs
  <2>. SUFFICES ASSUME NEW i \in Phases, phase[i].state # "pending"
                PROVE  /\ phase[i].job # NoJob
                       /\ \A j \in Phases \ {i} : phase[j].job # phase[i].job
    BY DEF StartedPhasesHaveJobs
  <2>1. phase[i].job # NoJob
    BY <1>1 DEF IInv, PhaseJobs, PhaseJob
  <2>. QED
    BY <1>1, <2>1, PhasesHaveOwnJobs
<1>. QED
  BY <1>1, RolloutInvariant, PTL

\* A phase is completed only when its gate is met, however old the reading of
\* the loop that completes it.
THEOREM GatesAreMet == Spec => []CompletedPhasesMetGate
<1>1. IInv => CompletedPhasesMetGate
  BY DEF IInv
<1>. QED
  BY <1>1, RolloutInvariant, PTL

\* No device is upgraded twice, whatever loops and resumes race for a phase.
THEOREM NoSecondUpgrade == Spec => []OneUpgradePerDevice
<1>1. ASSUME IInv PROVE OneUpgradePerDevice
  <2>. SUFFICES ASSUME NEW d \in Pool PROVE Cardinality(Upgrades(d)) <= 1
    BY DEF OneUpgradePerDevice
  <2>1. ASSUME NEW k \in Upgrades(d), NEW l \in Upgrades(d) PROVE k = l
    <3>1. PICK i \in Phases : phase[i].job = k
      BY <1>1 DEF Upgrades, IInv, UpgradesOfPhases
    <3>2. PICK j \in Phases : phase[j].job = l
      BY <1>1 DEF Upgrades, IInv, UpgradesOfPhases
    <3>3. k # NoJob /\ l # NoJob
      BY <1>1, JobNumbers DEF Upgrades, IInv
    <3>4. d \in Slice(sizes, i) /\ d \in Slice(sizes, j)
      BY <1>1, <3>1, <3>2, <3>3 DEF Upgrades, IInv, PhaseJobs, PhaseJob
    <3>5. Phases = 1..Len(sizes)
      BY <1>1, PhaseIndices DEF IInv
    <3>6. PICK c \in Plans : c = sizes
      BY <1>1, <3>1 DEF IInv, Planned, Phases
    <3>7. i = j
      BY <3>4, <3>5, <3>6, PlansPartitionPool
    <3>. QED
      BY <3>1, <3>2, <3>7
  <2>2. CASE Upgrades(d) = {}
    BY <2>2, FS_EmptySet
  <2>3. CASE Upgrades(d) # {}
    <3>1. PICK k \in Upgrades(d) : Upgrades(d) = {k}
      BY <2>1, <2>3
    <3>2. Cardinality({k}) = 1
      BY FS_Singleton
    <3>. QED
      BY <3>1, <3>2
  <2>. QED
    BY <2>2, <2>3
<1>. QED
  BY <1>1, RolloutInvariant, PTL

\* A rollback goes to devices that have confirmed the upgrade, however the
\* device list it was given has aged.
THEOREM RollbacksAreOfConfirmed == Spec => []RollbackOfConfirmed
<1>1. IInv => RollbackOfConfirmed
  BY DEF IInv
<1>. QED
  BY <1>1, RolloutInvariant, PTL

\* Of the rollbacks ever created at most the one in the slot can still reach a
\* device, however many requests race.
THEOREM AtMostOneLiveRollback == Spec => []OneLiveRollback
<1>1. IInv => OneLiveRollback
  BY DEF IInv
<1>. QED
  BY <1>1, RolloutInvariant, PTL

\* What is settled stays settled: completed phases, the jobs of phases, aborted
\* and completed rollouts.
THEOREM SettledStaysSettled == Spec => Irreversible
<1>. DEFINE A == /\ \A i \in Phases :
                      /\ phase[i].state = "completed" => phase'[i].state = "completed"
                      /\ phase[i].job # NoJob => phase'[i].job = phase[i].job
                 /\ rollout.state = "aborted" => rollout'.state = "aborted"
                 /\ rollout.state = "completed" =>
                      \/ rollout'.state = "completed"
                      \/ rollout'.state = "aborted" /\ rollout'.rollback # rollout.rollback
<1>1. ASSUME IInv, [Next]_vars PROVE [A]_<<rollout, phase>>
  <2>1. CASE \E c \in Plans, manual \in Manual, running \in SUBSET Pool :
               CreateOtaRollout(c, manual, running)
    <3>1. rollout.state = "none"
      BY <2>1 DEF CreateOtaRollout
    <3>2. Phases = {}
      BY <1>1, <3>1 DEF IInv, Planned, Phases
    <3>. QED
      BY <3>1, <3>2
  <2>2. CASE UNCHANGED vars
    BY <2>2 DEF vars, tables
  <2>3. CASE TablesChange /\ RolloutMoves
    <3>1. PhasesKeep
      BY <1>1, <2>3, TablesKeep
    <3>2. ASSUME NEW i \in Phases, phase[i].state = "completed"
          PROVE  phase'[i].state = "completed"
      <4>1. CASE PhasesMove \/ phase' = phase
        BY <3>2, <4>1 DEF PhasesMove, PhaseMoves
      <4>2. CASE \E x \in Phases, running \in SUBSET Pool : Started(x, running)
        <5>1. PICK x \in Phases, running \in SUBSET Pool : Started(x, running)
          BY <4>2
        <5>2. x # i /\ \A y \in Phases \ {x} : phase'[y] = phase[y]
          BY <1>1, <3>2, <5>1, StartedRow DEF Started
        <5>. QED
          BY <3>2, <5>2
      <4>. QED
        BY <2>3, <4>1, <4>2 DEF TablesChange, Quiet, Progressed, RolledBack
    <3>. QED
      BY <2>3, <3>1, <3>2 DEF RolloutMoves, PhasesKeep
  <2>. QED
    BY <1>1, <2>1, <2>2, <2>3, StepChange
<1>2. IInv /\ [Next]_vars => [A]_<<rollout, phase>>
  BY <1>1
<1>. QED
  BY <1>2, RolloutInvariant, PTL DEF Spec, Irreversible

-----------------------------------------------------------------------------
(* The loops alone: no request, and no phase runs out of time *)

Undisturbed == Requests = {} /\ TimeoutsHappen = FALSE

AllCompleted == \A j \in Phases : phase[j].state = "completed"

\* What was read of the phases is a state they have been in, and what was
\* completed then is completed now.
Reading(ps) ==
  /\ \A i \in Phases : ps[i].state \in {"pending", "active", "completed"}
  /\ \A i, j \in Phases : j < i /\ ps[i].state # "pending" => ps[j].state = "completed"
  /\ \A i \in Phases : ps[i].state = "completed" => phase[i].state = "completed"

\* What a loop at step s with memory m goes by.
GoesBy(s, m) ==
  /\ s # "timeout"
  /\ s \in {"judge", "finish", "stall"} =>
       Reading(m.phases) /\ m.phases[m.index].state = "active"
  /\ s = "activate" => \A j \in Phases : j < m.index => phase[j].state = "completed"
  /\ s = "complete" => AllCompleted

LInv ==
  /\ \A i \in Phases : phase[i].state # "paused"
  /\ GateHolds
  /\ \A a \in Actors : GoesBy(pc[a], mem[a])
  /\ rollout.state = "completed" => AllCompleted

\* What the loops do to the phases, one at a time.
PhaseEnds(i) == phase[i].state = "active" /\ phase'[i].state = "completed"

PhaseStarts(i) ==
  /\ phase[i].state = "pending" /\ phase'[i].state = "active"
  /\ \A j \in Phases : j < i => phase[j].state = "completed"

OnePhase ==
  /\ sizes' = sizes
  /\ \/ phase' = phase
     \/ \E i \in Phases : /\ \A x \in Phases \ {i} : phase'[x] = phase[x]
                          /\ PhaseEnds(i) \/ PhaseStarts(i)

Learns(a) ==
  \E s, m : /\ pc' = [pc EXCEPT ![a] = s]
            /\ mem' = [mem EXCEPT ![a] = m]
            /\ GoesBy(s, m)'

\* Whoever leaves goes by nothing.
LEMMA LeaveLearns ==
  ASSUME NEW a, Leave(a)
  PROVE  Learns(a)
<1>. DEFINE s == IF a \in Pollers THEN "idle" ELSE "done"
<1>1. s \in {"idle", "done"}
  OBVIOUS
<1>2. GoesBy(s, Blank)'
  BY <1>1 DEF GoesBy
<1>. QED
  BY <1>2 DEF Leave, Goto, Learns

\* Staying with the same memory.
LEMMA StaysLearns ==
  ASSUME Types, NEW a \in Actors, NEW s, Stays(a, s), GoesBy(s, mem[a])'
  PROVE  Learns(a)
<1>1. mem' = [mem EXCEPT ![a] = mem[a]]
  BY DEF Types, Stays
<1>2. PICK m : m = mem[a]
  OBVIOUS
<1>3. mem' = mem
  BY DEF Stays
<1>4. GoesBy(s, m)'
  BY <1>2, <1>3 DEF GoesBy
<1>. QED
  BY <1>1, <1>2, <1>4 DEF Stays, Goto, Learns

\* What a loop does that changes no phase, seen from what it goes by.
LEMMA SamePhases ==
  ASSUME UNCHANGED <<sizes, phase>>, NEW s, NEW m, GoesBy(s, m)
  PROVE  GoesBy(s, m)'
  BY DEF GoesBy, Reading, AllCompleted, Phases

\* The reading of the phases.
LEMMA ReadingPhases ==
  ASSUME IInv, LInv, NEW p \in Pollers, AdvanceOneRollout(p)
  PROVE  Learns(p) /\ OnePhase
<1>. DEFINE M(i) == [Blank EXCEPT !.phases = phase, !.index = i]
<1>0. /\ Types /\ UNCHANGED <<sizes, phase>> /\ DOMAIN phase = Phases
      /\ Phases \in SUBSET Nat
  BY PhaseIndices DEF IInv, AdvanceOneRollout, tables
<1>1. \A i : M(i).phases = phase /\ M(i).index = i
  BY DEF Blank
<1>2. \A i \in Phases : phase[i].state \in {"pending", "active", "completed"}
  BY <1>0 DEF LInv, Types, PhaseRow, PhaseStates
<1>3. Reading(phase)
  BY <1>2 DEF Reading, LInv, GateHolds
<1>4. CASE /\ InState(phase, "active") # {} /\ Goto(p, "judge")
           /\ mem' = [mem EXCEPT ![p] = M(Min(InState(phase, "active")))]
  <2>1. PICK i : i = Min(InState(phase, "active"))
    OBVIOUS
  <2>2. phase[i].state = "active"
    BY <1>0, <1>4, <2>1, FirstIsPhase
  <2>3. PICK m : m = M(i)
    OBVIOUS
  <2>4. m.phases = phase /\ m.index = i
    BY <1>1, <2>3
  <2>5. GoesBy("judge", m)
    BY <1>3, <2>2, <2>4 DEF GoesBy
  <2>6. GoesBy("judge", m)'
    BY <1>0, <2>5, SamePhases
  <2>. QED
    BY <1>0, <1>4, <2>1, <2>3, <2>6 DEF Learns, Goto, OnePhase
<1>5. CASE /\ InState(phase, "active") = {} /\ InState(phase, "pending") # {}
           /\ Goto(p, "activate")
           /\ mem' = [mem EXCEPT ![p] = M(Min(InState(phase, "pending")))]
  <2>1. PICK i : i = Min(InState(phase, "pending"))
    OBVIOUS
  <2>2. i \in Phases /\ \A j \in InState(phase, "pending") : i <= j
    BY <1>0, <1>5, <2>1, FirstIsPhase
  <2>3. PICK m : m = M(i)
    OBVIOUS
  <2>4. m.index = i
    BY <1>1, <2>3
  <2>5. ASSUME NEW j \in Phases, j < i PROVE phase[j].state = "completed"
    <3>1. j \in Nat /\ i \in Nat /\ ~(i <= j)
      BY <1>0, <2>2, <2>5
    <3>2. phase[j].state # "pending" /\ phase[j].state # "active"
      BY <1>0, <1>5, <2>2, <3>1 DEF InState
    <3>. QED
      BY <1>2, <3>2
  <2>6. GoesBy("activate", m)
    BY <2>4, <2>5 DEF GoesBy
  <2>7. GoesBy("activate", m)'
    BY <1>0, <2>6, SamePhases
  <2>. QED
    BY <1>0, <1>5, <2>1, <2>3, <2>7 DEF Learns, Goto, OnePhase
<1>6. CASE /\ InState(phase, "completed") = Phases /\ Goto(p, "complete")
           /\ mem' = [mem EXCEPT ![p] = M(0)]
  <2>1. AllCompleted
    BY <1>0, <1>6 DEF AllCompleted, InState
  <2>2. PICK m : m = M(0)
    OBVIOUS
  <2>3. GoesBy("complete", m)
    BY <2>1 DEF GoesBy
  <2>4. GoesBy("complete", m)'
    BY <1>0, <2>3, SamePhases
  <2>. QED
    BY <1>0, <1>6, <2>2, <2>4 DEF Learns, Goto, OnePhase
<1>7. CASE Leave(p)
  BY <1>0, <1>7, LeaveLearns DEF OnePhase
<1>. QED
  BY <1>4, <1>5, <1>6, <1>7 DEF AdvanceOneRollout

\* Completing a phase and choosing the next, from a reading that may be old.
LEMMA FinishingPhase ==
  ASSUME IInv, LInv, NEW p \in Pollers, FinishPhase(p)
  PROVE  Learns(p) /\ OnePhase
<1>. DEFINE i == mem[p].index
            ps == mem[p].phases
            pending == InState(ps, "pending")
            next == Min(pending)
<1>0. /\ p \in Actors /\ Types /\ sizes' = sizes /\ pc[p] = "finish"
      /\ Phases \in SUBSET Nat
  BY PhaseIndices DEF IInv, FinishPhase, Actors
<1>1. i \in Phases /\ DOMAIN ps = Phases
  BY <1>0 DEF IInv, Knowledge, Knows
<1>2. Reading(ps) /\ ps[i].state = "active"
  BY <1>0 DEF LInv, GoesBy
<1>3. CASE phase[i].state # "active"
  <2>1. Leave(p) /\ phase' = phase
    BY <1>3 DEF FinishPhase
  <2>. QED
    BY <1>0, <2>1, LeaveLearns DEF OnePhase
<1>4. CASE phase[i].state = "active"
  <2>. DEFINE n == [phase[i] EXCEPT !.state = "completed"]
  <2>1. phase[i] \in PhaseRow /\ phase \in [Phases -> PhaseRow]
    BY <1>0, <1>1 DEF Types
  <2>2. phase' = [phase EXCEPT ![i] = n]
    BY <1>4, <2>1 DEF FinishPhase
  <2>3. n.state = "completed"
    BY <2>1 DEF PhaseRow
  <2>4. /\ \/ /\ pending # {} /\ Goto(p, "activate")
              /\ mem' = [mem EXCEPT ![p].index = next]
           \/ pending = {} /\ Stays(p, "complete")
           \/ Leave(p)
    BY <1>4 DEF FinishPhase
  <2>. HIDE DEF n
  <2>5. phase'[i].state = "completed" /\ \A x \in Phases \ {i} : phase'[x] = phase[x]
    BY <1>1, <2>1, <2>2, <2>3
  <2>6. OnePhase
    BY <1>0, <1>1, <1>4, <2>5 DEF OnePhase, PhaseEnds
  <2>7. ASSUME NEW j \in Phases, ps[j].state # "pending"
        PROVE  phase'[j].state = "completed"
    <3>1. CASE j = i
      BY <2>5, <3>1
    <3>2. CASE j # i
      <4>1. j \in Nat /\ i \in Nat
        BY <1>0, <1>1
      <4>2. j < i => ps[j].state = "completed"
        BY <1>1, <1>2 DEF Reading
      <4>3. ~(i < j)
        BY <1>1, <1>2, <2>7 DEF Reading
      <4>4. ps[j].state = "completed"
        BY <3>2, <4>1, <4>2, <4>3
      <4>5. phase[j].state = "completed"
        BY <1>2, <4>4 DEF Reading
      <4>. QED
        BY <2>5, <3>2, <4>5
    <3>. QED
      BY <3>1, <3>2
  <2>8. CASE pending # {} /\ Goto(p, "activate") /\ mem' = [mem EXCEPT ![p].index = next]
    <3>1. PICK m : m = [mem[p] EXCEPT !.index = next]
      OBVIOUS
    <3>2. mem[p] \in Memory /\ mem \in [Actors -> Memory]
      BY <1>0 DEF Types
    <3>3. m.index = next /\ mem' = [mem EXCEPT ![p] = m]
      BY <2>8, <3>1, <3>2 DEF Memory
    <3>4. next \in Nat /\ \A x \in pending : next <= x
      BY <1>0, <1>1, <2>8, FirstIsPhase
    <3>5. ASSUME NEW j \in Phases, j < next PROVE phase'[j].state = "completed"
      <4>1. ~(next <= j)
        BY <1>0, <3>4, <3>5
      <4>2. ps[j].state # "pending"
        BY <1>1, <3>4, <4>1 DEF InState
      <4>. QED
        BY <2>7, <4>2
    <3>6. GoesBy("activate", m)'
      BY <1>0, <3>3, <3>5 DEF GoesBy, Phases
    <3>. QED
      BY <2>6, <2>8, <3>3, <3>6 DEF Goto, Learns
  <2>9. CASE pending = {} /\ Stays(p, "complete")
    <3>1. \A j \in Phases : ps[j].state # "pending"
      BY <1>1, <2>9 DEF InState
    <3>2. AllCompleted'
      BY <1>0, <2>7, <3>1 DEF AllCompleted, Phases
    <3>3. GoesBy("complete", mem[p])'
      BY <3>2 DEF GoesBy
    <3>. QED
      BY <1>0, <2>6, <2>9, <3>3, StaysLearns
  <2>10. CASE Leave(p)
    BY <2>6, <2>10, LeaveLearns
  <2>. QED
    BY <2>4, <2>8, <2>9, <2>10
<1>. QED
  BY <1>3, <1>4

\* Starting a phase.
LEMMA StartingPhase ==
  ASSUME IInv, LInv, NEW p \in Pollers, NEW running \in SUBSET Pool,
         ActivatePendingPhase(p, running)
  PROVE  Learns(p) /\ OnePhase
<1>. DEFINE i == mem[p].index
<1>1. /\ p \in Actors /\ pc[p] = "activate" /\ Leave(p) /\ UNCHANGED <<rollout, sizes>>
  BY DEF ActivatePendingPhase, Actors
<1>2. i \in Phases /\ \A j \in Phases : j < i => phase[j].state = "completed"
  BY <1>1 DEF IInv, Knowledge, Knows, LInv, GoesBy
<1>3. CASE phase[i].state = "pending"
  <2>1. Started(i, running)
    BY <1>1, <1>3 DEF ActivatePendingPhase, Started
  <2>2. phase'[i].state = "active" /\ \A x \in Phases \ {i} : phase'[x] = phase[x]
    BY <1>2, <2>1, StartedRow
  <2>3. PhaseStarts(i)
    BY <1>2, <1>3, <2>2 DEF PhaseStarts
  <2>. QED
    BY <1>1, <1>2, <2>2, <2>3, LeaveLearns DEF OnePhase
<1>4. CASE phase[i].state # "pending"
  BY <1>1, <1>4, LeaveLearns DEF ActivatePendingPhase, OnePhase
<1>. QED
  BY <1>3, <1>4

\* A step of a loop that nobody disturbs.
LEMMA LoopLearns ==
  ASSUME IInv, LInv, Undisturbed, NEW p \in Pollers, LoopStep(p)
  PROVE  /\ Learns(p) /\ OnePhase
         /\ rollout'.state = "completed" => rollout.state = "completed" \/ AllCompleted
<1>. /\ p \in Actors /\ Types /\ GoesBy(pc[p], mem[p])
  BY DEF IInv, LInv, Actors
<1>1. CASE AdvanceRollouts(p)
  <2>1. Stays(p, "read") /\ UNCHANGED <<rollout, sizes, phase>>
    BY <1>1 DEF AdvanceRollouts, tables
  <2>2. GoesBy("read", mem[p])'
    BY DEF GoesBy
  <2>. QED
    BY <2>1, <2>2, StaysLearns DEF OnePhase
<1>2. CASE AdvanceOneRollout(p)
  BY <1>2, ReadingPhases DEF AdvanceOneRollout, tables
<1>3. CASE \E timedOut \in {FALSE, TimeoutsHappen} : JudgePhase(p, timedOut)
  <2>1. PICK timedOut \in {FALSE, TimeoutsHappen} : JudgePhase(p, timedOut)
    BY <1>3
  <2>2. /\ pc[p] = "judge" /\ UNCHANGED <<rollout, sizes, phase, mem>>
        /\ Stays(p, "finish") \/ Stays(p, "stall")
    BY <2>1 DEF JudgePhase, Undisturbed, tables, Stays
  <2>3. PICK m : m = mem[p]
    OBVIOUS
  <2>4. GoesBy("finish", m) /\ GoesBy("stall", m)
    BY <2>2, <2>3 DEF GoesBy
  <2>5. GoesBy("finish", m)' /\ GoesBy("stall", m)'
    BY <2>2, <2>4, SamePhases
  <2>6. GoesBy("finish", mem[p])' /\ GoesBy("stall", mem[p])'
    BY <2>2, <2>3, <2>5 DEF GoesBy
  <2>. QED
    BY <2>2, <2>6, StaysLearns DEF OnePhase
<1>4. CASE FinishPhase(p)
  BY <1>4, FinishingPhase DEF FinishPhase
<1>5. CASE \E running \in SUBSET Pool : ActivatePendingPhase(p, running)
  BY <1>5, StartingPhase DEF ActivatePendingPhase
<1>6. CASE CompleteRollout(p)
  <2>1. AllCompleted
    BY <1>6 DEF CompleteRollout, GoesBy
  <2>. QED
    BY <1>6, <2>1, LeaveLearns DEF CompleteRollout, OnePhase
<1>7. CASE TimeoutPausesRollout(p)
  BY <1>7 DEF TimeoutPausesRollout, GoesBy
<1>8. CASE \E stuck \in SUBSET Pool : JudgeInstalledTargets(p, stuck)
  BY <1>8, LeaveLearns DEF JudgeInstalledTargets, OnePhase
<1>. QED
  BY <1>1, <1>2, <1>3, <1>4, <1>5, <1>6, <1>7, <1>8 DEF LoopStep

\* What the loops go by stays true while they take the phases in order.
LEMMA OrderKept ==
  ASSUME IInv, LInv, OnePhase
  PROVE  /\ (\A i \in Phases : phase[i].state # "paused")'
         /\ GateHolds'
         /\ AllCompleted => AllCompleted'
         /\ \A s, m : GoesBy(s, m) => GoesBy(s, m)'
<1>0. sizes' = sizes /\ Phases' = Phases /\ Phases \in SUBSET Nat
  BY PhaseIndices DEF IInv, OnePhase, Phases
<1>1. ASSUME NEW i \in Phases, phase[i].state = "completed"
      PROVE  phase'[i].state = "completed"
  BY <1>1 DEF OnePhase, PhaseEnds, PhaseStarts
<1>2. (\A i \in Phases : phase[i].state # "paused")'
  BY <1>0 DEF LInv, OnePhase, PhaseEnds, PhaseStarts
<1>3. GateHolds'
  <2>. SUFFICES ASSUME NEW i \in Phases, NEW j \in Phases, j < i, phase'[i].state # "pending"
                PROVE  phase'[j].state = "completed"
    BY <1>0 DEF GateHolds
  <2>1. CASE phase[i].state # "pending"
    BY <1>1, <2>1 DEF LInv, GateHolds
  <2>2. CASE phase[i].state = "pending"
    <3>1. PhaseStarts(i)
      BY <2>2 DEF OnePhase, PhaseEnds
    <3>. QED
      BY <1>1, <3>1 DEF PhaseStarts
  <2>. QED
    BY <2>1, <2>2
<1>4. AllCompleted => AllCompleted'
  BY <1>0, <1>1 DEF AllCompleted
<1>5. ASSUME NEW s, NEW m, GoesBy(s, m) PROVE GoesBy(s, m)'
  <2>1. ASSUME NEW ps, Reading(ps) PROVE Reading(ps)'
    BY <1>0, <1>1, <2>1 DEF Reading
  <2>. QED
    BY <1>0, <1>1, <1>4, <1>5, <2>1 DEF GoesBy
<1>. QED
  BY <1>2, <1>3, <1>4, <1>5

\* The memory of those who do not move.
LEMMA OthersGoBy ==
  ASSUME IInv, LInv, OnePhase, NEW a \in Actors, Learns(a)
  PROVE  (\A b \in Actors : GoesBy(pc[b], mem[b]))'
<1>1. PICK s, m : /\ pc' = [pc EXCEPT ![a] = s] /\ mem' = [mem EXCEPT ![a] = m]
                  /\ GoesBy(s, m)'
  BY DEF Learns
<1>2. pc \in [Actors -> Steps] /\ mem \in [Actors -> Memory]
  BY DEF IInv, Types
<1>3. ASSUME NEW b \in Actors PROVE GoesBy(pc[b], mem[b])'
  <2>1. PICK t, n : t = pc'[b] /\ n = mem'[b]
    OBVIOUS
  <2>2. CASE b = a
    <3>1. t = s /\ n = m
      BY <1>1, <1>2, <2>1, <2>2
    <3>2. GoesBy(t, n)'
      BY <1>1, <3>1
    <3>. QED
      BY <2>1, <3>2 DEF GoesBy
  <2>3. CASE b # a
    <3>1. t = pc[b] /\ n = mem[b]
      BY <1>1, <1>2, <2>1, <2>3
    <3>2. GoesBy(t, n)
      BY <3>1 DEF LInv
    <3>3. GoesBy(t, n)'
      BY <3>2, OrderKept
    <3>. QED
      BY <2>1, <3>3 DEF GoesBy
  <2>. QED
    BY <2>2, <2>3
<1>. QED
  BY <1>3

\* The loops alone keep the phases in order.
LEMMA LoopsInv ==
  ASSUME Undisturbed, IInv, LInv, [Next]_vars
  PROVE  LInv'
<1>1. CASE \E c \in Plans, manual \in Manual, running \in SUBSET Pool :
             CreateOtaRollout(c, manual, running)
  <2>1. PICK c \in Plans, manual \in Manual, running \in SUBSET Pool :
               CreateOtaRollout(c, manual, running)
    BY <1>1
  <2>2. /\ rollout.state = "none" /\ sizes' = c /\ rollout'.state = "running"
        /\ phase' = [i \in DOMAIN c |-> IF i = 1 THEN [state |-> "active", job |-> 1]
                                        ELSE [state |-> "pending", job |-> NoJob]]
        /\ UNCHANGED <<pc, mem>>
    BY <2>1 DEF CreateOtaRollout
  <2>3. c \in Seq(Nat \ {0}) /\ DOMAIN c = 1..Len(c) /\ Len(c) \in Nat
    BY PlansAddUp
  <2>4. Phases' = DOMAIN c
    BY <2>2 DEF Phases
  <2>5. \A i \in DOMAIN c : phase'[i].state = IF i = 1 THEN "active" ELSE "pending"
    BY <2>2
  <2>6. GateHolds'
    BY <2>3, <2>4, <2>5 DEF GateHolds
  <2>7. \A a \in Actors : pc'[a] \in {"idle", "done"}
    BY <2>2, <2>3, PlansAddUp DEF IInv, Planned
  <2>8. (\A a \in Actors : GoesBy(pc[a], mem[a]))'
    BY <2>7 DEF GoesBy
  <2>. QED
    BY <2>2, <2>4, <2>5, <2>6, <2>8 DEF LInv
<1>2. CASE \E p \in Pollers : LoopStep(p)
  <2>1. PICK p \in Pollers : LoopStep(p)
    BY <1>2
  <2>2. /\ Learns(p) /\ OnePhase /\ p \in Actors
        /\ rollout'.state = "completed" => rollout.state = "completed" \/ AllCompleted
    BY <2>1, LoopLearns DEF Actors
  <2>3. rollout'.state = "completed" => AllCompleted'
    BY <2>2, OrderKept DEF LInv
  <2>4. (\A b \in Actors : GoesBy(pc[b], mem[b]))'
    BY <2>2, OthersGoBy
  <2>. QED
    BY <2>2, <2>3, <2>4, OrderKept DEF LInv
<1>3. CASE \E q \in Requests : RequestStep(q)
  BY <1>3 DEF Undisturbed
<1>4. CASE (\E k \in DOMAIN jobs : DeviceStep(k)) \/ UNCHANGED vars
  <2>1. UNCHANGED <<rollout, sizes, phase, pc, mem>>
    BY <1>4 DEF DeviceStep, TargetProgress, vars, tables
  <2>2. ASSUME NEW b \in Actors PROVE GoesBy(pc[b], mem[b])'
    <3>1. PICK t, n : t = pc[b] /\ n = mem[b]
      OBVIOUS
    <3>2. GoesBy(t, n)'
      BY <2>1, <3>1, SamePhases DEF LInv
    <3>. QED
      BY <2>1, <3>1, <3>2 DEF GoesBy
  <2>3. OnePhase
    BY <2>1 DEF OnePhase
  <2>. QED
    BY <2>1, <2>2, <2>3, OrderKept DEF LInv
<1>5. CASE \E a \in Actors : Fails(a)
  <2>1. PICK a \in Actors : Fails(a)
    BY <1>5
  <2>2. UNCHANGED <<rollout, sizes, phase>> /\ Leave(a)
    BY <2>1 DEF Fails, tables
  <2>3. OnePhase /\ Learns(a)
    BY <2>2, LeaveLearns DEF OnePhase
  <2>4. (\A b \in Actors : GoesBy(pc[b], mem[b]))'
    BY <2>3, OthersGoBy
  <2>. QED
    BY <2>2, <2>3, <2>4, OrderKept DEF LInv
<1>. QED
  BY <1>1, <1>2, <1>3, <1>4, <1>5 DEF Next

\* The loops go by readings of an ordered rollout.
THEOREM LoopsGoInOrder ==
  ASSUME Undisturbed
  PROVE  Spec => []LInv
<1>1. Init => LInv
  BY DEF Init, LInv, GateHolds, GoesBy, Phases
<1>2. IInv /\ LInv /\ [Next]_vars => LInv'
  BY LoopsInv
<1>. QED
  BY <1>1, <1>2, RolloutInvariant, PTL DEF Spec

\* While no request interferes and no phase runs out of time, a phase starts
\* only when every earlier one is completed, however many loops race and crash.
THEOREM PhasesInOrder ==
  ASSUME Requests = {}, TimeoutsHappen = FALSE
  PROVE  Spec => []GateHolds
<1>1. Undisturbed
  BY DEF Undisturbed
<1>2. LInv => GateHolds
  BY DEF LInv
<1>. QED
  BY <1>1, <1>2, LoopsGoInOrder, PTL

\* A rollout that nothing disturbed is completed only with all its phases, and
\* then every device of the pool has had its upgrade.
THEOREM CompletionCoversPool ==
  ASSUME Requests = {}, TimeoutsHappen = FALSE
  PROVE  Spec => []CompletedCoversPool
<1>1. Undisturbed
  BY DEF Undisturbed
<1>2. ASSUME IInv, LInv PROVE CompletedCoversPool
  <2>. SUFFICES ASSUME rollout.state = "completed"
                PROVE  /\ InState(phase, "completed") = Phases
                       /\ \A d \in Pool : Upgrades(d) # {}
    BY DEF CompletedCoversPool
  <2>1. AllCompleted
    BY <1>2 DEF LInv
  <2>2. InState(phase, "completed") = Phases
    BY <1>2, <2>1, PhaseIndices DEF IInv, AllCompleted, InState
  <2>3. ASSUME NEW d \in Pool PROVE Upgrades(d) # {}
    <3>1. PICK c \in Plans : c = sizes
      BY <1>2 DEF IInv, Planned
    <3>2. Phases = 1..Len(sizes)
      BY <1>2, PhaseIndices DEF IInv
    <3>3. PICK i \in Phases : d \in Slice(sizes, i)
      BY <3>1, <3>2, PlansPartitionPool
    <3>4. phase[i].state = "completed"
      BY <2>1 DEF AllCompleted
    <3>5. phase[i].job \in Upgrades(d)
      BY <1>2, <3>3, <3>4 DEF IInv, PhaseJobs, PhaseJob, Upgrades
    <3>. QED
      BY <3>5
  <2>. QED
    BY <2>2, <2>3
<1>3. IInv /\ LInv => CompletedCoversPool
  BY <1>2
<1>. QED
  BY <1>1, <1>3, RolloutInvariant, LoopsGoInOrder, PTL

=============================================================================
