--------------------------- MODULE AgentJobsProofs ---------------------------
(* Theorems about AgentJobs, for every set of jobs, workers and runners and    *)
(* every value of the configuration.                                           *)
EXTENDS AgentJobs, SequenceTheorems, FiniteSetTheorems, TLAPS

-----------------------------------------------------------------------------
(* The inductive invariant                                                     *)

\* A row has version 0 until it is inserted.
NewIsUntouched == \A j \in Jobs : status[j] = "new" => version[j] = 0

\* Nothing but a cancellation reaches a row whose submission is under way.
SubmitsPending == \A j \in Jobs : submitting[j] => status[j] \in {"pending", "cancelled"}

\* The lease row of a running job was made by the claim that set it running.
LeaseOfThisRun ==
    \A j \in Jobs : status[j] = "running" /\ lease[j] # NoLease => lease[j].claim = version[j]

\* Claims name versions the row has already had.
ClaimsArePast == \A e \in Executors : exec[e] \in Holding => exec[e].claim <= version[exec[e].job]

\* No two slots hold the same claim.
ClaimsDiffer ==
    \A e, f \in Executors :
        /\ exec[e] \in Holding
        /\ exec[f] \in Holding
        /\ exec[e].job = exec[f].job
        /\ exec[e].claim = exec[f].claim
        => e = f

\* A run-next owns its job until a canceller takes it away: it has no lease,
\* so nothing else can.
RunnerOwns ==
    \A e \in Runners : exec[e] \in Holding =>
        LET j == exec[e].job IN
            \/ status[j] = "running" /\ version[j] = exec[e].claim /\ lease[j] = NoLease
            \/ status[j] = "cancelled" /\ version[j] = exec[e].claim + 1

\* A completion whose row has not moved since it was read, and is running, is
\* the completion of the current claim.
CompletesThisRun ==
    \A e \in Executors : exec[e].phase = "completing" =>
        LET j == exec[e].job IN
            /\ exec[e].seen <= version[j]
            /\ status[j] = "running" /\ exec[e].seen = version[j] => exec[e].claim = version[j]

IInv ==
    /\ TypeOK
    /\ StrayLeaseOnlyAfterCancel
    /\ NewIsUntouched
    /\ SubmitsPending
    /\ LeaseOfThisRun
    /\ ClaimsArePast
    /\ ClaimsDiffer
    /\ RunnerOwns
    /\ CompletesThisRun
    /\ FinishedResultIsCurrent

-----------------------------------------------------------------------------
(* What a slot may contain, by its phase. *)

\* A slot that holds a claim has a job and a claim number, and an outcome and a
\* version it read from the phase in which it gets them on.
LEMMA HoldingFields ==
    ASSUME NEW h \in Holding
    PROVE  /\ h.job \in Jobs
           /\ h.claim \in Nat
           /\ h.phase \in {"claimed", "spawned", "running", "exited", "completing"}
           /\ h.phase \in {"exited", "completing"} => h.outcome \in Outcome
           /\ h.phase = "completing" => h.seen \in Nat
  BY DEF Holding

\* The phase of a slot tells which kind of record it is.
LEMMA SlotByPhase ==
    ASSUME NEW x \in {Idle} \cup Selected \cup Holding
    PROVE  /\ x.phase = "selected" => x \in Selected
           /\ x.phase \in {"claimed", "spawned", "running"} =>
                x \in [phase : {"claimed", "spawned", "running"}, job : Jobs, claim : Nat]
           /\ x.phase = "exited" =>
                x \in [phase : {"exited"}, job : Jobs, claim : Nat, outcome : Outcome]
           /\ x.phase = "completing" =>
                x \in [phase : {"completing"}, job : Jobs, claim : Nat,
                       outcome : Outcome, seen : Nat]
           /\ x.phase \in {"claimed", "spawned", "running", "exited", "completing"}
                <=> x \in Holding
           /\ x \in Holding => x # Idle
  BY DEF Idle, Selected, Holding

\* Records of these shapes are slots that hold a claim.
LEMMA HoldingIntro ==
    ASSUME NEW j \in Jobs, NEW c \in Nat, NEW o \in Outcome, NEW v \in Nat,
           NEW p \in {"claimed", "spawned", "running"}
    PROVE  /\ [phase |-> p, job |-> j, claim |-> c] \in Holding
           /\ [phase |-> "exited", job |-> j, claim |-> c, outcome |-> o] \in Holding
           /\ [phase |-> "completing", job |-> j, claim |-> c, outcome |-> o,
               seen |-> v] \in Holding
  BY DEF Holding

\* The transition operator keeps the three columns it writes in their types.
LEMMA TransitionTypes ==
    ASSUME TypeOK, NEW D, NEW to \in Status, Transition(D, to)
    PROVE  /\ status' \in [Jobs -> Status]
           /\ version' \in [Jobs -> Nat]
           /\ ahead' \in [Jobs -> SUBSET Jobs]
  BY DEF TypeOK, Transition, Queued

-----------------------------------------------------------------------------
(* Types                                                                       *)

Slot == {Idle} \cup Selected \cup Holding

\* What a step needs to know about the slot it works on.
LEMMA SlotFacts ==
    ASSUME TypeOK, NEW e \in Executors
    PROVE  /\ exec[e] \in Slot
           /\ exec[e].phase = "selected" =>
                 exec[e] \in Selected /\ exec[e].job \in Jobs /\ exec[e].seen \in Nat
           /\ exec[e] \in Holding => exec[e].job \in Jobs /\ exec[e].claim \in Nat
           /\ exec[e].phase \in {"claimed", "spawned", "running", "exited", "completing"} =>
                 exec[e] \in Holding
           /\ exec[e].phase \in {"exited", "completing"} => exec[e].outcome \in Outcome
           /\ exec[e].phase = "completing" => exec[e].seen \in Nat
  <1>1. exec[e] \in Slot
    BY DEF TypeOK, Slot
  <1>. QED
    BY <1>1, SlotByPhase, HoldingFields DEF Slot, Selected

\* A slot is changed to another slot.
LEMMA SlotUpdate ==
    ASSUME TypeOK, NEW e \in Executors, NEW x \in Slot, exec' = [exec EXCEPT ![e] = x]
    PROVE  exec' \in [Executors -> Slot]
  BY DEF TypeOK, Slot

\* Only the phase of a slot that holds a claim moves on.
LEMMA PhaseUpdate ==
    ASSUME TypeOK, NEW e \in Executors, NEW p \in {"claimed", "spawned", "running"},
           exec[e].phase \in {"claimed", "spawned", "running"},
           exec' = [exec EXCEPT ![e].phase = p]
    PROVE  /\ exec' = [exec EXCEPT ![e] = [phase |-> p, job |-> exec[e].job, claim |-> exec[e].claim]]
           /\ exec' \in [Executors -> Slot]
  <1>1. exec[e] \in [phase : {"claimed", "spawned", "running"}, job : Jobs, claim : Nat]
    BY SlotByPhase, SlotFacts DEF Slot
  <1>2. [exec[e] EXCEPT !.phase = p] = [phase |-> p, job |-> exec[e].job, claim |-> exec[e].claim]
    BY <1>1
  <1>3. exec' = [exec EXCEPT ![e] = [phase |-> p, job |-> exec[e].job, claim |-> exec[e].claim]]
    BY <1>2
  <1>4. [phase |-> p, job |-> exec[e].job, claim |-> exec[e].claim] \in Slot
    BY <1>1 DEF Slot, Holding
  <1>. QED
    BY <1>3, <1>4, SlotUpdate

\* A process ends.
LEMMA ProcsUpdate ==
    ASSUME TypeOK, NEW j \in Jobs, NEW c, procs' = [procs EXCEPT ![j] = procs[j] \ {c}]
    PROVE  procs' \in [Jobs -> SUBSET Nat]
  <1>1. procs[j] \ {c} \in SUBSET Nat
    BY DEF TypeOK
  <1>. QED
    BY <1>1 DEF TypeOK

\* The clock of a lease is set.
LEMMA LeaseUpdate ==
    ASSUME TypeOK, NEW j \in Jobs, NEW t \in 0 .. LeaseTicks, lease[j] # NoLease,
           lease' = [lease EXCEPT ![j].ticks = t]
    PROVE  /\ lease' = [lease EXCEPT ![j] = [claim |-> lease[j].claim,
                                            attempt |-> lease[j].attempt,
                                            ticks |-> t]]
           /\ lease' \in [Jobs -> LeaseRow \cup {NoLease}]
  <1>1. lease[j] \in LeaseRow
    BY DEF TypeOK
  <1>2. [lease[j] EXCEPT !.ticks = t] = [claim |-> lease[j].claim, attempt |-> lease[j].attempt,
                                         ticks |-> t]
    BY <1>1 DEF LeaseRow
  <1>3. [claim |-> lease[j].claim, attempt |-> lease[j].attempt, ticks |-> t] \in LeaseRow
    BY <1>1 DEF LeaseRow
  <1>. QED
    BY <1>2, <1>3 DEF TypeOK

\* The initial state.
LEMMA TypeInit == ASSUME Init PROVE TypeOK
  BY RetryAssumption, LeaseAssumption, FaultAssumption
  DEF Init, TypeOK, Status, Result, NoResult, NoLease, NoCancel, Idle

\* The steps that insert, route and queue rows, and the steps of a canceller.
LEMMA TypeSubmissionCancellation ==
    ASSUME TypeOK, NEW j \in Jobs, Submission(j) \/ Cancellation(j)
    PROVE  TypeOK'
  <1>. USE FaultAssumption
  <1>1. CASE Create(j)
    BY <1>1 DEF TypeOK, Create, Status
  <1>2. ASSUME NEW to \in {"queued", "failed"}, Route(j, to) PROVE TypeOK'
    <2>1. /\ status' \in [Jobs -> Status]
          /\ version' \in [Jobs -> Nat]
          /\ ahead' \in [Jobs -> SUBSET Jobs]
      <3>1. to \in Status
        BY DEF Status
      <3>. QED
        BY <1>2, <3>1, TransitionTypes DEF Route, TypeOK, jobVars
    <2>. QED
      BY <1>2, <2>1 DEF TypeOK, Route
  <1>3. CASE EnqueueMarketplace(j)
    BY <1>3 DEF TypeOK, EnqueueMarketplace, Status, Queued
  <1>4. CASE SubmitterCrash(j)
    BY <1>4 DEF TypeOK, SubmitterCrash, jobVars
  <1>5. CASE CancelRead(j)
    BY <1>5 DEF TypeOK, CancelRead, Cancelling, jobVars
  <1>6. CASE CancelCommit(j)
    <2>1. "cancelled" \in Status
      BY DEF Status
    <2>2. /\ status' \in [Jobs -> Status]
          /\ version' \in [Jobs -> Nat]
          /\ ahead' \in [Jobs -> SUBSET Jobs]
      BY <1>6, <2>1, TransitionTypes DEF CancelCommit
    <2>3. cancel' \in [Jobs -> {NoCancel} \cup Cancelling]
      <3>1. cancel[j].pid \in Nat
        BY <1>6 DEF TypeOK, CancelCommit, Cancelling, NoCancel
      <3>. QED
        BY <1>6, <3>1 DEF TypeOK, CancelCommit, Cancelling
    <2>. QED
      BY <1>6, <2>2, <2>3 DEF TypeOK, CancelCommit
  <1>7. CASE CancelStale(j)
    BY <1>7 DEF TypeOK, CancelStale, jobVars
  <1>8. CASE CancelSignal(j)
    BY <1>8 DEF TypeOK, CancelSignal, jobVars
  <1>9. CASE CancellerCrash(j)
    BY <1>9 DEF TypeOK, CancellerCrash, jobVars
  <1>. QED
    BY <1>1, <1>2, <1>3, <1>4, <1>5, <1>6, <1>7, <1>8, <1>9 DEF Submission, Cancellation

\* The steps of an executor.
LEMMA TypeExecution ==
    ASSUME TypeOK, NEW e \in Executors, Execution(e)
    PROVE  TypeOK'
  <1>1. ASSUME NEW j \in Jobs, Select(e, j) PROVE TypeOK'
    <2>1. [phase |-> "selected", job |-> j, seen |-> version[j]] \in Slot
      BY DEF TypeOK, Slot, Selected
    <2>. QED
      BY <1>1, <2>1, SlotUpdate DEF TypeOK, Select, Slot, jobVars
  <1>2. CASE ClaimLost(e)
    BY <1>2, SlotUpdate DEF TypeOK, ClaimLost, Slot, jobVars
  <1>3. ASSUME exec[e].phase = "selected", TakeJob(e, exec[e].job)
        PROVE  /\ status' \in [Jobs -> Status]
               /\ version' \in [Jobs -> Nat]
               /\ ahead' \in [Jobs -> SUBSET Jobs]
               /\ exec' \in [Executors -> Slot]
    <2>1. exec[e].job \in Jobs
      BY <1>3, SlotFacts
    <2>2. "running" \in Status
      BY DEF Status
    <2>3. [phase |-> "claimed", job |-> exec[e].job, claim |-> version[exec[e].job] + 1] \in Slot
      BY <2>1 DEF TypeOK, Slot, Holding
    <2>. QED
      BY <1>3, <2>2, <2>3, TransitionTypes, SlotUpdate DEF TakeJob
  <1>4. CASE Claim(e)
    <2>1. exec[e].job \in Jobs
      BY <1>4, SlotFacts DEF Claim
    <2>. DEFINE j == exec[e].job
                n == Len(attempts[j]) + 1
    <2>2. n \in Nat \ {0}
      BY <2>1, LenProperties DEF TypeOK
    <2>3. [claim |-> version[j] + 1, attempt |-> n, ticks |-> LeaseTicks] \in LeaseRow
      BY <2>1, <2>2, LeaseAssumption DEF TypeOK, LeaseRow
    <2>4. lease' \in [Jobs -> LeaseRow \cup {NoLease}]
      BY <1>4, <2>1, <2>3 DEF TypeOK, Claim, OpenAttempt
    <2>5. attempts' \in [Jobs -> Seq(AttemptStatus)]
      <3>1. Append(attempts[j], "running") \in Seq(AttemptStatus)
        BY <2>1, AppendProperties DEF TypeOK, AttemptStatus
      <3>. QED
        BY <1>4, <2>1, <3>1 DEF TypeOK, Claim, OpenAttempt
    <2>. QED
      BY <1>3, <1>4, <2>4, <2>5 DEF TypeOK, Claim, Slot
  <1>5. CASE RunNext(e)
    BY <1>3, <1>5 DEF TypeOK, RunNext, Slot
  <1>6. CASE Spawn(e)
    <2>1. exec' \in [Executors -> Slot]
      BY <1>6, PhaseUpdate DEF Spawn
    <2>2. exec[e].job \in Jobs /\ exec[e].claim \in Nat
      BY <1>6, SlotFacts DEF Spawn
    <2>. QED
      BY <1>6, <2>1, <2>2 DEF TypeOK, Spawn, Slot, jobVars
  <1>7. ASSUME NEW o \in Outcome, exec[e] \in Holding PROVE Exited(e, o) \in Slot
    BY <1>7, SlotFacts DEF Exited, Slot, Holding
  <1>8. CASE Started(e)
    <2>1. exec[e].job \in Jobs /\ exec[e].claim \in Nat /\ exec[e] \in Holding
      BY <1>8, SlotFacts DEF Started
    <2>2. exec' \in [Executors -> Slot]
      <3>1. CASE exec' = [exec EXCEPT ![e].phase = "running"]
        BY <1>8, <3>1, PhaseUpdate DEF Started
      <3>2. CASE exec' = [exec EXCEPT ![e] = Exited(e, "failed")]
        <4>1. Exited(e, "failed") \in Slot
          BY <1>7, <2>1 DEF Outcome
        <4>. QED
          BY <3>2, <4>1, SlotUpdate
      <3>. QED
        BY <1>8, <3>1, <3>2 DEF Started
    <2>3. pid' \in [Jobs -> Nat] /\ procs' \in [Jobs -> SUBSET Nat]
      <3>1. CASE UNCHANGED procs
        BY <1>8, <2>1, <3>1 DEF TypeOK, Started
      <3>2. CASE procs' = [procs EXCEPT ![exec[e].job] = @ \ {exec[e].claim}]
        BY <1>8, <2>1, <3>2, ProcsUpdate DEF TypeOK, Started
      <3>. QED
        BY <1>8, <3>1, <3>2 DEF Started
    <2>. QED
      BY <1>8, <2>2, <2>3 DEF TypeOK, Started, Slot, jobVars
  <1>9. ASSUME NEW o \in Outcome, EndWithoutProcess(e, o) \/ ProcessEnds(e, o) PROVE TypeOK'
    <2>1. exec[e].job \in Jobs /\ exec[e].claim \in Nat /\ exec[e] \in Holding
      BY <1>9, SlotFacts DEF EndWithoutProcess, ProcessEnds
    <2>2. exec' \in [Executors -> Slot]
      BY <1>7, <1>9, <2>1, SlotUpdate DEF EndWithoutProcess, ProcessEnds
    <2>3. procs' \in [Jobs -> SUBSET Nat]
      BY <1>9, <2>1, ProcsUpdate DEF TypeOK, EndWithoutProcess, ProcessEnds
    <2>. QED
      BY <1>9, <2>2, <2>3 DEF TypeOK, EndWithoutProcess, ProcessEnds, Slot, jobVars
  <1>10. CASE ReadForCompletion(e)
    <2>1. /\ exec[e].job \in Jobs
          /\ exec[e].claim \in Nat
          /\ exec[e].outcome \in Outcome
      BY <1>10, SlotFacts DEF ReadForCompletion
    <2>2. [phase |-> "completing", job |-> exec[e].job, claim |-> exec[e].claim,
           outcome |-> exec[e].outcome, seen |-> version[exec[e].job]] \in Slot
      BY <2>1 DEF TypeOK, Slot, Holding
    <2>3. exec' \in [Executors -> Slot]
      BY <1>10, <2>2, SlotUpdate DEF ReadForCompletion, Slot
    <2>. QED
      BY <1>10, <2>3 DEF TypeOK, ReadForCompletion, Slot, jobVars
  <1>11. ASSUME exec[e].phase = "completing"
         PROVE  /\ exec[e].job \in Jobs
                /\ exec[e].claim \in Nat
                /\ exec[e].outcome \in Outcome
                /\ TargetOf(exec[e].outcome) \in Status \cap AttemptStatus
    BY <1>11, SlotFacts DEF TargetOf, Outcome, Status, AttemptStatus
  <1>12. ASSUME exec[e].phase = "completing", StoreResult(e, exec[e].job)
         PROVE  result' \in [Jobs -> Result] /\ pid' \in [Jobs -> Nat]
    BY <1>11, <1>12 DEF TypeOK, StoreResult, Result
  <1>13. CASE Complete(e)
    <2>. DEFINE j == exec[e].job
                to == IF WillRetry(e, j) THEN "queued" ELSE TargetOf(exec[e].outcome)
    <2>1. to \in Status /\ Transition({j}, to)
      BY <1>11, <1>13 DEF Complete, Status
    <2>2. /\ status' \in [Jobs -> Status]
          /\ version' \in [Jobs -> Nat]
          /\ ahead' \in [Jobs -> SUBSET Jobs]
      BY <2>1, TransitionTypes
    <2>3. attempts' \in [Jobs -> Seq(AttemptStatus)]
      <3>. DEFINE n == lease[j].attempt
                  a == TargetOf(exec[e].outcome)
      <3>1. j \in Jobs /\ a \in AttemptStatus
        BY <1>11, <1>13 DEF Complete
      <3>2. attempts[j] \in Seq(AttemptStatus)
        BY <3>1 DEF TypeOK
      <3>3. [attempts[j] EXCEPT ![n] = a] \in Seq(AttemptStatus)
        <4>. HIDE DEF n, a
        <4>1. CASE n \in 1 .. Len(attempts[j])
          BY <3>1, <3>2, <4>1, ExceptSeq
        <4>2. CASE n \notin 1 .. Len(attempts[j])
          <5>1. [attempts[j] EXCEPT ![n] = a] = attempts[j]
            BY <3>2, <4>2, LenProperties
          <5>. QED
            BY <3>2, <5>1
        <4>. QED
          BY <4>1, <4>2
      <3>4. attempts' = [attempts EXCEPT ![j] = [attempts[j] EXCEPT ![n] = a]]
        BY <1>13 DEF Complete, CloseAttempt
      <3>. QED
        BY <3>1, <3>3, <3>4 DEF TypeOK
    <2>. QED
      BY <1>11, <1>12, <1>13, <2>2, <2>3 DEF TypeOK, Complete, Idle
  <1>14. CASE CompletionRollsBack(e)
    BY <1>14, SlotUpdate DEF TypeOK, CompletionRollsBack, Slot, jobVars
  <1>15. CASE Finish(e)
    <2>1. /\ status' \in [Jobs -> Status]
          /\ version' \in [Jobs -> Nat]
          /\ ahead' \in [Jobs -> SUBSET Jobs]
      BY <1>11, <1>15, TransitionTypes DEF TypeOK, Finish, jobVars
    <2>. QED
      BY <1>12, <1>15, <2>1 DEF TypeOK, Finish
  <1>. QED
    BY <1>1, <1>2, <1>4, <1>5, <1>6, <1>8, <1>9, <1>10, <1>13, <1>14, <1>15 DEF Execution

\* Every step keeps the types.
LEMMA TypeStep ==
    ASSUME TypeOK, [Next]_vars
    PROVE  TypeOK'
  <1>. USE FaultAssumption
  <1>1. ASSUME NEW j \in Jobs, Submission(j) \/ Cancellation(j) PROVE TypeOK'
    BY <1>1, TypeSubmissionCancellation
  <1>2. ASSUME NEW j \in Jobs, Tick(j) PROVE TypeOK'
    <2>1. lease[j].ticks - 1 \in 0 .. LeaseTicks
      BY <1>2, LeaseAssumption DEF TypeOK, Tick, LeaseRow
    <2>2. lease' \in [Jobs -> LeaseRow \cup {NoLease}]
      BY <1>2, <2>1, LeaseUpdate DEF Tick
    <2>. QED
      BY <1>2, <2>2 DEF TypeOK, Tick, jobVars
  <1>3. ASSUME NEW j \in Jobs, BecomeEligible(j) PROVE TypeOK'
    BY <1>3 DEF TypeOK, BecomeEligible, jobVars
  <1>4. ASSUME NEW e \in Executors, Execution(e) PROVE TypeOK'
    BY <1>4, TypeExecution
  <1>5. ASSUME NEW e \in Executors, Heartbeat(e) PROVE TypeOK'
    <2>1. PICK j \in Jobs : j = exec[e].job
      BY <1>5, SlotFacts DEF Heartbeat
    <2>2. LeaseTicks \in 0 .. LeaseTicks
      BY LeaseAssumption
    <2>3. lease[j] # NoLease /\ lease' = [lease EXCEPT ![j].ticks = LeaseTicks]
      BY <1>5, <2>1, Zenon DEF Heartbeat, LeaseValid
    <2>4. lease' \in [Jobs -> LeaseRow \cup {NoLease}]
      BY <2>2, <2>3, LeaseUpdate
    <2>. QED
      BY <1>5, <2>4 DEF TypeOK, Heartbeat, jobVars
  <1>6. ASSUME NEW e \in Executors, Crash(e) PROVE TypeOK'
    BY <1>6 DEF TypeOK, Crash, jobVars
  <1>7. ASSUME NEW e \in Executors, AbandonAtShutdown(e) PROVE TypeOK'
    <2>1. procs' \in [Jobs -> SUBSET Nat]
      BY <1>7, SlotFacts, ProcsUpdate DEF AbandonAtShutdown
    <2>. QED
      BY <1>7, <2>1 DEF TypeOK, AbandonAtShutdown, jobVars
  <1>8. ASSUME NEW j \in Jobs, NEW c \in procs[j], OrphanExits(j, c) PROVE TypeOK'
    BY <1>8 DEF TypeOK, OrphanExits, jobVars
  <1>9. CASE Reap
    <2>1. /\ status' \in [Jobs -> Status]
          /\ version' \in [Jobs -> Nat]
          /\ ahead' \in [Jobs -> SUBSET Jobs]
      <3>. DEFINE to == IF RecoveryPolicy = "fail" THEN "failed" ELSE "queued"
      <3>1. to \in Status /\ Transition(Reapable, to)
        BY <1>9 DEF Reap, Status
      <3>. QED
        BY <3>1, TransitionTypes
    <2>. QED
      BY <1>9, <2>1 DEF TypeOK, Reap, TakeBack
  <1>10. CASE UNCHANGED vars
    BY <1>10 DEF TypeOK, vars, jobVars
  <1>. QED
    BY <1>1, <1>2, <1>3, <1>4, <1>5, <1>6, <1>7, <1>8, <1>9, <1>10 DEF Next

-----------------------------------------------------------------------------
(* The inductive invariant is preserved: one lemma per kind of step            *)

\* Which states a transition can start from.
LEMMA TransitionFrom ==
    ASSUME TypeOK, NEW D \in SUBSET Jobs, NEW to, Transition(D, to)
    PROVE  /\ \A k \in D : to \in ValidTransitions[status[k]]
           /\ \A k \in D : status'[k] = to /\ version'[k] = version[k] + 1
           /\ \A k \in Jobs \ D : status'[k] = status[k] /\ version'[k] = version[k]
  BY DEF TypeOK, Transition

\* The transition of one job.
LEMMA MoveOne ==
    ASSUME TypeOK, NEW j \in Jobs, NEW to, Transition({j}, to)
    PROVE  /\ status[j] \in Status
           /\ to \in ValidTransitions[status[j]]
           /\ version[j] \in Nat
           /\ status'[j] = to
           /\ version'[j] = version[j] + 1
           /\ \A k \in Jobs \ {j} : status'[k] = status[k] /\ version'[k] = version[k]
  BY DEF TypeOK, Transition

\* A transition the table allows leaves one of the source states of its target.
LEMMA WhereFrom ==
    ASSUME NEW s \in Status
    PROVE  /\ "running" \in ValidTransitions[s] => s = "queued"
           /\ "cancelled" \in ValidTransitions[s] => s \in {"pending", "queued", "running"}
           /\ "queued" \in ValidTransitions[s] => s \in {"pending", "running"}
           /\ "failed" \in ValidTransitions[s] => s \in {"pending", "queued", "running"}
           /\ "succeeded" \in ValidTransitions[s] => s = "running"
           /\ "timed_out" \in ValidTransitions[s] => s = "running"
  BY DEF Status, ValidTransitions

\* A step that moves no job and no lease, and gives no slot a claim or a version
\* it did not have.
LEMMA SlotMoves ==
    ASSUME IInv, TypeOK',
           UNCHANGED <<status, version, result>>,
           \A j \in Jobs : /\ lease'[j] = NoLease <=> lease[j] = NoLease
                           /\ lease'[j].claim = lease[j].claim
                           /\ submitting'[j] => submitting[j],
           \A e \in Executors : exec'[e] \in Holding =>
               /\ exec[e] \in Holding
               /\ exec'[e].job = exec[e].job
               /\ exec'[e].claim = exec[e].claim,
           \A e \in Executors : exec'[e].phase = "completing" =>
               /\ exec[e].phase = "completing"
               /\ exec'[e].seen = exec[e].seen
    PROVE  IInv'
  <1>. USE DEF IInv
  <1>1. \A e \in Executors : exec'[e].phase = "completing" => exec'[e] \in Holding
    BY SlotByPhase DEF TypeOK
  <1>2. /\ StrayLeaseOnlyAfterCancel'
        /\ NewIsUntouched'
        /\ SubmitsPending'
        /\ FinishedResultIsCurrent'
    BY DEF StrayLeaseOnlyAfterCancel, NewIsUntouched, SubmitsPending, FinishedResultIsCurrent
  <1>3. LeaseOfThisRun'
    BY DEF LeaseOfThisRun
  <1>4. ClaimsArePast'
    BY DEF ClaimsArePast
  <1>5. ClaimsDiffer'
    BY DEF ClaimsDiffer
  <1>6. RunnerOwns'
    BY HoldingFields DEF RunnerOwns, Executors
  <1>7. CompletesThisRun'
    BY <1>1 DEF CompletesThisRun
  <1>. QED
    BY <1>2, <1>3, <1>4, <1>5, <1>6, <1>7

\* A step that moves one job that waits, or cancels one that runs.
LEMMA JobMoves ==
    ASSUME IInv, TypeOK', NEW j \in Jobs,
           UNCHANGED <<lease, exec, result>>,
           \A k \in Jobs \ {j} : /\ status'[k] = status[k]
                                 /\ version'[k] = version[k]
                                 /\ submitting'[k] = submitting[k],
           status'[j] \in {"pending", "queued", "failed", "cancelled"},
           submitting'[j] => status'[j] \in {"pending", "cancelled"},
           version'[j] > version[j],
           \/ status[j] \in {"new", "pending", "queued"}
           \/ status[j] = "running" /\ status'[j] = "cancelled" /\ version'[j] = version[j] + 1
    PROVE  IInv'
  <1>. USE DEF IInv
  <1>1. version[j] \in Nat /\ version'[j] \in Nat
    BY DEF TypeOK
  <1>2. StrayLeaseOnlyAfterCancel'
    BY DEF StrayLeaseOnlyAfterCancel
  <1>3. NewIsUntouched' /\ SubmitsPending'
    BY DEF NewIsUntouched, SubmitsPending
  <1>4. LeaseOfThisRun'
    BY DEF LeaseOfThisRun
  <1>5. ClaimsArePast'
    <2>1. ASSUME NEW e \in Executors, exec[e] \in Holding
          PROVE  exec[e].claim <= version'[exec[e].job]
      <3>1. exec[e].job \in Jobs /\ exec[e].claim \in Nat /\ exec[e].claim <= version[exec[e].job]
        BY <2>1, HoldingFields DEF ClaimsArePast
      <3>. QED
        BY <1>1, <3>1
    <2>. QED
      BY <2>1 DEF ClaimsArePast
  <1>6. ClaimsDiffer'
    BY DEF ClaimsDiffer
  <1>7. RunnerOwns'
    BY HoldingFields DEF RunnerOwns, Executors
  <1>8. CompletesThisRun'
    <2>1. ASSUME NEW e \in Executors, exec[e].phase = "completing"
          PROVE  /\ exec[e].seen <= version'[exec[e].job]
                 /\ status'[exec[e].job] = "running" /\ exec[e].seen = version'[exec[e].job]
                       => exec[e].claim = version'[exec[e].job]
      <3>1. exec[e].job \in Jobs /\ exec[e].seen \in Nat
        BY <2>1, SlotFacts
      <3>. QED
        BY <1>1, <2>1, <3>1 DEF CompletesThisRun
    <2>. QED
      BY <2>1 DEF CompletesThisRun
  <1>9. FinishedResultIsCurrent'
    BY DEF FinishedResultIsCurrent
  <1>. QED
    BY <1>2, <1>3, <1>4, <1>5, <1>6, <1>7, <1>8, <1>9

\* A claim, with a lease or without.
LEMMA ClaimMoves ==
    ASSUME IInv, TypeOK', NEW e \in Executors,
           exec[e].phase = "selected",
           TakeJob(e, exec[e].job),
           UNCHANGED <<result, submitting>>,
           \/ e \in Workers /\ OpenAttempt(exec[e].job)
           \/ e \in Runners /\ UNCHANGED lease
    PROVE  IInv'
  <1>. USE DEF IInv
  <1>1. PICK j \in Jobs : j = exec[e].job
    BY SlotFacts
  <1>2. /\ version[j] \in Nat
        /\ status[j] = "queued" /\ status'[j] = "running" /\ version'[j] = version[j] + 1
        /\ \A k \in Jobs \ {j} : status'[k] = status[k] /\ version'[k] = version[k]
    <2>1. Transition({j}, "running") /\ status[j] \in Status
      BY <1>1 DEF TypeOK, TakeJob
    <2>. QED
      BY <2>1, MoveOne, WhereFrom
  <1>3. exec' = [exec EXCEPT ![e] = [phase |-> "claimed", job |-> j, claim |-> version[j] + 1]]
    BY <1>1 DEF TakeJob
  <1>4. /\ exec'[e].phase = "claimed" /\ exec'[e].job = j /\ exec'[e].claim = version[j] + 1
        /\ exec'[e] \in Holding
        /\ \A f \in Executors \ {e} : exec'[f] = exec[f]
    BY <1>2, <1>3, HoldingIntro DEF TypeOK, Holding
  <1>5. /\ \A k \in Jobs \ {j} : lease'[k] = lease[k]
        /\ lease[j] = NoLease
        /\ lease'[j] # NoLease => lease'[j].claim = version[j] + 1
        /\ e \in Runners => lease'[j] = NoLease
    <2>1. lease[j] = NoLease
      BY <1>2 DEF StrayLeaseOnlyAfterCancel
    <2>2. CASE e \in Workers /\ OpenAttempt(j)
      BY <2>1, <2>2, ExecutorAssumption DEF OpenAttempt, TypeOK
    <2>3. CASE e \in Runners /\ UNCHANGED lease
      BY <2>1, <2>3
    <2>. QED
      BY <1>1, <2>2, <2>3
  <1>6. /\ StrayLeaseOnlyAfterCancel'
        /\ NewIsUntouched'
        /\ SubmitsPending'
        /\ LeaseOfThisRun'
        /\ FinishedResultIsCurrent'
    BY <1>2, <1>5 DEF StrayLeaseOnlyAfterCancel, NewIsUntouched, SubmitsPending, LeaseOfThisRun,
                      FinishedResultIsCurrent
  <1>7. \A f \in Executors \ {e} : exec[f] \in Holding =>
            /\ exec[f].job \in Jobs
            /\ exec[f].claim \in Nat
            /\ exec[f].claim <= version[exec[f].job]
    BY HoldingFields DEF ClaimsArePast
  <1>8. ClaimsArePast'
    BY <1>2, <1>4, <1>7 DEF ClaimsArePast
  <1>9. ClaimsDiffer'
    BY <1>2, <1>4, <1>7 DEF ClaimsDiffer
  <1>10. RunnerOwns'
    BY <1>2, <1>4, <1>5, <1>7 DEF RunnerOwns, Executors
  <1>11. CompletesThisRun'
    <2>1. \A f \in Executors : exec'[f].phase = "completing" =>
              f # e /\ exec[f].job \in Jobs /\ exec[f].seen \in Nat
      BY <1>4, SlotFacts
    <2>. QED
      BY <1>2, <1>4, <2>1 DEF CompletesThisRun
  <1>. QED
    BY <1>6, <1>8, <1>9, <1>10, <1>11

\* The end of a run by the executor that holds its claim.
LEMMA RunEnds ==
    ASSUME IInv, TypeOK', NEW e \in Executors, NEW j \in Jobs,
           exec[e].phase = "completing", exec[e].job = j,
           status[j] = "running", version[j] = exec[e].claim,
           lease[j] # NoLease => e \in Workers,
           status'[j] \in {"queued", TargetOf(exec[e].outcome)},
           version'[j] = version[j] + 1,
           \A k \in Jobs \ {j} : status'[k] = status[k] /\ version'[k] = version[k],
           StoreResult(e, j),
           lease' = [lease EXCEPT ![j] = NoLease],
           exec' = [exec EXCEPT ![e] = Idle],
           UNCHANGED submitting
    PROVE  IInv'
  <1>. USE DEF IInv
  <1>1. /\ exec[e] \in Holding
        /\ exec[e].outcome \in Outcome
        /\ version[j] \in Nat
        /\ status'[j] \in {"queued", "succeeded", "failed", "timed_out"}
    BY SlotFacts DEF TypeOK, TargetOf, Outcome
  <1>2. /\ exec'[e] = Idle /\ exec'[e] \notin Holding /\ exec'[e].phase # "completing"
        /\ \A f \in Executors \ {e} : exec'[f] = exec[f]
    BY DEF TypeOK, Idle, Holding
  <1>3. lease'[j] = NoLease /\ \A k \in Jobs \ {j} : lease'[k] = lease[k]
    BY DEF TypeOK
  <1>4. /\ result'[j] = [outcome |-> exec[e].outcome, claim |-> version[j]]
        /\ \A k \in Jobs \ {j} : result'[k] = result[k]
    BY DEF TypeOK, StoreResult
  <1>5. /\ StrayLeaseOnlyAfterCancel'
        /\ NewIsUntouched'
        /\ SubmitsPending'
        /\ LeaseOfThisRun'
    BY <1>1, <1>3 DEF StrayLeaseOnlyAfterCancel, NewIsUntouched, SubmitsPending, LeaseOfThisRun
  <1>6. FinishedResultIsCurrent'
    <2>1. status'[j] \in {"succeeded", "timed_out"} =>
              result'[j] = [outcome |-> status'[j], claim |-> version'[j] - 1]
      BY <1>1, <1>4 DEF TargetOf, Outcome
    <2>. QED
      BY <1>4, <2>1 DEF FinishedResultIsCurrent
  <1>7. \A f \in Executors \ {e} : exec[f] \in Holding =>
            /\ exec[f].job \in Jobs
            /\ exec[f].claim \in Nat
            /\ exec[f].claim <= version[exec[f].job]
    BY HoldingFields DEF ClaimsArePast
  <1>8. ClaimsArePast' /\ ClaimsDiffer'
    BY <1>1, <1>2, <1>7 DEF ClaimsArePast, ClaimsDiffer
  <1>9. RunnerOwns'
    <2>1. ASSUME NEW f \in Runners, exec'[f] \in Holding PROVE exec[f].job # j
      <3>1. f # e /\ exec[f] \in Holding
        BY <1>2, <2>1 DEF Executors
      <3>2. CASE lease[j] # NoLease
        BY <3>1, <3>2 DEF RunnerOwns
      <3>3. CASE exec[f].job = j /\ exec[f].claim = version[j]
        BY <1>1, <3>1, <3>3 DEF ClaimsDiffer, Executors
      <3>. QED
        BY <3>1, <3>2, <3>3 DEF RunnerOwns
    <2>. QED
      BY <1>2, <1>3, <1>7, <2>1 DEF RunnerOwns, Executors
  <1>10. CompletesThisRun'
    <2>1. \A f \in Executors : exec'[f].phase = "completing" =>
              f # e /\ exec[f].job \in Jobs /\ exec[f].seen \in Nat
      BY <1>2, SlotFacts
    <2>. QED
      BY <1>1, <1>2, <2>1 DEF CompletesThisRun
  <1>. QED
    BY <1>5, <1>6, <1>8, <1>9, <1>10

\* A run-next that finds its job cancelled only stores its output.
LEMMA LateFinish ==
    ASSUME IInv, TypeOK', NEW e \in Executors, NEW j \in Jobs,
           status[j] = "cancelled",
           StoreResult(e, j),
           exec' = [exec EXCEPT ![e] = Idle],
           UNCHANGED <<status, version, lease, submitting>>
    PROVE  IInv'
  <1>. USE DEF IInv
  <1>1. /\ exec'[e] = Idle /\ exec'[e] \notin Holding /\ exec'[e].phase # "completing"
        /\ \A f \in Executors \ {e} : exec'[f] = exec[f]
    BY DEF TypeOK, Idle, Holding
  <1>2. \A k \in Jobs \ {j} : result'[k] = result[k]
    BY DEF TypeOK, StoreResult
  <1>3. /\ StrayLeaseOnlyAfterCancel'
        /\ NewIsUntouched'
        /\ SubmitsPending'
        /\ LeaseOfThisRun'
    BY DEF StrayLeaseOnlyAfterCancel, NewIsUntouched, SubmitsPending, LeaseOfThisRun
  <1>4. FinishedResultIsCurrent'
    BY <1>2 DEF FinishedResultIsCurrent
  <1>5. ClaimsArePast' /\ ClaimsDiffer' /\ CompletesThisRun'
    BY <1>1 DEF ClaimsArePast, ClaimsDiffer, CompletesThisRun
  <1>6. RunnerOwns'
    BY <1>1 DEF RunnerOwns, Executors
  <1>. QED
    BY <1>3, <1>4, <1>5, <1>6

\* The reaper takes back running jobs that have a lease.
LEMMA ReapMoves ==
    ASSUME IInv, TypeOK', Reap
    PROVE  IInv'
  <1>. USE DEF IInv
  <1>. DEFINE to == IF RecoveryPolicy = "fail" THEN "failed" ELSE "queued"
  <1>1. /\ \A k \in Reapable : status[k] = "running" /\ lease[k] # NoLease /\ k \in Jobs
        /\ \A k \in Reapable : status'[k] = to /\ version'[k] = version[k] + 1
        /\ \A k \in Jobs \ Reapable : status'[k] = status[k] /\ version'[k] = version[k]
    BY TransitionFrom DEF Reap, Reapable
  <1>2. /\ \A k \in Reapable : lease'[k] = NoLease
        /\ \A k \in Jobs \ Reapable : lease'[k] = lease[k]
        /\ UNCHANGED <<exec, result, submitting>>
    BY <1>1 DEF Reap, TakeBack
  <1>3. to \in {"failed", "queued"}
    OBVIOUS
  <1>. HIDE DEF to
  <1>4. \A k \in Jobs : version[k] \in Nat
    BY DEF TypeOK
  <1>5. /\ StrayLeaseOnlyAfterCancel'
        /\ NewIsUntouched'
        /\ SubmitsPending'
        /\ LeaseOfThisRun'
    BY <1>1, <1>2, <1>3 DEF StrayLeaseOnlyAfterCancel, NewIsUntouched, SubmitsPending, LeaseOfThisRun
  <1>6. FinishedResultIsCurrent'
    BY <1>1, <1>2, <1>3 DEF FinishedResultIsCurrent
  <1>7. \A f \in Executors : exec[f] \in Holding =>
            /\ exec[f].job \in Jobs
            /\ exec[f].claim \in Nat
            /\ exec[f].claim <= version[exec[f].job]
    BY HoldingFields DEF ClaimsArePast
  <1>8. ClaimsArePast' /\ ClaimsDiffer'
    BY <1>1, <1>2, <1>4, <1>7 DEF ClaimsArePast, ClaimsDiffer
  <1>9. RunnerOwns'
    BY <1>1, <1>2, <1>7 DEF RunnerOwns, Executors
  <1>10. CompletesThisRun'
    <2>1. \A f \in Executors : exec[f].phase = "completing" =>
              exec[f].job \in Jobs /\ exec[f].seen \in Nat
      BY SlotFacts
    <2>. QED
      BY <1>1, <1>2, <1>3, <1>4, <2>1 DEF CompletesThisRun
  <1>. QED
    BY <1>5, <1>6, <1>8, <1>9, <1>10

\* The inductive invariant holds initially.
LEMMA InvInit == ASSUME Init PROVE IInv
  <1>1. TypeOK
    BY TypeInit
  <1>2. \A e \in Executors : exec[e].phase = "idle" /\ exec[e] \notin Holding
    BY DEF Init, Idle, Holding
  <1>3. /\ StrayLeaseOnlyAfterCancel
        /\ NewIsUntouched
        /\ SubmitsPending
        /\ LeaseOfThisRun
        /\ FinishedResultIsCurrent
    BY DEF Init, StrayLeaseOnlyAfterCancel, NewIsUntouched, SubmitsPending, LeaseOfThisRun,
           FinishedResultIsCurrent
  <1>4. ClaimsArePast /\ ClaimsDiffer /\ RunnerOwns /\ CompletesThisRun
    BY <1>2 DEF ClaimsArePast, ClaimsDiffer, RunnerOwns, CompletesThisRun, Executors
  <1>. QED
    BY <1>1, <1>3, <1>4 DEF IInv

\* Submitting, queueing and cancelling keep the inductive invariant.
LEMMA InvSubmissionCancellation ==
    ASSUME IInv, TypeOK', NEW j \in Jobs, Submission(j) \/ Cancellation(j)
    PROVE  IInv'
  <1>. USE DEF IInv
  <1>1. CASE Create(j)
    <2>1. /\ status'[j] = "pending" /\ version[j] = 0 /\ version'[j] = 1
          /\ \A k \in Jobs \ {j} : /\ status'[k] = status[k]
                                  /\ version'[k] = version[k]
                                  /\ submitting'[k] = submitting[k]
      BY <1>1 DEF Create, TypeOK, NewIsUntouched
    <2>2. UNCHANGED <<lease, exec, result>> /\ status[j] = "new"
      BY <1>1 DEF Create
    <2>3. version'[j] > version[j]
      BY <2>1
    <2>. QED
      BY <2>1, <2>2, <2>3, JobMoves
  <1>2. ASSUME NEW to \in {"queued", "failed"}, Route(j, to) PROVE IInv'
    <2>1. /\ ~submitting'[j]
          /\ \A k \in Jobs \ {j} : submitting'[k] = submitting[k]
          /\ status[j] \in {"pending", "cancelled"}
      BY <1>2 DEF Route, TypeOK, SubmitsPending
    <2>2. CASE to \in ValidTransitions[status[j]]
      <3>1. Transition({j}, to)
        BY <1>2, <2>2 DEF Route
      <3>2. /\ status'[j] = to /\ version[j] \in Nat /\ version'[j] = version[j] + 1
            /\ \A k \in Jobs \ {j} : status'[k] = status[k] /\ version'[k] = version[k]
        BY <3>1, MoveOne
      <3>3. status[j] = "pending"
        BY <2>1, <2>2, WhereFrom DEF Status
      <3>4. UNCHANGED <<lease, exec, result>>
        BY <1>2 DEF Route
      <3>5. \A k \in Jobs \ {j} : /\ status'[k] = status[k]
                                /\ version'[k] = version[k]
                                /\ submitting'[k] = submitting[k]
        BY <2>1, <3>2
      <3>6. version'[j] > version[j]
        BY <3>2
      <3>. QED
        BY <2>1, <3>2, <3>3, <3>4, <3>5, <3>6, JobMoves
    <2>3. CASE to \notin ValidTransitions[status[j]]
      BY <1>2, <2>1, <2>3, SlotMoves DEF Route, jobVars
    <2>. QED
      BY <2>2, <2>3
  <1>3. CASE EnqueueMarketplace(j)
    <2>1. /\ status'[j] = "queued" /\ version[j] = 0 /\ version'[j] = 2 /\ ~submitting[j]
          /\ \A k \in Jobs \ {j} : status'[k] = status[k] /\ version'[k] = version[k]
      BY ZenonT(30), <1>3 DEF EnqueueMarketplace, TypeOK, NewIsUntouched, SubmitsPending
    <2>. QED
      BY <1>3, <2>1, JobMoves DEF EnqueueMarketplace
  <1>4. CASE SubmitterCrash(j)
    BY <1>4, SlotMoves DEF SubmitterCrash, TypeOK, jobVars
  <1>5. CASE CancelRead(j) \/ CancelStale(j) \/ CancelSignal(j) \/ CancellerCrash(j)
    BY <1>5, SlotMoves DEF CancelRead, CancelStale, CancelSignal, CancellerCrash, jobVars
  <1>6. CASE CancelCommit(j)
    <2>1. Transition({j}, "cancelled")
      BY <1>6 DEF CancelCommit
    <2>2. /\ status'[j] = "cancelled" /\ version[j] \in Nat /\ version'[j] = version[j] + 1
          /\ \A k \in Jobs \ {j} : status'[k] = status[k] /\ version'[k] = version[k]
          /\ status[j] \in {"pending", "queued", "running"}
      BY <2>1, MoveOne, WhereFrom
    <2>. QED
      BY <1>6, <2>2, JobMoves DEF CancelCommit
  <1>. QED
    BY <1>1, <1>2, <1>3, <1>4, <1>5, <1>6 DEF Submission, Cancellation

\* One slot changes, without a new claim.
LEMMA SlotReplaced ==
    ASSUME IInv, TypeOK', NEW e \in Executors, NEW x,
           exec' = [exec EXCEPT ![e] = x],
           x.phase # "completing",
           x \in Holding => /\ exec[e] \in Holding
                           /\ x.job = exec[e].job
                           /\ x.claim = exec[e].claim,
           UNCHANGED <<status, version, result, lease, submitting>>
    PROVE  IInv'
  <1>1. exec'[e] = x /\ \A f \in Executors \ {e} : exec'[f] = exec[f]
    BY DEF IInv, TypeOK
  <1>. QED
    BY <1>1, SlotMoves

\* The version is read for a completion.
LEMMA ReadMoves ==
    ASSUME IInv, TypeOK', NEW e \in Executors, NEW j \in Jobs,
           exec[e].phase = "exited", exec[e].job = j,
           e \in Workers => LeaseValid(e),
           exec' = [exec EXCEPT ![e] = [phase |-> "completing", job |-> j,
                                        claim |-> exec[e].claim,
                                        outcome |-> exec[e].outcome, seen |-> version[j]]],
           UNCHANGED <<status, version, result, lease, submitting>>
    PROVE  IInv'
  <1>. USE DEF IInv
  <1>1. exec[e] \in Holding
    BY SlotFacts
  <1>2. /\ exec'[e].phase = "completing" /\ exec'[e].job = j
        /\ exec'[e].claim = exec[e].claim /\ exec'[e].seen = version[j]
        /\ \A f \in Executors \ {e} : exec'[f] = exec[f]
    BY DEF TypeOK
  <1>3. version[j] \in Nat
    BY DEF TypeOK
  <1>4. status[j] = "running" => exec[e].claim = version[j]
    <2>1. CASE e \in Workers
      BY <2>1 DEF LeaseValid, LeaseOfThisRun
    <2>2. CASE e \in Runners
      BY <1>1, <2>2 DEF RunnerOwns
    <2>. QED
      BY <2>1, <2>2 DEF Executors
  <1>5. /\ StrayLeaseOnlyAfterCancel'
        /\ NewIsUntouched'
        /\ SubmitsPending'
        /\ LeaseOfThisRun'
        /\ FinishedResultIsCurrent'
    BY DEF StrayLeaseOnlyAfterCancel, NewIsUntouched, SubmitsPending, LeaseOfThisRun,
           FinishedResultIsCurrent
  <1>6. ClaimsArePast'
    BY <1>1, <1>2 DEF ClaimsArePast
  <1>7. ClaimsDiffer'
    BY <1>1, <1>2 DEF ClaimsDiffer
  <1>8. RunnerOwns'
    BY <1>1, <1>2 DEF RunnerOwns, Executors
  <1>9. CompletesThisRun'
    BY <1>2, <1>3, <1>4 DEF CompletesThisRun
  <1>. QED
    BY <1>5, <1>6, <1>7, <1>8, <1>9

\* The steps of the executors (claim, heartbeat, run, complete, finish) keep it.
LEMMA InvExecution ==
    ASSUME IInv, TypeOK', NEW e \in Executors, Execution(e)
    PROVE  IInv'
  <1>. USE DEF IInv
  <1>1. Idle.phase # "completing" /\ Idle \notin Holding
    BY DEF Idle, Holding
  <1>2. ASSUME NEW k \in Jobs, Select(e, k) PROVE IInv'
    <2>. DEFINE x == [phase |-> "selected", job |-> k, seen |-> version[k]]
    <2>1. x.phase = "selected" /\ x \notin Holding
      BY DEF Holding
    <2>2. exec' = [exec EXCEPT ![e] = x]
      BY <1>2 DEF Select
    <2>3. UNCHANGED <<status, version, result, lease, submitting>>
      BY <1>2 DEF Select, jobVars
    <2>. QED
      BY <2>1, <2>2, <2>3, SlotReplaced
  <1>3. CASE ClaimLost(e) \/ CompletionRollsBack(e)
    BY <1>1, <1>3, SlotReplaced DEF ClaimLost, CompletionRollsBack, jobVars
  <1>4. CASE Claim(e)
    BY <1>4, ClaimMoves DEF Claim
  <1>5. CASE RunNext(e)
    BY <1>5, ClaimMoves DEF RunNext
  <1>6. ASSUME NEW p \in {"spawned", "running"},
               exec[e].phase \in {"claimed", "spawned"},
               exec' = [exec EXCEPT ![e].phase = p],
               UNCHANGED <<status, version, result, lease, submitting>>
        PROVE  IInv'
    <2>. DEFINE x == [phase |-> p, job |-> exec[e].job, claim |-> exec[e].claim]
    <2>1. exec' = [exec EXCEPT ![e] = x]
      BY <1>6, PhaseUpdate
    <2>2. exec[e] \in Holding
      BY <1>6, SlotFacts
    <2>3. x.phase # "completing" /\ x.job = exec[e].job /\ x.claim = exec[e].claim
      OBVIOUS
    <2>. HIDE DEF x
    <2>. QED
      BY <1>6, <2>1, <2>2, <2>3, SlotReplaced
  <1>7. ASSUME NEW o \in Outcome,
               exec[e].phase \in {"claimed", "spawned", "running"},
               exec' = [exec EXCEPT ![e] = Exited(e, o)],
               UNCHANGED <<status, version, result, lease, submitting>>
        PROVE  IInv'
    <2>1. exec[e] \in Holding
      BY <1>7, SlotFacts
    <2>2. /\ Exited(e, o).phase # "completing"
          /\ Exited(e, o).job = exec[e].job
          /\ Exited(e, o).claim = exec[e].claim
      BY DEF Exited
    <2>. QED
      BY <1>7, <2>1, <2>2, SlotReplaced
  <1>8. CASE Spawn(e)
    BY <1>6, <1>8 DEF Spawn, jobVars
  <1>9. CASE Started(e)
    <2>1. CASE exec' = [exec EXCEPT ![e].phase = "running"]
      BY <1>6, <1>9, <2>1 DEF Started, jobVars
    <2>2. CASE exec' = [exec EXCEPT ![e] = Exited(e, "failed")]
      BY <1>7, <1>9, <2>2 DEF Started, jobVars, Outcome
    <2>. QED
      BY <1>9, <2>1, <2>2 DEF Started
  <1>10. ASSUME NEW o \in Outcome, EndWithoutProcess(e, o) \/ ProcessEnds(e, o) PROVE IInv'
    BY <1>7, <1>10 DEF EndWithoutProcess, ProcessEnds, jobVars
  <1>11. CASE ReadForCompletion(e)
    <2>1. exec[e].phase = "exited" /\ exec[e].job \in Jobs
      BY <1>11, SlotFacts DEF ReadForCompletion
    <2>2. UNCHANGED <<status, version, result, lease, submitting>>
      BY <1>11 DEF ReadForCompletion, jobVars
    <2>3. CASE e \in Workers /\ ~LeaseValid(e)
      <3>1. exec' = [exec EXCEPT ![e] = Idle]
        BY <1>11, <2>3 DEF ReadForCompletion
      <3>. QED
        BY <1>1, <2>2, <3>1, SlotReplaced
    <2>4. CASE ~(e \in Workers /\ ~LeaseValid(e))
      BY <1>11, <2>1, <2>2, <2>4, ReadMoves DEF ReadForCompletion
    <2>. QED
      BY <2>3, <2>4
  <1>12. CASE Complete(e)
    <2>1. PICK j \in Jobs : j = exec[e].job
      BY <1>12, SlotFacts DEF Complete
    <2>2. /\ exec[e].phase = "completing"
          /\ status[j] = "running" /\ exec[e].seen = version[j] /\ e \in Workers
          /\ StoreResult(e, j)
          /\ lease' = [lease EXCEPT ![j] = NoLease]
          /\ exec' = [exec EXCEPT ![e] = Idle]
          /\ UNCHANGED submitting
      BY <1>12, <2>1 DEF Complete, CompletionValid, Unmoved
    <2>3. /\ status'[j] \in {"queued", TargetOf(exec[e].outcome)}
          /\ version'[j] = version[j] + 1
          /\ \A k \in Jobs \ {j} : status'[k] = status[k] /\ version'[k] = version[k]
      <3>. DEFINE to == IF WillRetry(e, j) THEN "queued" ELSE TargetOf(exec[e].outcome)
      <3>1. Transition({j}, to)
        BY <1>12, <2>1 DEF Complete
      <3>2. to \in {"queued", TargetOf(exec[e].outcome)}
        OBVIOUS
      <3>. HIDE DEF to
      <3>. QED
        BY <3>1, <3>2, MoveOne
    <2>4. version[j] = exec[e].claim
      BY <2>1, <2>2 DEF CompletesThisRun
    <2>. QED
      BY <2>1, <2>2, <2>3, <2>4, RunEnds
  <1>13. CASE Finish(e)
    <2>1. PICK j \in Jobs : j = exec[e].job
      BY <1>13, SlotFacts DEF Finish
    <2>2. /\ exec[e].phase = "completing"
          /\ exec[e] \in Holding
          /\ exec[e].seen = version[j] /\ e \in Runners
          /\ StoreResult(e, j)
          /\ exec' = [exec EXCEPT ![e] = Idle]
          /\ UNCHANGED <<lease, submitting>>
      BY <1>13, <2>1, SlotFacts DEF Finish, Unmoved
    <2>3. CASE status[j] = "cancelled"
      <3>1. UNCHANGED <<status, version>>
        BY <1>13, <2>1, <2>3 DEF Finish, jobVars
      <3>. QED
        BY <2>1, <2>2, <2>3, <3>1, LateFinish
    <2>4. CASE status[j] # "cancelled"
      <3>1. status[j] = "running" /\ version[j] = exec[e].claim /\ lease[j] = NoLease
        BY <2>1, <2>2, <2>4 DEF RunnerOwns
      <3>2. Transition({j}, TargetOf(exec[e].outcome))
        BY <1>13, <2>1, <2>4 DEF Finish
      <3>3. lease' = [lease EXCEPT ![j] = NoLease]
        BY <2>2, <3>1 DEF TypeOK
      <3>4. /\ status'[j] = TargetOf(exec[e].outcome)
            /\ version'[j] = version[j] + 1
            /\ \A k \in Jobs \ {j} : status'[k] = status[k] /\ version'[k] = version[k]
        BY <3>2, MoveOne
      <3>. QED
        BY <2>1, <2>2, <3>1, <3>3, <3>4, RunEnds
    <2>. QED
      BY <2>3, <2>4
  <1>. QED
    BY <1>2, <1>3, <1>4, <1>5, <1>8, <1>9, <1>10, <1>11, <1>12, <1>13 DEF Execution

\* Every step keeps it.
LEMMA InvStep ==
    ASSUME IInv, [Next]_vars
    PROVE  IInv'
  <1>. USE DEF IInv
  <1>1. TypeOK'
    BY TypeStep
  <1>2. ASSUME NEW j \in Jobs, Submission(j) \/ Cancellation(j) PROVE IInv'
    BY <1>1, <1>2, InvSubmissionCancellation
  <1>3. ASSUME NEW j \in Jobs, Tick(j) PROVE IInv'
    <2>1. lease[j].ticks - 1 \in 0 .. LeaseTicks /\ lease[j] # NoLease
      BY <1>3, LeaseAssumption DEF TypeOK, Tick, LeaseRow
    <2>2. lease' = [lease EXCEPT ![j] = [claim |-> lease[j].claim,
                                       attempt |-> lease[j].attempt,
                                       ticks |-> lease[j].ticks - 1]]
      BY <1>3, <2>1, LeaseUpdate DEF Tick
    <2>3. \A k \in Jobs : /\ lease'[k] = NoLease <=> lease[k] = NoLease
                          /\ lease'[k].claim = lease[k].claim
      BY <2>1, <2>2 DEF TypeOK, LeaseRow, NoLease
    <2>. QED
      BY <1>1, <1>3, <2>3, SlotMoves DEF Tick, jobVars
  <1>4. ASSUME NEW j \in Jobs, BecomeEligible(j) PROVE IInv'
    BY <1>1, <1>4, SlotMoves DEF BecomeEligible, jobVars
  <1>5. ASSUME NEW e \in Executors, Execution(e) PROVE IInv'
    BY <1>1, <1>5, InvExecution
  <1>6. ASSUME NEW e \in Executors, Heartbeat(e) PROVE IInv'
    <2>1. PICK j \in Jobs : j = exec[e].job
      BY <1>6, SlotFacts DEF Heartbeat
    <2>2. LeaseTicks \in 0 .. LeaseTicks
      BY LeaseAssumption
    <2>3. lease[j] # NoLease /\ lease' = [lease EXCEPT ![j].ticks = LeaseTicks]
      BY <1>6, <2>1, Zenon DEF Heartbeat, LeaseValid
    <2>4. lease' = [lease EXCEPT ![j] = [claim |-> lease[j].claim,
                                       attempt |-> lease[j].attempt,
                                       ticks |-> LeaseTicks]]
      BY <2>2, <2>3, LeaseUpdate
    <2>5. \A k \in Jobs : /\ lease'[k] = NoLease <=> lease[k] = NoLease
                          /\ lease'[k].claim = lease[k].claim
      BY <2>3, <2>4 DEF TypeOK, LeaseRow, NoLease
    <2>. QED
      BY <1>1, <1>6, <2>5, SlotMoves DEF Heartbeat, jobVars
  <1>7. ASSUME NEW e \in Executors, Crash(e) \/ AbandonAtShutdown(e) PROVE IInv'
    <2>1. Idle.phase # "completing" /\ Idle \notin Holding
      BY DEF Idle, Holding
    <2>. QED
      BY <1>1, <1>7, <2>1, SlotReplaced DEF Crash, AbandonAtShutdown, jobVars
  <1>8. ASSUME NEW j \in Jobs, NEW c \in procs[j], OrphanExits(j, c) PROVE IInv'
    BY <1>1, <1>8, SlotMoves DEF OrphanExits, jobVars
  <1>9. CASE Reap
    BY <1>1, <1>9, ReapMoves
  <1>10. CASE UNCHANGED vars
    BY <1>1, <1>10, SlotMoves DEF vars, jobVars
  <1>. QED
    BY <1>2, <1>3, <1>4, <1>5, <1>6, <1>7, <1>8, <1>9, <1>10 DEF Next

\* The invariant holds in every reachable state, whatever the constants.
THEOREM Invariance == Spec => []IInv
  <1>1. Init => IInv
    BY InvInit
  <1>2. IInv /\ [Next]_vars => IInv'
    BY InvStep
  <1>. QED
    BY <1>1, <1>2, PTL DEF Spec

-----------------------------------------------------------------------------
(* The theorems                                                                *)

\* The columns, the slots and the rows never leave their types.
THEOREM TypeCorrect == Spec => []TypeOK
  <1>1. IInv => TypeOK
    BY DEF IInv
  <1>. QED
    BY <1>1, Invariance, PTL

\* A lease row is left behind by a cancellation only (LeaseRepository, whose
\* primary key is the job): the INSERT of a claim never meets an old row.
THEOREM NoStrayLease == Spec => []StrayLeaseOnlyAfterCancel
  <1>1. IInv => StrayLeaseOnlyAfterCancel
    BY DEF IInv
  <1>. QED
    BY <1>1, Invariance, PTL

\* At most one executor's result can be accepted for a job at any time: the
\* lease checks of WorkerDaemon._complete and the status check of _finish
\* exclude each other for any number of workers, operators and jobs.
THEOREM SingleOwner == Spec => []OneOwner
  <1>1. IInv => OneOwner
    <2>1. ASSUME IInv, NEW j \in Jobs, NEW e \in Executors, NEW f \in Executors,
                 MayComplete(e, j), MayComplete(f, j)
          PROVE  e = f
      <3>1. ASSUME NEW g \in Executors, MayComplete(g, j)
            PROVE  exec[g].claim = version[j]
        <4>1. CASE g \in Workers
          BY <2>1, <3>1, <4>1 DEF IInv, MayComplete, Holds, LeaseValid, LeaseOfThisRun
        <4>2. CASE g \in Runners
          BY <2>1, <3>1, <4>2 DEF IInv, MayComplete, Holds, RunnerOwns
        <4>. QED
          BY <4>1, <4>2 DEF Executors
      <3>2. exec[e].claim = exec[f].claim
        BY <2>1, <3>1
      <3>. QED
        BY <2>1, <3>2 DEF IInv, ClaimsDiffer, MayComplete, Holds
    <2>. QED
      BY <2>1 DEF OneOwner
  <1>. QED
    BY <1>1, Invariance, PTL

\* The result kept with a success or a timeout is the current claim's
\* (store_execution_result), however late other executors report.
THEOREM ResultIsCurrent == Spec => []FinishedResultIsCurrent
  <1>1. IInv => FinishedResultIsCurrent
    BY DEF IInv
  <1>. QED
    BY <1>1, Invariance, PTL

-----------------------------------------------------------------------------
(* The job table implements JobLifecycle                                       *)

\* The mapped variables of one job.
Ph(j) == PhaseOf(status[j])
Out(j) == result[j].claim

\* The mapped state is in the types of the abstract specification.
LEMMA MappedTypes ==
    ASSUME TypeOK, NEW j \in Jobs
    PROVE  /\ Ph(j) \in {"absent", "waiting", "held", "finished"}
           /\ version[j] \in Nat
           /\ Out(j) \in Nat
  BY DEF TypeOK, Ph, PhaseOf, Out, Result

\* One abstract step of one job, spelled out over the mapped variables.
MappedStep(j) ==
    \/ Ph(j)' = Ph(j) /\ version'[j] = version[j] /\ Out(j)' = Out(j)
    \/ /\ Ph(j) \in {"absent", "waiting"} /\ Ph(j)' = "waiting"
       /\ version'[j] > version[j] /\ Out(j)' = Out(j)
    \/ /\ Ph(j) = "waiting" /\ Ph(j)' = "held"
       /\ version'[j] = version[j] + 1 /\ Out(j)' = Out(j)
    \/ /\ Ph(j) = "held" /\ Ph(j)' = "waiting"
       /\ version'[j] = version[j] + 1 /\ Out(j)' \in {Out(j), version[j]}
    \/ /\ Ph(j) \in {"waiting", "held"} /\ Ph(j)' = "finished"
       /\ version'[j] = version[j] + 1
       /\ Out(j)' = Out(j) \/ (Ph(j) = "held" /\ Out(j)' = version[j])
    \/ /\ Ph(j) = "finished" /\ Ph(j)' = "finished"
       /\ version'[j] = version[j] /\ Out(j)' + 1 = version[j]

\* The abstract step is the instance's.
LEMMA MappedStepIsStep ==
    ASSUME TypeOK, TypeOK', \A j \in Jobs : MappedStep(j)
    PROVE  Lifecycle!Next
  <1>1. /\ [j \in Jobs |-> PhaseOf(status[j])]' \in [Jobs -> {"absent", "waiting", "held", "finished"}]
        /\ version' \in [Jobs -> Nat]
        /\ [j \in Jobs |-> result[j].claim]' \in [Jobs -> Nat]
    BY DEF TypeOK, PhaseOf, Result
  <1>2. ASSUME NEW j \in Jobs PROVE Lifecycle!JobStep(j)
    BY <1>2 DEF MappedStep, Ph, Out, Lifecycle!JobStep, Lifecycle!Keep, Lifecycle!Admit,
             Lifecycle!Take, Lifecycle!Return, Lifecycle!Finish, Lifecycle!LateReport
  <1>. QED
    BY <1>1, <1>2 DEF Lifecycle!Next, Lifecycle!Phase

\* A step that touches no status, version or result keeps every job.
LEMMA KeepsAll ==
    ASSUME UNCHANGED <<status, version, result>>
    PROVE  \A j \in Jobs : MappedStep(j)
  BY DEF MappedStep, Ph, Out

\* A row that moves without its result being touched makes a step when its move
\* is one of the transition table's.
LEMMA MovesOneRow ==
    ASSUME TypeOK, UNCHANGED result, NEW j \in Jobs, NEW to \in Status \ {"new", "pending"},
           to \in ValidTransitions[status[j]],
           status'[j] = to, version'[j] = version[j] + 1
    PROVE  MappedStep(j)
  <1>1. version[j] \in Nat /\ status[j] \in Status
    BY DEF TypeOK
  <1>. QED
    BY <1>1 DEF MappedStep, Ph, Out, PhaseOf, Status, ValidTransitions

\* A row keeps its place when its columns are kept.
LEMMA KeepsOne ==
    ASSUME NEW j \in Jobs, status'[j] = status[j], version'[j] = version[j],
           result'[j] = result[j]
    PROVE  MappedStep(j)
  BY DEF MappedStep, Ph, Out

\* A step that moves one job along the transition table is a step of the lifecycle.
LEMMA MovesOneJob ==
    ASSUME TypeOK, UNCHANGED result, NEW j \in Jobs, NEW to \in Status \ {"new", "pending"},
           Transition({j}, to)
    PROVE  \A k \in Jobs : MappedStep(k)
  <1>1. MappedStep(j)
    BY MoveOne, MovesOneRow
  <1>2. ASSUME NEW k \in Jobs \ {j} PROVE MappedStep(k)
    BY MoveOne, KeepsOne
  <1>. QED
    BY <1>1, <1>2

\* The end of a run stores the result of the claim that ends.
LEMMA EndsOneJob ==
    ASSUME TypeOK, NEW e \in Executors, NEW j \in Jobs, NEW to \in Status,
           exec[e].phase = "completing", exec[e].job = j,
           status[j] = "running", version[j] = exec[e].claim,
           Transition({j}, to), to \in {"queued", "succeeded", "failed", "timed_out"},
           StoreResult(e, j)
    PROVE  \A k \in Jobs : MappedStep(k)
  <1>1. /\ status'[j] = to /\ version[j] \in Nat /\ version'[j] = version[j] + 1
        /\ \A k \in Jobs \ {j} : status'[k] = status[k] /\ version'[k] = version[k]
    BY MoveOne
  <1>2. /\ result'[j].claim = version[j]
        /\ \A k \in Jobs \ {j} : result'[k] = result[k]
    BY DEF TypeOK, StoreResult
  <1>3. MappedStep(j)
    BY <1>1, <1>2 DEF MappedStep, Ph, Out, PhaseOf
  <1>4. ASSUME NEW k \in Jobs \ {j} PROVE MappedStep(k)
    BY <1>1, <1>2, KeepsOne
  <1>. QED
    BY <1>3, <1>4

\* Every step of the detailed specification is a step of the lifecycle or a stutter.
LEMMA StepRefines ==
    ASSUME IInv, [Next]_vars
    PROVE  \A k \in Jobs : MappedStep(k)
  <1>. USE DEF IInv
  <1>1. ASSUME NEW j \in Jobs, Create(j) \/ EnqueueMarketplace(j)
        PROVE  \A k \in Jobs : MappedStep(k)
    <2>1. /\ status[j] = "new" /\ version[j] = 0 /\ version'[j] \in {1, 2}
          /\ status'[j] \in {"pending", "queued"}
          /\ UNCHANGED result
          /\ \A k \in Jobs \ {j} : status'[k] = status[k] /\ version'[k] = version[k]
      BY <1>1 DEF TypeOK, Create, EnqueueMarketplace, NewIsUntouched
    <2>2. MappedStep(j)
      BY <2>1 DEF MappedStep, Ph, Out, PhaseOf
    <2>3. ASSUME NEW k \in Jobs \ {j} PROVE MappedStep(k)
      BY <2>1, KeepsOne
    <2>. QED
      BY <2>2, <2>3
  <1>2. ASSUME NEW j \in Jobs, NEW to \in {"queued", "failed"}, Route(j, to)
        PROVE  \A k \in Jobs : MappedStep(k)
    <2>1. CASE to \in ValidTransitions[status[j]]
      <3>1. Transition({j}, to) /\ UNCHANGED result /\ to \in Status \ {"new", "pending"}
        BY <1>2, <2>1 DEF Route, Status
      <3>. QED
        BY <3>1, MovesOneJob
    <2>2. CASE to \notin ValidTransitions[status[j]]
      BY <1>2, <2>2, KeepsAll DEF Route, jobVars
    <2>. QED
      BY <2>1, <2>2
  <1>3. ASSUME NEW j \in Jobs, CancelCommit(j) PROVE \A k \in Jobs : MappedStep(k)
    <2>1. /\ Transition({j}, "cancelled")
          /\ UNCHANGED result
          /\ "cancelled" \in Status \ {"new", "pending"}
      BY <1>3 DEF CancelCommit, Status
    <2>. QED
      BY <2>1, MovesOneJob
  <1>4. ASSUME NEW e \in Executors, Claim(e) \/ RunNext(e)
        PROVE  \A k \in Jobs : MappedStep(k)
    <2>1. exec[e].job \in Jobs
      BY <1>4, SlotFacts DEF Claim, RunNext
    <2>2. /\ Transition({exec[e].job}, "running")
          /\ UNCHANGED result
          /\ "running" \in Status \ {"new", "pending"}
      BY <1>4 DEF Claim, RunNext, TakeJob, Status
    <2>. QED
      BY <2>1, <2>2, MovesOneJob
  <1>5. ASSUME NEW e \in Executors, Complete(e) PROVE \A k \in Jobs : MappedStep(k)
    <2>1. PICK j \in Jobs : j = exec[e].job
      BY <1>5, SlotFacts DEF Complete
    <2>. DEFINE to == IF WillRetry(e, j) THEN "queued" ELSE TargetOf(exec[e].outcome)
    <2>2. /\ exec[e].phase = "completing"
          /\ exec[e].outcome \in Outcome
          /\ status[j] = "running" /\ exec[e].seen = version[j]
          /\ StoreResult(e, j)
          /\ Transition({j}, to)
      BY <1>5, <2>1, SlotFacts DEF Complete, CompletionValid, Unmoved
    <2>3. to \in {"queued", "succeeded", "failed", "timed_out"} /\ to \in Status
      BY <2>2 DEF TargetOf, Outcome, Status
    <2>4. version[j] = exec[e].claim
      BY <2>1, <2>2 DEF CompletesThisRun
    <2>. HIDE DEF to
    <2>. QED
      BY <2>1, <2>2, <2>3, <2>4, EndsOneJob
  <1>6. ASSUME NEW e \in Executors, Finish(e) PROVE \A k \in Jobs : MappedStep(k)
    <2>1. PICK j \in Jobs : j = exec[e].job
      BY <1>6, SlotFacts DEF Finish
    <2>2. /\ exec[e].phase = "completing"
          /\ exec[e] \in Holding
          /\ exec[e].claim \in Nat
          /\ exec[e].outcome \in Outcome
          /\ exec[e].seen = version[j] /\ e \in Runners
          /\ StoreResult(e, j)
      BY <1>6, <2>1, SlotFacts DEF Finish, Unmoved
    <2>3. CASE status[j] = "cancelled"
      <3>1. UNCHANGED <<status, version>>
        BY <1>6, <2>1, <2>3 DEF Finish, jobVars
      <3>2. /\ result'[j].claim = exec[e].claim
            /\ \A k \in Jobs \ {j} : result'[k] = result[k]
        BY <2>2 DEF TypeOK, StoreResult
      <3>3. version[j] = exec[e].claim + 1
        BY <2>1, <2>2, <2>3 DEF RunnerOwns
      <3>4. MappedStep(j)
        BY <2>3, <3>1, <3>2, <3>3 DEF MappedStep, Ph, Out, PhaseOf
      <3>5. ASSUME NEW k \in Jobs \ {j} PROVE MappedStep(k)
        BY <3>1, <3>2, KeepsOne
      <3>. QED
        BY <3>4, <3>5
    <2>4. CASE status[j] # "cancelled"
      <3>1. status[j] = "running" /\ version[j] = exec[e].claim
        BY <2>1, <2>2, <2>4 DEF RunnerOwns
      <3>2. Transition({j}, TargetOf(exec[e].outcome))
        BY <1>6, <2>1, <2>4 DEF Finish
      <3>3. /\ TargetOf(exec[e].outcome) \in {"queued", "succeeded", "failed", "timed_out"}
            /\ TargetOf(exec[e].outcome) \in Status
        BY <2>2 DEF TargetOf, Outcome, Status
      <3>. QED
        BY <2>1, <2>2, <3>1, <3>2, <3>3, EndsOneJob
    <2>. QED
      BY <2>3, <2>4
  <1>7. CASE Reap
    <2>. DEFINE to == IF RecoveryPolicy = "fail" THEN "failed" ELSE "queued"
    <2>1. Transition(Reapable, to) /\ UNCHANGED result /\ Reapable \in SUBSET Jobs
      BY <1>7 DEF Reap, Reapable
    <2>2. to \in Status \ {"new", "pending"}
      BY DEF Status
    <2>. HIDE DEF to
    <2>3. ASSUME NEW k \in Reapable PROVE MappedStep(k)
      BY <2>1, <2>2, TransitionFrom, MovesOneRow
    <2>4. ASSUME NEW k \in Jobs \ Reapable PROVE MappedStep(k)
      BY <2>1, TransitionFrom, KeepsOne
    <2>. QED
      BY <2>3, <2>4
  <1>8. ASSUME NEW j \in Jobs,
               \/ SubmitterCrash(j) \/ CancelRead(j) \/ CancelStale(j)
               \/ CancelSignal(j) \/ CancellerCrash(j) \/ Tick(j) \/ BecomeEligible(j)
        PROVE  \A k \in Jobs : MappedStep(k)
    BY <1>8, KeepsAll DEF SubmitterCrash, CancelRead, CancelStale, CancelSignal, CancellerCrash,
                          Tick, BecomeEligible, jobVars
  <1>9. ASSUME NEW e \in Executors,
               \/ \E j \in Jobs : Select(e, j)
               \/ ClaimLost(e) \/ Spawn(e) \/ Started(e)
               \/ \E o \in Outcome : EndWithoutProcess(e, o) \/ ProcessEnds(e, o)
               \/ ReadForCompletion(e) \/ CompletionRollsBack(e)
               \/ Heartbeat(e) \/ Crash(e) \/ AbandonAtShutdown(e)
        PROVE  \A k \in Jobs : MappedStep(k)
    <2>1. UNCHANGED <<status, version, result>>
      BY <1>9 DEF Select, ClaimLost, Spawn, Started, EndWithoutProcess, ProcessEnds,
                  ReadForCompletion, CompletionRollsBack, Heartbeat, Crash,
                  AbandonAtShutdown, jobVars
    <2>. QED
      BY <2>1, KeepsAll
  <1>10. ASSUME NEW j \in Jobs, NEW c \in procs[j], OrphanExits(j, c)
         PROVE  \A k \in Jobs : MappedStep(k)
    BY <1>10, KeepsAll DEF OrphanExits, jobVars
  <1>11. CASE UNCHANGED vars
    BY <1>11, KeepsAll DEF vars, jobVars
  <1>. QED
    BY <1>1, <1>2, <1>3, <1>4, <1>5, <1>6, <1>7, <1>8, <1>9, <1>10, <1>11
       DEF Next, Submission, Cancellation, Execution

\* The detailed specification implements the abstract one: whatever submitters,
\* executors, cancellers, the reaper and crashes do, a job is held by one claim
\* after another, ends once, and shows the result of the claim that ended it.
THEOREM Implements == Spec => ImplementsLifecycle
  <1>1. Init => Lifecycle!Init
    BY DEF Init, NoResult, Lifecycle!Init, PhaseOf
  <1>2. IInv /\ IInv' /\ [Next]_vars => [Lifecycle!Next]_Lifecycle!vars
    <2>1. ASSUME IInv, IInv', [Next]_vars PROVE Lifecycle!Next
      BY <2>1, StepRefines, MappedStepIsStep DEF IInv
    <2>. QED
      BY <2>1
  <1>. QED
    BY <1>1, <1>2, Invariance, PTL DEF Spec, ImplementsLifecycle, Lifecycle!Spec

-----------------------------------------------------------------------------
(* The attempt rows                                                            *)

\* The attempt numbers of a job whose row has a status.
WithStatus(j, s) == {n \in DOMAIN attempts[j] : attempts[j][n] = s}

\* One job's lease belongs to its last attempt row, which is open; its failed
\* attempts were retried, but for the one that failed it; and its open rows are
\* those of its lease and of the recoveries.
JobRows(j) ==
    /\ lease[j] # NoLease =>
          lease[j].attempt = Len(attempts[j]) /\ attempts[j][lease[j].attempt] = "running"
    /\ \A n \in WithStatus(j, "failed") :
          n < RetryMaxAttempts \/ (status[j] = "failed" /\ n = Len(attempts[j]))
    /\ Cardinality(WithStatus(j, "running")) = recoveries[j] + IF lease[j] = NoLease THEN 0 ELSE 1

AInv == \A j \in Jobs : JobRows(j)

\* There are finitely many attempt rows.
LEMMA RowsFinite ==
    ASSUME TypeOK, NEW j \in Jobs, NEW s
    PROVE  /\ DOMAIN attempts[j] = 1 .. Len(attempts[j]) /\ Len(attempts[j]) \in Nat
           /\ IsFiniteSet(WithStatus(j, s)) /\ Cardinality(WithStatus(j, s)) \in Nat
  <1>1. DOMAIN attempts[j] = 1 .. Len(attempts[j]) /\ Len(attempts[j]) \in Nat
    BY LenProperties DEF TypeOK
  <1>2. IsFiniteSet(1 .. Len(attempts[j]))
    BY <1>1, FS_Interval
  <1>3. WithStatus(j, s) \in SUBSET (1 .. Len(attempts[j]))
    BY <1>1 DEF WithStatus
  <1>. QED
    BY <1>1, <1>2, <1>3, FS_Subset, FS_CardinalityType

\* A failed job stays failed: no transition leaves that status.
LEMMA FailedStays ==
    ASSUME TypeOK, [Next]_vars, NEW j \in Jobs, status[j] = "failed"
    PROVE  status'[j] = "failed"
  <1>0. \A to : to \notin ValidTransitions["failed"]
    BY DEF ValidTransitions, Status
  <1>1. ASSUME NEW D \in SUBSET Jobs, NEW to, Transition(D, to)
        PROVE  status'[j] = "failed"
    BY <1>0, <1>1, TransitionFrom
  <1>2. ASSUME NEW k \in Jobs, Submission(k) \/ Cancellation(k)
        PROVE  status'[j] = "failed"
    BY <1>1, <1>2 DEF Submission, Cancellation, Create, Route, EnqueueMarketplace,
       SubmitterCrash, CancelRead, CancelCommit, CancelStale, CancelSignal, CancellerCrash,
       jobVars, TypeOK
  <1>3. ASSUME NEW e \in Executors, Execution(e) PROVE status'[j] = "failed"
    <2>1. CASE Claim(e) \/ RunNext(e)
      <3>1. exec[e].job \in Jobs /\ Transition({exec[e].job}, "running")
        BY <2>1, SlotFacts DEF Claim, RunNext, TakeJob
      <3>. QED
        BY <1>1, <3>1
    <2>2. CASE Complete(e)
      <3>1. exec[e].job \in Jobs /\ \E to : Transition({exec[e].job}, to)
        BY <2>2, SlotFacts DEF Complete
      <3>. QED
        BY <1>1, <3>1
    <2>3. CASE Finish(e)
      <3>1. exec[e].job \in Jobs
        BY <2>3, SlotFacts DEF Finish
      <3>2. UNCHANGED status \/ \E to : Transition({exec[e].job}, to)
        BY <2>3 DEF Finish, jobVars
      <3>. QED
        BY <1>1, <3>1, <3>2
    <2>. QED
      BY <1>3, <2>1, <2>2, <2>3 DEF Execution, Select, ClaimLost, Spawn, Started,
         EndWithoutProcess, ProcessEnds, ReadForCompletion, CompletionRollsBack, jobVars
  <1>4. CASE Reap
    <2>1. Reapable \in SUBSET Jobs
      BY DEF Reapable
    <2>. QED
      BY <1>1, <1>4, <2>1 DEF Reap
  <1>. QED
    BY <1>2, <1>3, <1>4 DEF Next, Tick, BecomeEligible, Heartbeat, Crash, AbandonAtShutdown,
       OrphanExits, jobVars, vars

\* The rows and the lease of a job are as they were.
RowsAsWere(j) ==
    /\ attempts'[j] = attempts[j]
    /\ recoveries'[j] = recoveries[j]
    /\ lease'[j] = NoLease <=> lease[j] = NoLease
    /\ lease'[j].attempt = lease[j].attempt

\* Claiming, completing and reaping apart, no step touches them.
LEMMA RowsUntouched ==
    ASSUME TypeOK, [Next]_vars, ~Reap,
           \A e \in Executors : ~Claim(e) /\ ~Complete(e)
    PROVE  \A j \in Jobs : RowsAsWere(j)
  <1>1. ASSUME NEW j \in Jobs, NEW t \in 0 .. LeaseTicks, lease[j] # NoLease,
               lease' = [lease EXCEPT ![j].ticks = t], UNCHANGED <<attempts, recoveries>>
        PROVE  \A k \in Jobs : RowsAsWere(k)
    <2>1. lease' = [lease EXCEPT ![j] = [claim |-> lease[j].claim,
                                       attempt |-> lease[j].attempt, ticks |-> t]]
      BY <1>1, LeaseUpdate
    <2>2. lease[j].attempt \in Nat \ {0}
      BY <1>1 DEF TypeOK, LeaseRow
    <2>3. lease'[j].attempt = lease[j].attempt /\ \A k \in Jobs \ {j} : lease'[k] = lease[k]
      BY <2>1 DEF TypeOK
    <2>4. lease'[j] # NoLease
      BY <2>2, <2>3 DEF NoLease
    <2>. QED
      BY <1>1, <2>3, <2>4 DEF RowsAsWere
  <1>2. ASSUME NEW j \in Jobs, Tick(j) PROVE \A k \in Jobs : RowsAsWere(k)
    <2>1. lease[j].ticks - 1 \in 0 .. LeaseTicks
      BY <1>2, LeaseAssumption DEF TypeOK, Tick, LeaseRow
    <2>2. lease[j] # NoLease /\ UNCHANGED <<attempts, recoveries>>
      BY <1>2 DEF Tick
    <2>3. lease' = [lease EXCEPT ![j].ticks = lease[j].ticks - 1]
      BY <1>2 DEF Tick
    <2>. QED
      BY <1>1, <2>1, <2>2, <2>3
  <1>3. ASSUME NEW e \in Executors, Heartbeat(e) PROVE \A k \in Jobs : RowsAsWere(k)
    <2>1. exec[e].job \in Jobs
      BY <1>3, SlotFacts DEF Heartbeat
    <2>2. LeaseTicks \in 0 .. LeaseTicks
      BY LeaseAssumption
    <2>3. lease[exec[e].job] # NoLease
      BY <1>3, Zenon DEF Heartbeat, LeaseValid
    <2>4. lease' = [lease EXCEPT ![exec[e].job].ticks = LeaseTicks]
          /\ UNCHANGED <<attempts, recoveries>>
      BY <1>3 DEF Heartbeat
    <2>. QED
      BY <1>1, <2>1, <2>2, <2>3, <2>4
  <1>4. ASSUME UNCHANGED <<attempts, recoveries, lease>> PROVE \A k \in Jobs : RowsAsWere(k)
    BY <1>4 DEF RowsAsWere
  <1>. QED
    BY <1>2, <1>3, <1>4 DEF Next, Submission, Cancellation, Execution, Create, Route,
       EnqueueMarketplace, SubmitterCrash, CancelRead, CancelCommit, CancelStale, CancelSignal,
       CancellerCrash, Select, ClaimLost, RunNext, Spawn, Started, EndWithoutProcess,
       ProcessEnds, ReadForCompletion, CompletionRollsBack, Finish, BecomeEligible, Crash,
       AbandonAtShutdown, OrphanExits, jobVars, vars

\* Rows and lease as they were.
LEMMA JobRowsKept ==
    ASSUME TypeOK, [Next]_vars, NEW j \in Jobs, JobRows(j), RowsAsWere(j)
    PROVE  JobRows(j)'
  <1>1. status[j] = "failed" => status'[j] = "failed"
    BY FailedStays
  <1>2. WithStatus(j, "failed")' = WithStatus(j, "failed")
        /\ WithStatus(j, "running")' = WithStatus(j, "running")
    BY DEF RowsAsWere, WithStatus
  <1>. QED
    BY <1>1, <1>2 DEF JobRows, RowsAsWere

\* A claim opens a row and a lease for it.
LEMMA ClaimOpens ==
    ASSUME IInv, TypeOK', NEW e \in Executors, NEW j \in Jobs, j = exec[e].job, Claim(e), JobRows(j)
    PROVE  JobRows(j)'
  <1>. DEFINE n == Len(attempts[j]) + 1
              s == attempts[j]
  <1>1. /\ s \in Seq(AttemptStatus) /\ n \in Nat \ {0}
        /\ DOMAIN s = 1 .. Len(s)
        /\ "running" \in AttemptStatus
    BY RowsFinite DEF TypeOK, AttemptStatus, IInv
  <1>2. /\ attempts'[j] = Append(s, "running")
        /\ lease[j] = NoLease
        /\ lease'[j] # NoLease /\ lease'[j].attempt = n
        /\ recoveries'[j] = recoveries[j]
    <2>1. [claim |-> version[j] + 1, attempt |-> n, ticks |-> LeaseTicks] # NoLease
      BY <1>1 DEF NoLease
    <2>. QED
      BY <2>1 DEF Claim, OpenAttempt, IInv, TypeOK
  <1>3. /\ Len(Append(s, "running")) = n
        /\ DOMAIN Append(s, "running") = 1 .. n
        /\ \A i \in 1 .. Len(s) : Append(s, "running")[i] = s[i]
        /\ Append(s, "running")[n] = "running"
    BY <1>1, AppendProperties, LenProperties
  <1>4. WithStatus(j, "running")' = WithStatus(j, "running") \cup {n} /\ n \notin WithStatus(j, "running")
    BY SMTT(30), <1>1, <1>2, <1>3 DEF WithStatus
  <1>5. WithStatus(j, "failed")' = WithStatus(j, "failed")
    BY <1>1, <1>2, <1>3 DEF WithStatus
  <1>6. status[j] = "queued"
    <2>1. Transition({j}, "running")
      BY DEF Claim, TakeJob
    <2>. QED
      BY <2>1, MoveOne, WhereFrom DEF IInv
  <1>7. Cardinality(WithStatus(j, "running")') = Cardinality(WithStatus(j, "running")) + 1
    BY <1>4, RowsFinite, FS_AddElement DEF IInv
  <1>8. recoveries[j] \in Nat
    BY DEF IInv, TypeOK
  <1>. HIDE DEF n, s
  <1>9. lease'[j].attempt = Len(attempts'[j]) /\ attempts'[j][lease'[j].attempt] = "running"
    BY <1>2, <1>3 DEF s, n
  <1>10. \A i \in WithStatus(j, "failed") : i < RetryMaxAttempts
    BY <1>6 DEF JobRows
  <1>. QED
    BY <1>2, <1>5, <1>7, <1>8, <1>9, <1>10 DEF JobRows

\* A completion closes the row of the lease and drops the lease; a failure that
\* is the last one the policy allows fails the job.
LEMMA CompleteCloses ==
    ASSUME IInv, TypeOK', NEW e \in Executors, NEW j \in Jobs, j = exec[e].job, Complete(e), JobRows(j)
    PROVE  JobRows(j)'
  <1>. DEFINE t == TargetOf(exec[e].outcome)
              s == attempts[j]
  <1>1. /\ exec[e].phase = "completing" /\ status[j] = "running" /\ lease[j].ticks > 0
        /\ exec[e].outcome \in Outcome
    BY SlotFacts DEF Complete, CompletionValid, IInv
  <1>2. lease[j] # NoLease
    BY <1>1 DEF NoLease
  <1>3. /\ s \in Seq(AttemptStatus) /\ DOMAIN s = 1 .. Len(s) /\ Len(s) \in Nat
        /\ lease[j].attempt \in Nat \ {0}
        /\ lease[j].attempt = Len(s) /\ s[Len(s)] = "running"
    BY <1>2, RowsFinite DEF IInv, TypeOK, LeaseRow, JobRows
  <1>. DEFINE n == Len(s)
  <1>4. t \in AttemptStatus /\ t # "running"
    BY <1>1 DEF TargetOf, Outcome, AttemptStatus
  <1>5. /\ attempts'[j] = [s EXCEPT ![n] = t]
        /\ lease'[j] = NoLease
        /\ recoveries'[j] = recoveries[j]
    BY <1>3 DEF Complete, CloseAttempt, IInv, TypeOK
  <1>6. /\ Len(attempts'[j]) = n /\ DOMAIN attempts'[j] = 1 .. n
        /\ \A i \in 1 .. n : attempts'[j][i] = IF i = n THEN t ELSE s[i]
    <2>1. n \in 1 .. Len(s)
      BY <1>3
    <2>2. /\ [s EXCEPT ![n] = t] \in Seq(AttemptStatus)
          /\ Len([s EXCEPT ![n] = t]) = Len(s)
          /\ \A i \in 1 .. Len(s) : [s EXCEPT ![n] = t][i] = IF i = n THEN t ELSE s[i]
      BY <1>3, <1>4, <2>1, ExceptSeq
    <2>. QED
      BY <1>3, <1>5, <2>2, LenProperties
  <1>. HIDE DEF t
  <1>7. WithStatus(j, "running")' = WithStatus(j, "running") \ {n} /\ n \in WithStatus(j, "running")
    BY <1>3, <1>4, <1>6 DEF WithStatus
  <1>8. Cardinality(WithStatus(j, "running")') = Cardinality(WithStatus(j, "running")) - 1
    BY <1>7, RowsFinite, FS_RemoveElement DEF IInv
  <1>9. \A i \in WithStatus(j, "failed")' :
            i < RetryMaxAttempts \/ (status'[j] = "failed" /\ i = Len(attempts'[j]))
    <2>1. ASSUME NEW i \in WithStatus(j, "failed")', i # n PROVE i < RetryMaxAttempts
      BY <1>1, <1>3, <1>6, <2>1 DEF WithStatus, JobRows
    <2>2. ASSUME n \in WithStatus(j, "failed")'
          PROVE  n < RetryMaxAttempts \/ (status'[j] = "failed" /\ n = Len(attempts'[j]))
      <3>1. t = "failed"
        BY <1>3, <1>6, <2>2 DEF WithStatus
      <3>2. CASE WillRetry(e, j)
        BY <1>3, <3>2 DEF WillRetry
      <3>3. CASE ~WillRetry(e, j)
        <4>1. Transition({j}, "failed")
          BY <3>1, <3>3 DEF Complete, t
        <4>2. status'[j] = "failed"
          BY <4>1, MoveOne DEF IInv
        <4>. QED
          BY <1>6, <4>2
      <3>. QED
        BY <3>2, <3>3
    <2>. QED
      BY <2>1, <2>2
  <1>10. recoveries[j] \in Nat
    BY DEF IInv, TypeOK
  <1>. QED
    BY <1>2, <1>5, <1>8, <1>9, <1>10 DEF JobRows

\* The reaper drops the lease, leaves its row open and counts the recovery.
LEMMA ReapLeavesOpen ==
    ASSUME IInv, [Next]_vars, NEW j \in Jobs, Reap, JobRows(j)
    PROVE  JobRows(j)'
  <1>1. /\ attempts' = attempts
        /\ IF j \in Reapable THEN lease'[j] = NoLease /\ recoveries'[j] = recoveries[j] + 1
                             ELSE lease'[j] = lease[j] /\ recoveries'[j] = recoveries[j]
    BY DEF Reap, TakeBack
  <1>2. CASE j \notin Reapable
    <2>1. RowsAsWere(j)
      BY <1>1, <1>2 DEF RowsAsWere
    <2>. QED
      BY <2>1, JobRowsKept DEF IInv
  <1>3. CASE j \in Reapable
    <2>1. status[j] = "running" /\ lease[j] # NoLease /\ recoveries[j] \in Nat
      BY <1>3 DEF Reapable, IInv, TypeOK
    <2>2. WithStatus(j, "failed")' = WithStatus(j, "failed")
          /\ WithStatus(j, "running")' = WithStatus(j, "running")
      BY <1>1 DEF WithStatus
    <2>. QED
      BY <1>1, <1>3, <2>1, <2>2 DEF JobRows
  <1>. QED
    BY <1>2, <1>3

\* The rows of every job stay accounted for.
LEMMA AttemptStep ==
    ASSUME IInv, TypeOK', AInv, [Next]_vars
    PROVE  AInv'
  <1>0. TypeOK /\ \A j \in Jobs : JobRows(j)
    BY DEF IInv, AInv
  <1>1. ASSUME NEW e \in Executors, Claim(e) \/ Complete(e)
        PROVE  \A j \in Jobs : JobRows(j)'
    <2>1. PICK own \in Jobs : own = exec[e].job
      BY <1>0, <1>1, SlotFacts DEF Claim, Complete
    <2>2. JobRows(own)'
      BY <1>0, <1>1, <2>1, ClaimOpens, CompleteCloses
    <2>3. ASSUME NEW j \in Jobs, j # own PROVE JobRows(j)'
      <3>1. RowsAsWere(j)
        BY <1>0, <1>1, <2>1, <2>3 DEF RowsAsWere, Claim, OpenAttempt, Complete, CloseAttempt, TypeOK
      <3>. QED
        BY <1>0, <3>1, JobRowsKept
    <2>. QED
      BY <2>2, <2>3
  <1>2. CASE Reap
    BY <1>0, <1>2, ReapLeavesOpen DEF AInv
  <1>3. CASE ~Reap /\ \A e \in Executors : ~Claim(e) /\ ~Complete(e)
    BY <1>0, <1>3, RowsUntouched, JobRowsKept DEF AInv
  <1>. QED
    BY <1>1, <1>2, <1>3 DEF AInv

\* The account of the attempt rows holds in every reachable state.
LEMMA AttemptInvariance == Spec => []AInv
  <1>1. Init => AInv
    <2> SUFFICES ASSUME Init, NEW j \in Jobs PROVE JobRows(j)
      BY DEF AInv
    <2>1. attempts[j] = <<>> /\ lease[j] = NoLease /\ recoveries[j] = 0
      BY DEF Init
    <2>2. \A s : WithStatus(j, s) = {}
      BY <2>1 DEF WithStatus
    <2>3. Cardinality(WithStatus(j, "running")) = 0 /\ \A n \in WithStatus(j, "failed") : FALSE
      BY <2>2, FS_EmptySet
    <2>. QED
      BY <2>1, <2>3 DEF JobRows
  <1>2. IInv /\ IInv' /\ AInv /\ [Next]_vars => AInv'
    BY AttemptStep DEF IInv
  <1>. QED
    BY <1>1, <1>2, Invariance, PTL DEF Spec

\* However claims, retries, cancellations and recoveries interleave, every
\* attempt row left "running" is the live lease's or was taken back by the reaper.
THEOREM AttemptsAccounted == Spec => []AttemptAccounting
  <1>1. AInv => AttemptAccounting
    BY DEF AInv, JobRows, AttemptAccounting, WithStatus
  <1>. QED
    BY <1>1, AttemptInvariance, PTL

\* For every retry_max_attempts, and however retries mix with recoveries, no job
\* has more failed attempts than that.
THEOREM RetriesBounded == Spec => []RetryBudget
  <1>1. ASSUME IInv, AInv, NEW j \in Jobs
        PROVE  Cardinality(WithStatus(j, "failed")) <= RetryMaxAttempts
    <2>. DEFINE early == 1 .. (RetryMaxAttempts - 1)
                last == Len(attempts[j])
    <2>1. /\ RetryMaxAttempts \in Nat \ {0}
          /\ last \in Nat /\ DOMAIN attempts[j] = 1 .. last
      BY <1>1, RowsFinite, RetryAssumption DEF IInv
    <2>2. IsFiniteSet(early) /\ Cardinality(early) = RetryMaxAttempts - 1
      BY SMTT(30), <2>1, FS_Interval
    <2>3. /\ IsFiniteSet(early \cup {last})
          /\ Cardinality(early \cup {last}) <= RetryMaxAttempts
      <3>. HIDE DEF early, last
      <3>1. /\ IsFiniteSet(early \cup {last})
            /\ Cardinality(early \cup {last}) =
                  IF last \in early THEN Cardinality(early) ELSE Cardinality(early) + 1
        BY <2>2, FS_AddElement
      <3>. QED
        BY <2>1, <2>2, <3>1
    <2>4. WithStatus(j, "failed") \subseteq early \cup {last}
      <3>1. ASSUME NEW n \in WithStatus(j, "failed") PROVE n \in early \cup {last}
        <4>1. n \in 1 .. last
          BY <2>1, <3>1 DEF WithStatus
        <4>2. n < RetryMaxAttempts \/ n = last
          BY <1>1, <3>1 DEF AInv, JobRows
        <4>. QED
          BY <2>1, <4>1, <4>2
      <3>. QED
        BY <3>1
    <2>5. Cardinality(WithStatus(j, "failed")) <= Cardinality(early \cup {last})
      BY <2>3, <2>4, FS_Subset
    <2>6. Cardinality(early \cup {last}) \in Nat /\ Cardinality(WithStatus(j, "failed")) \in Nat
      BY <1>1, <2>3, RowsFinite, FS_CardinalityType DEF IInv
    <2>. HIDE DEF early, last
    <2>. QED
      BY <2>1, <2>3, <2>5, <2>6
  <1>2. IInv /\ AInv => RetryBudget
    BY <1>1 DEF RetryBudget, WithStatus
  <1>. QED
    BY <1>2, Invariance, AttemptInvariance, PTL

-----------------------------------------------------------------------------
(* Overlapping agent processes                                                 *)

\* The holders that have claimed the job and not started its process.
Starting(j) == {e \in Executors : exec[e].phase = "claimed" /\ exec[e].job = j}

\* The claims of the job that have a process, or whose holder may still start one.
Live(j) == procs[j] \cup {exec[e].claim : e \in Starting(j)}

\* Claim c of the job was taken back: it is neither the claim the job runs under
\* nor the one it was cancelled under.
TakenBack(j, c) ==
    /\ status[j] = "running" => c # version[j]
    /\ status[j] = "cancelled" => c # version[j] - 1

\* The live claims that were taken back.
Late(j) == {c \in Live(j) : TakenBack(j, c)}

\* A claim starts its process once: the process is not there before Spawn, nor
\* after its end was seen.
StartedOnce(e) ==
    /\ exec[e].phase \in {"claimed", "exited", "completing"} =>
          exec[e].claim \notin procs[exec[e].job]
    /\ exec[e] \in Holding => exec[e].claim # 0

\* Each claim that was taken back and lives on has cost a recovery.
LateRecovered(j) ==
    /\ procs[j] \subseteq 1 .. version[j]
    /\ Cardinality(Late(j)) <= recoveries[j]

Overlaps ==
    /\ \A e \in Executors : StartedOnce(e)
    /\ \A j \in Jobs : LateRecovered(j)

\* The live claims of a job are finitely many: all are versions it has had.
LEMMA LateFinite ==
    ASSUME IInv, Overlaps, NEW j \in Jobs
    PROVE  /\ Live(j) \subseteq 1 .. version[j] /\ version[j] \in Nat
           /\ IsFiniteSet(Live(j))
           /\ IsFiniteSet(Late(j)) /\ Cardinality(Late(j)) \in Nat
  <1>1. version[j] \in Nat
    BY DEF IInv, TypeOK
  <1>2. ASSUME NEW e \in Starting(j) PROVE exec[e].claim \in 1 .. version[j]
    <2>1. e \in Executors /\ exec[e].job = j /\ exec[e] \in Holding /\ exec[e].claim \in Nat
      BY <1>2, SlotFacts DEF Starting, IInv
    <2>2. exec[e].claim # 0 /\ exec[e].claim <= version[j]
      BY <2>1 DEF Overlaps, StartedOnce, IInv, ClaimsArePast
    <2>. QED
      BY <1>1, <2>1, <2>2
  <1>3. Live(j) \subseteq 1 .. version[j]
    BY <1>2 DEF Live, Overlaps, LateRecovered
  <1>4. IsFiniteSet(1 .. version[j])
    BY <1>1, FS_Interval
  <1>5. IsFiniteSet(Live(j))
    BY <1>3, <1>4, FS_Subset
  <1>6. Late(j) \in SUBSET Live(j)
    BY DEF Late
  <1>. QED
    BY <1>1, <1>3, <1>5, <1>6, FS_Subset, FS_CardinalityType

\* When no claim becomes late, the recoveries still pay for those that are.
LEMMA NoneLater ==
    ASSUME IInv, TypeOK', Overlaps, NEW j \in Jobs, recoveries[j] <= recoveries'[j],
           Late(j)' \subseteq Late(j)
    PROVE  Cardinality(Late(j)') <= recoveries'[j]
  <1>1. recoveries[j] \in Nat /\ recoveries'[j] \in Nat
    BY DEF IInv, TypeOK
  <1>2. IsFiniteSet(Late(j)) /\ Cardinality(Late(j)) \in Nat /\ Cardinality(Late(j)) <= recoveries[j]
    BY LateFinite DEF Overlaps, LateRecovered
  <1>3. /\ IsFiniteSet(Late(j)') /\ Cardinality(Late(j)') <= Cardinality(Late(j))
    BY <1>2, FS_Subset
  <1>4. Cardinality(Late(j)') \in Nat
    BY <1>3, FS_CardinalityType
  <1>. QED
    BY <1>1, <1>2, <1>3, <1>4

\* A step that starts no process, makes no claim and takes none back.
LEMMA QuietStep ==
    ASSUME IInv, TypeOK', Overlaps,
           \A j \in Jobs : /\ procs'[j] \subseteq procs[j]
                           /\ version[j] <= version'[j]
                           /\ recoveries[j] <= recoveries'[j],
           \A j \in Jobs : \A c \in 1 .. version[j] : TakenBack(j, c)' => TakenBack(j, c),
           \A e \in Executors : exec'[e].phase = "claimed" => exec'[e] = exec[e],
           \A e \in Executors : exec'[e] \in Holding =>
               /\ exec[e] \in Holding
               /\ exec'[e].job = exec[e].job
               /\ exec'[e].claim = exec[e].claim,
           \A e \in Executors : exec'[e].phase \in {"exited", "completing"} =>
               \/ exec[e].phase \in {"claimed", "exited", "completing"}
               \/ exec'[e].claim \notin procs'[exec'[e].job]
    PROVE  Overlaps'
  <1>1. ASSUME NEW e \in Executors PROVE StartedOnce(e)'
    <2>1. exec'[e].phase \in {"claimed", "exited", "completing"} => exec'[e] \in Holding /\ exec'[e].job \in Jobs
      BY SlotByPhase, HoldingFields DEF TypeOK
    <2>. QED
      BY <2>1 DEF StartedOnce, Overlaps
  <1>2. ASSUME NEW j \in Jobs PROVE LateRecovered(j)'
    <2>1. Starting(j)' \subseteq Starting(j) /\ \A e \in Starting(j)' : exec'[e] = exec[e]
      BY DEF Starting
    <2>2. Live(j)' \subseteq Live(j)
      BY <2>1 DEF Live
    <2>3. Late(j)' \subseteq Late(j)
      BY <2>2, LateFinite DEF Late
    <2>4. version[j] \in Nat /\ version'[j] \in Nat
      BY DEF IInv, TypeOK
    <2>5. procs'[j] \subseteq 1 .. version'[j]
      BY <2>4 DEF Overlaps, LateRecovered
    <2>. QED
      BY <2>3, <2>5, NoneLater DEF LateRecovered
  <1>. QED
    BY <1>1, <1>2 DEF Overlaps

\* One slot changes and no process starts.
LEMMA QuietSlot ==
    ASSUME IInv, TypeOK', Overlaps, NEW e \in Executors, NEW x,
           exec' = [exec EXCEPT ![e] = x],
           UNCHANGED <<status, version, recoveries>>,
           x.phase # "claimed",
           x \in Holding => /\ exec[e] \in Holding
                           /\ x.job = exec[e].job
                           /\ x.claim = exec[e].claim,
           x.phase \in {"exited", "completing"} =>
               \/ exec[e].phase \in {"claimed", "exited", "completing"}
               \/ x.claim \notin procs'[x.job],
           \A j \in Jobs : procs'[j] \subseteq procs[j]
    PROVE  Overlaps'
  <1>1. exec'[e] = x /\ \A f \in Executors \ {e} : exec'[f] = exec[f]
    BY DEF IInv, TypeOK
  <1>2. \A j \in Jobs : version[j] <= version'[j] /\ recoveries[j] <= recoveries'[j]
    BY DEF IInv, TypeOK
  <1>3. \A j \in Jobs : \A c : TakenBack(j, c)' => TakenBack(j, c)
    BY DEF TakenBack
  <1>. QED
    BY <1>1, <1>2, <1>3, QuietStep

\* No slot changes and no process starts.
LEMMA QuietJobs ==
    ASSUME IInv, TypeOK', Overlaps, UNCHANGED <<exec, recoveries>>,
           \A j \in Jobs : procs'[j] \subseteq procs[j] /\ version[j] <= version'[j],
           \A j \in Jobs : \A c \in 1 .. version[j] : TakenBack(j, c)' => TakenBack(j, c)
    PROVE  Overlaps'
  <1>1. \A j \in Jobs : recoveries[j] <= recoveries'[j]
    BY DEF IInv, TypeOK
  <1>2. \A e \in Executors : exec'[e].phase \in {"exited", "completing"} =>
            exec[e].phase \in {"claimed", "exited", "completing"}
    OBVIOUS
  <1>. QED
    BY <1>1, <1>2, QuietStep

\* Submitting, queueing and cancelling take no claim back.
LEMMA OverlapsSubmissionCancellation ==
    ASSUME IInv, TypeOK', Overlaps, NEW j \in Jobs, Submission(j) \/ Cancellation(j)
    PROVE  Overlaps'
  <1>0. \A k \in Jobs : version[k] \in Nat /\ procs[k] \subseteq Nat
    BY DEF IInv, TypeOK
  <1>1. ASSUME UNCHANGED <<exec, recoveries, procs>>,
               \A k \in Jobs \ {j} : status'[k] = status[k] /\ version'[k] = version[k],
               \/ status'[j] = status[j] /\ version'[j] = version[j]
               \/ /\ status[j] \notin {"running", "cancelled"} /\ version[j] <= version'[j]
               \/ /\ status[j] = "running" /\ status'[j] = "cancelled" /\ version'[j] = version[j] + 1
        PROVE  Overlaps'
    <2>1. \A k \in Jobs : version[k] <= version'[k]
      BY <1>0, <1>1
    <2>2. \A k \in Jobs : \A c \in 1 .. version[k] : TakenBack(k, c)' => TakenBack(k, c)
      BY <1>0, <1>1 DEF TakenBack
    <2>. QED
      BY <1>1, <2>1, <2>2, QuietJobs
  <1>2. ASSUME NEW to, Transition({j}, to), to = "cancelled" \/ status[j] # "running",
               UNCHANGED <<exec, recoveries, procs>>
        PROVE  Overlaps'
    <2>1. /\ to \in ValidTransitions[status[j]] /\ status[j] \in Status
          /\ status'[j] = to /\ version[j] \in Nat /\ version'[j] = version[j] + 1
          /\ \A k \in Jobs \ {j} : status'[k] = status[k] /\ version'[k] = version[k]
      BY <1>2, MoveOne DEF IInv
    <2>2. status[j] # "cancelled"
      BY <2>1 DEF ValidTransitions, Status
    <2>. QED
      BY <1>1, <1>2, <2>1, <2>2
  <1>3. CASE Create(j) \/ EnqueueMarketplace(j)
    <2>1. version[j] = 0 /\ version'[j] \in {1, 2}
      BY <1>3 DEF Create, EnqueueMarketplace, IInv, NewIsUntouched, TypeOK
    <2>. QED
      BY <1>1, <1>3, <2>1 DEF Create, EnqueueMarketplace, IInv, TypeOK
  <1>4. ASSUME NEW to \in {"queued", "failed"}, Route(j, to) PROVE Overlaps'
    <2>1. status[j] # "running" /\ UNCHANGED <<exec, recoveries, procs>>
      BY <1>4 DEF Route, IInv, SubmitsPending
    <2>2. Transition({j}, to) \/ UNCHANGED jobVars
      BY <1>4 DEF Route
    <2>. QED
      BY <1>1, <1>2, <2>1, <2>2 DEF jobVars
  <1>5. CASE CancelCommit(j)
    BY <1>2, <1>5 DEF CancelCommit
  <1>6. CASE SubmitterCrash(j) \/ CancelRead(j) \/ CancelStale(j) \/ CancellerCrash(j)
    BY <1>1, <1>6 DEF SubmitterCrash, CancelRead, CancelStale, CancellerCrash, jobVars
  <1>7. CASE CancelSignal(j)
    <2>1. \A k \in Jobs : procs'[k] \subseteq procs[k] /\ version[k] <= version'[k]
      BY <1>0, <1>7 DEF CancelSignal, jobVars, IInv, TypeOK
    <2>2. UNCHANGED <<status, version, exec, recoveries>>
      BY <1>7 DEF CancelSignal, jobVars
    <2>3. \A k \in Jobs : \A c \in 1 .. version[k] : TakenBack(k, c)' => TakenBack(k, c)
      BY <2>2 DEF TakenBack
    <2>. QED
      BY <2>1, <2>2, <2>3, QuietJobs
  <1>. QED
    BY <1>3, <1>4, <1>5, <1>6, <1>7 DEF Submission, Cancellation

\* A claim is new: no process carries it, and the claims of earlier runs, whose
\* recoveries are counted, are late as before.
LEMMA OverlapsClaim ==
    ASSUME IInv, TypeOK', Overlaps, NEW e \in Executors,
           exec[e].phase = "selected", TakeJob(e, exec[e].job),
           UNCHANGED <<procs, recoveries>>
    PROVE  Overlaps'
  <1>1. PICK j \in Jobs : j = exec[e].job
    BY SlotFacts DEF IInv
  <1>2. /\ version[j] \in Nat
        /\ status[j] = "queued" /\ status'[j] = "running" /\ version'[j] = version[j] + 1
        /\ \A k \in Jobs \ {j} : status'[k] = status[k] /\ version'[k] = version[k]
    <2>1. Transition({j}, "running") /\ status[j] \in Status
      BY <1>1 DEF IInv, TypeOK, TakeJob
    <2>. QED
      BY <2>1, MoveOne, WhereFrom DEF IInv
  <1>3. /\ exec'[e].phase = "claimed" /\ exec'[e].job = j /\ exec'[e].claim = version[j] + 1
        /\ \A f \in Executors \ {e} : exec'[f] = exec[f]
    BY <1>1 DEF TakeJob, IInv, TypeOK
  <1>4. procs[j] \subseteq 1 .. version[j] /\ Live(j) \subseteq 1 .. version[j]
    BY LateFinite DEF Overlaps, LateRecovered
  <1>5. ASSUME NEW f \in Executors PROVE StartedOnce(f)'
    <2>1. CASE f = e
      BY <1>2, <1>3, <1>4, <2>1 DEF StartedOnce
    <2>2. CASE f # e
      BY <1>3, <2>2 DEF StartedOnce, Overlaps
    <2>. QED
      BY <2>1, <2>2
  <1>6. ASSUME NEW k \in Jobs PROVE LateRecovered(k)'
    <2>0. recoveries'[k] = recoveries[k] /\ recoveries[k] \in Nat /\ procs'[k] = procs[k]
      BY DEF IInv, TypeOK
    <2>1. CASE k = j
      <3>1. Starting(j)' = Starting(j) \cup {e} /\ e \notin Starting(j)
        BY <1>3 DEF Starting
      <3>2. Live(j)' = Live(j) \cup {version[j] + 1}
        BY <1>3, <3>1 DEF Live, Starting
      <3>3. Late(j)' \subseteq Late(j)
        BY <1>2, <1>4, <3>2 DEF Late, TakenBack
      <3>4. procs'[j] \subseteq 1 .. version'[j]
        BY <1>2, <1>4
      <3>. QED
        BY <2>0, <2>1, <3>3, <3>4, NoneLater DEF LateRecovered
    <2>2. CASE k # j
      <3>1. Starting(k)' = Starting(k)
        BY <1>1, <1>3, <2>2 DEF Starting
      <3>2. Live(k)' = Live(k)
        BY <1>3, <3>1, <1>1, <2>2 DEF Live, Starting
      <3>3. Late(k)' \subseteq Late(k)
        BY <1>2, <2>2, <3>2 DEF Late, TakenBack
      <3>4. procs'[k] \subseteq 1 .. version'[k]
        BY <1>2, <2>2 DEF Overlaps, LateRecovered
      <3>. QED
        BY <2>0, <3>3, <3>4, NoneLater DEF LateRecovered
    <2>. QED
      BY <2>1, <2>2
  <1>. QED
    BY <1>5, <1>6 DEF Overlaps

\* A process starts under the claim of the slot that starts it, which was live.
LEMMA OverlapsSpawn ==
    ASSUME IInv, TypeOK', Overlaps, NEW e \in Executors, Spawn(e)
    PROVE  Overlaps'
  <1>1. PICK j \in Jobs : j = exec[e].job
    BY SlotFacts DEF IInv, Spawn
  <1>. DEFINE c == exec[e].claim
  <1>2. exec[e].phase = "claimed" /\ exec[e] \in Holding /\ c \in Nat /\ c # 0 /\ c <= version[j]
    BY <1>1, SlotFacts DEF IInv, Spawn, ClaimsArePast, Overlaps, StartedOnce
  <1>3. /\ exec'[e].phase = "spawned" /\ exec'[e].job = j /\ exec'[e].claim = c
        /\ \A f \in Executors \ {e} : exec'[f] = exec[f]
    <2>1. exec' = [exec EXCEPT ![e] = [phase |-> "spawned", job |-> exec[e].job, claim |-> exec[e].claim]]
      BY <1>2, PhaseUpdate DEF Spawn, IInv
    <2>. QED
      BY <1>1, <2>1 DEF IInv, TypeOK
  <1>4. /\ procs'[j] = procs[j] \cup {c}
        /\ \A k \in Jobs \ {j} : procs'[k] = procs[k]
        /\ UNCHANGED <<status, version, recoveries>>
    BY <1>1 DEF Spawn, jobVars, IInv, TypeOK
  <1>5. ASSUME NEW f \in Executors PROVE StartedOnce(f)'
    <2>1. CASE f = e
      BY <1>2, <1>3, <2>1 DEF StartedOnce
    <2>2. CASE f # e
      <3>1. exec'[f] = exec[f]
        BY <1>3, <2>2
      <3>2. ASSUME exec[f].phase \in {"claimed", "exited", "completing"}
            PROVE  exec[f].claim \notin procs'[exec[f].job]
        <4>1. exec[f] \in Holding /\ exec[f].job \in Jobs
          BY <3>2, SlotFacts DEF IInv
        <4>2. exec[f].job = j => exec[f].claim # c
          BY <1>1, <1>2, <2>2, <4>1 DEF IInv, ClaimsDiffer
        <4>3. exec[f].claim \notin procs[exec[f].job]
          BY <3>2 DEF Overlaps, StartedOnce
        <4>. QED
          BY <1>4, <4>1, <4>2, <4>3
      <3>. QED
        BY <3>1, <3>2 DEF StartedOnce, Overlaps
    <2>. QED
      BY <2>1, <2>2
  <1>6. ASSUME NEW k \in Jobs PROVE LateRecovered(k)'
    <2>1. e \in Starting(j)
      BY <1>1, <1>2 DEF Starting
    <2>2. Starting(k)' \subseteq Starting(k) /\ \A f \in Starting(k)' : exec'[f] = exec[f]
      BY <1>3 DEF Starting
    <2>3. procs'[k] \subseteq Live(k)
      BY <1>4, <2>1 DEF Live
    <2>4. Live(k)' \subseteq Live(k)
      BY <2>2, <2>3 DEF Live
    <2>5. Late(k)' \subseteq Late(k)
      BY <1>4, <2>4 DEF Late, TakenBack
    <2>6. procs'[k] \subseteq 1 .. version'[k]
      BY <1>4, <2>3, LateFinite
    <2>7. recoveries[k] <= recoveries'[k]
      BY <1>4 DEF IInv, TypeOK
    <2>. QED
      BY <2>5, <2>6, <2>7, NoneLater DEF LateRecovered
  <1>. QED
    BY <1>5, <1>6 DEF Overlaps

\* The run of the current claim ends: its process is gone, so it leaves no late
\* claim behind.
LEMMA OverlapsEnd ==
    ASSUME IInv, TypeOK', Overlaps, NEW e \in Executors, NEW j \in Jobs, NEW to,
           exec[e].phase = "completing", exec[e].job = j, exec[e].claim = version[j],
           status[j] = "running", Transition({j}, to),
           exec' = [exec EXCEPT ![e] = Idle],
           UNCHANGED <<procs, recoveries>>
    PROVE  Overlaps'
  <1>1. exec[e] \in Holding
    BY SlotFacts DEF IInv
  <1>2. version[j] \in Nat /\ version'[j] = version[j] + 1
        /\ \A k \in Jobs \ {j} : status'[k] = status[k] /\ version'[k] = version[k]
    BY MoveOne DEF IInv
  <1>3. /\ exec'[e] = Idle /\ Idle.phase = "idle" /\ Idle \notin Holding
        /\ \A f \in Executors \ {e} : exec'[f] = exec[f]
    BY DEF IInv, TypeOK, Idle, Holding
  <1>4. version[j] \notin Live(j)
    <2>1. version[j] \notin procs[j]
      BY DEF Overlaps, StartedOnce
    <2>2. ASSUME NEW f \in Starting(j) PROVE exec[f].claim # version[j]
      <3>1. f \in Executors /\ exec[f] \in Holding /\ exec[f].job = j /\ f # e
        BY <2>2, SlotFacts DEF Starting, IInv
      <3>. QED
        BY <1>1, <3>1 DEF IInv, ClaimsDiffer
    <2>. QED
      BY <2>1, <2>2 DEF Live
  <1>5. ASSUME NEW f \in Executors PROVE StartedOnce(f)'
    BY <1>3, <1>5 DEF StartedOnce, Overlaps
  <1>6. ASSUME NEW k \in Jobs PROVE LateRecovered(k)'
    <2>1. Starting(k)' \subseteq Starting(k) /\ \A f \in Starting(k)' : exec'[f] = exec[f]
      BY <1>3 DEF Starting
    <2>2. Live(k)' \subseteq Live(k)
      BY <2>1 DEF Live
    <2>3. Late(k)' \subseteq Late(k)
      BY <1>2, <1>4, <2>2 DEF Late, TakenBack
    <2>4. version[k] \in Nat /\ (version'[k] = version[k] \/ version'[k] = version[k] + 1)
      <3>1. version[k] \in Nat
        BY DEF IInv, TypeOK
      <3>. QED
        BY <1>2, <3>1
    <2>5. procs'[k] \subseteq 1 .. version'[k]
      BY <2>4 DEF Overlaps, LateRecovered
    <2>6. recoveries[k] <= recoveries'[k]
      BY DEF IInv, TypeOK
    <2>. QED
      BY <2>3, <2>5, <2>6, NoneLater DEF LateRecovered
  <1>. QED
    BY <1>5, <1>6 DEF Overlaps

\* The reaper makes one claim of each job late, and counts a recovery for it.
LEMMA OverlapsReap ==
    ASSUME IInv, TypeOK', Overlaps, Reap
    PROVE  Overlaps'
  <1>1. /\ UNCHANGED <<exec, procs>>
        /\ \A k \in Reapable : k \in Jobs /\ status[k] = "running" /\ version'[k] = version[k] + 1
                               /\ recoveries'[k] = recoveries[k] + 1
        /\ \A k \in Jobs \ Reapable : /\ status'[k] = status[k]
                                      /\ version'[k] = version[k]
                                      /\ recoveries'[k] = recoveries[k]
    BY TransitionFrom DEF Reap, Reapable, TakeBack, IInv
  <1>2. ASSUME NEW e \in Executors PROVE StartedOnce(e)'
    BY <1>1 DEF Overlaps, StartedOnce
  <1>3. ASSUME NEW k \in Jobs PROVE LateRecovered(k)'
    <2>1. Live(k)' = Live(k)
      BY <1>1 DEF Live, Starting
    <2>2. /\ version[k] \in Nat /\ version'[k] \in Nat /\ version[k] <= version'[k]
          /\ recoveries[k] \in Nat /\ recoveries'[k] \in Nat /\ recoveries[k] <= recoveries'[k]
      <3>1. version[k] \in Nat /\ recoveries[k] \in Nat
        BY DEF IInv, TypeOK
      <3>2. /\ version'[k] = version[k] \/ version'[k] = version[k] + 1
            /\ recoveries'[k] = recoveries[k] \/ recoveries'[k] = recoveries[k] + 1
        BY <1>1
      <3>. QED
        BY <3>1, <3>2
    <2>3. procs'[k] \subseteq 1 .. version'[k]
      BY <1>1, <2>2 DEF Overlaps, LateRecovered
    <2>4. CASE k \notin Reapable
      <3>1. Late(k)' \subseteq Late(k)
        BY <1>1, <2>1, <2>4 DEF Late, TakenBack
      <3>. QED
        BY <2>2, <2>3, <3>1, NoneLater DEF LateRecovered
    <2>5. CASE k \in Reapable
      <3>1. Late(k)' \subseteq Late(k) \cup {version[k]}
        BY <1>1, <2>1, <2>5 DEF Late, TakenBack
      <3>2. /\ IsFiniteSet(Late(k)) /\ Cardinality(Late(k)) \in Nat
            /\ Cardinality(Late(k)) <= recoveries[k]
        BY LateFinite DEF Overlaps, LateRecovered
      <3>3. /\ IsFiniteSet(Late(k) \cup {version[k]})
            /\ Cardinality(Late(k) \cup {version[k]}) <= Cardinality(Late(k)) + 1
        BY <3>2, FS_AddElement
      <3>4. /\ IsFiniteSet(Late(k)')
            /\ Cardinality(Late(k)') <= Cardinality(Late(k) \cup {version[k]})
        BY <3>1, <3>3, FS_Subset
      <3>5. Cardinality(Late(k)') \in Nat /\ Cardinality(Late(k) \cup {version[k]}) \in Nat
        BY <3>3, <3>4, FS_CardinalityType
      <3>6. recoveries'[k] = recoveries[k] + 1
        BY <1>1, <2>5
      <3>. QED
        BY <2>2, <2>3, <3>2, <3>3, <3>4, <3>5, <3>6 DEF LateRecovered
    <2>. QED
      BY <2>4, <2>5
  <1>. QED
    BY <1>2, <1>3 DEF Overlaps

\* The steps of an executor.
LEMMA OverlapsExecution ==
    ASSUME IInv, TypeOK', Overlaps, NEW e \in Executors,
           Execution(e) \/ Crash(e) \/ AbandonAtShutdown(e)
    PROVE  Overlaps'
  <1>1. Idle.phase = "idle" /\ Idle \notin Holding
    BY DEF Idle, Holding
  <1>2. ASSUME exec' = [exec EXCEPT ![e] = Idle], UNCHANGED <<status, version, recoveries>>,
               \A j \in Jobs : procs'[j] \subseteq procs[j]
        PROVE  Overlaps'
    BY <1>1, <1>2, QuietSlot
  <1>3. \A j \in Jobs : procs[j] \subseteq procs[j]
    OBVIOUS
  <1>4. ASSUME NEW k \in Jobs, Select(e, k) PROVE Overlaps'
    <2>. DEFINE x == [phase |-> "selected", job |-> k, seen |-> version[k]]
    <2>1. x.phase = "selected" /\ x \notin Holding
      BY DEF Holding
    <2>2. exec' = [exec EXCEPT ![e] = x] /\ UNCHANGED <<status, version, recoveries, procs>>
      BY <1>4 DEF Select, jobVars
    <2>. HIDE DEF x
    <2>. QED
      BY <2>1, <2>2, QuietSlot
  <1>5. CASE ClaimLost(e) \/ CompletionRollsBack(e) \/ Crash(e)
    BY <1>2, <1>5 DEF ClaimLost, CompletionRollsBack, Crash, jobVars
  <1>6. CASE Claim(e) \/ RunNext(e)
    BY <1>6, OverlapsClaim DEF Claim, RunNext
  <1>7. CASE Spawn(e)
    BY <1>7, OverlapsSpawn
  <1>8. ASSUME NEW j \in Jobs, procs' = [procs EXCEPT ![j] = procs[j] \ {exec[e].claim}]
        PROVE  /\ \A k \in Jobs : procs'[k] \subseteq procs[k]
               /\ exec[e].claim \notin procs'[j]
    BY <1>8 DEF IInv, TypeOK
  <1>9. ASSUME NEW o \in Outcome, exec' = [exec EXCEPT ![e] = Exited(e, o)],
               exec[e].phase \in {"claimed", "spawned", "running"},
               UNCHANGED <<status, version, recoveries>>,
               \/ exec[e].phase = "claimed" /\ UNCHANGED procs
               \/ procs' = [procs EXCEPT ![exec[e].job] = procs[exec[e].job] \ {exec[e].claim}]
        PROVE  Overlaps'
    <2>1. exec[e] \in Holding /\ exec[e].job \in Jobs
      BY <1>9, SlotFacts DEF IInv
    <2>. DEFINE x == Exited(e, o)
    <2>2. x.phase = "exited" /\ x.job = exec[e].job /\ x.claim = exec[e].claim
      BY DEF Exited
    <2>3. \A k \in Jobs : procs'[k] \subseteq procs[k]
      BY <1>8, <1>9, <2>1
    <2>4. exec[e].phase = "claimed" \/ x.claim \notin procs'[x.job]
      BY <1>8, <1>9, <2>1, <2>2
    <2>5. exec' = [exec EXCEPT ![e] = x] /\ UNCHANGED <<status, version, recoveries>>
      BY <1>9
    <2>. HIDE DEF x
    <2>. QED
      BY <2>1, <2>2, <2>3, <2>4, <2>5, QuietSlot
  <1>10. CASE Started(e)
    <2>1. CASE exec' = [exec EXCEPT ![e].phase = "running"] /\ UNCHANGED procs
      <3>. DEFINE x == [phase |-> "running", job |-> exec[e].job, claim |-> exec[e].claim]
      <3>1. exec' = [exec EXCEPT ![e] = x] /\ exec[e] \in Holding
        BY <1>10, <2>1, PhaseUpdate, SlotFacts DEF Started, IInv
      <3>2. UNCHANGED <<status, version, recoveries>>
        BY <1>10 DEF Started, jobVars
      <3>3. x.phase = "running" /\ x.job = exec[e].job /\ x.claim = exec[e].claim
        OBVIOUS
      <3>. HIDE DEF x
      <3>. QED
        BY <2>1, <3>1, <3>2, <3>3, QuietSlot
    <2>2. CASE /\ exec' = [exec EXCEPT ![e] = Exited(e, "failed")]
               /\ procs' = [procs EXCEPT ![exec[e].job] = procs[exec[e].job] \ {exec[e].claim}]
      BY <1>9, <1>10, <2>2 DEF Started, jobVars, Outcome
    <2>. QED
      BY <1>10, <2>1, <2>2 DEF Started
  <1>11. ASSUME NEW o \in Outcome, EndWithoutProcess(e, o) \/ ProcessEnds(e, o) PROVE Overlaps'
    BY <1>9, <1>11 DEF EndWithoutProcess, ProcessEnds, jobVars
  <1>12. CASE ReadForCompletion(e)
    <2>1. exec[e].phase = "exited" /\ exec[e] \in Holding
      BY <1>12, SlotFacts DEF ReadForCompletion, IInv
    <2>2. UNCHANGED <<status, version, recoveries, procs>>
      BY <1>12 DEF ReadForCompletion, jobVars
    <2>. DEFINE x == [phase |-> "completing", job |-> exec[e].job, claim |-> exec[e].claim,
                      outcome |-> exec[e].outcome, seen |-> version[exec[e].job]]
    <2>3. CASE exec' = [exec EXCEPT ![e] = Idle]
      BY <1>2, <2>2, <2>3
    <2>4. CASE exec' = [exec EXCEPT ![e] = x]
      <3>1. x.phase = "completing" /\ x.job = exec[e].job /\ x.claim = exec[e].claim
        OBVIOUS
      <3>. HIDE DEF x
      <3>. QED
        BY <2>1, <2>2, <2>4, <3>1, QuietSlot
    <2>. QED
      BY <1>12, <2>3, <2>4 DEF ReadForCompletion
  <1>13. CASE Complete(e)
    <2>1. PICK j \in Jobs : j = exec[e].job
      BY <1>13, SlotFacts DEF Complete, IInv
    <2>2. exec[e].phase = "completing" /\ status[j] = "running" /\ exec[e].seen = version[j]
      BY <1>13, <2>1 DEF Complete, CompletionValid, Unmoved
    <2>3. exec[e].claim = version[j]
      BY <2>1, <2>2 DEF IInv, CompletesThisRun
    <2>4. \E to : Transition({j}, to)
      BY <1>13, <2>1 DEF Complete
    <2>. QED
      BY <1>13, <2>1, <2>2, <2>3, <2>4, OverlapsEnd DEF Complete
  <1>14. CASE Finish(e)
    <2>1. PICK j \in Jobs : j = exec[e].job
      BY <1>14, SlotFacts DEF Finish, IInv
    <2>2. /\ exec[e].phase = "completing" /\ e \in Runners /\ exec[e] \in Holding
          /\ exec' = [exec EXCEPT ![e] = Idle] /\ UNCHANGED <<procs, recoveries>>
      BY <1>14, SlotFacts DEF Finish, IInv
    <2>3. CASE status[j] = "cancelled"
      BY <1>2, <1>14, <2>1, <2>2, <2>3 DEF Finish, jobVars
    <2>4. CASE status[j] # "cancelled"
      <3>1. status[j] = "running" /\ exec[e].claim = version[j]
        BY <2>1, <2>2, <2>4 DEF IInv, RunnerOwns
      <3>2. \E to : Transition({j}, to)
        BY <1>14, <2>1, <2>4 DEF Finish
      <3>. QED
        BY <2>1, <2>2, <3>1, <3>2, OverlapsEnd
    <2>. QED
      BY <2>3, <2>4
  <1>15. CASE AbandonAtShutdown(e)
    <2>1. exec[e].job \in Jobs
      BY <1>15, SlotFacts DEF AbandonAtShutdown, IInv
    <2>2. \A k \in Jobs : procs'[k] \subseteq procs[k]
      BY <1>8, <1>15, <2>1 DEF AbandonAtShutdown
    <2>. QED
      BY <1>2, <1>15, <2>2 DEF AbandonAtShutdown, jobVars
  <1>. QED
    BY <1>4, <1>5, <1>6, <1>7, <1>10, <1>11, <1>12, <1>13, <1>14, <1>15 DEF Execution

\* Every step.
LEMMA OverlapsStep ==
    ASSUME IInv, TypeOK', Overlaps, [Next]_vars
    PROVE  Overlaps'
  <1>1. ASSUME NEW j \in Jobs, Submission(j) \/ Cancellation(j) PROVE Overlaps'
    BY <1>1, OverlapsSubmissionCancellation
  <1>2. ASSUME UNCHANGED <<status, version, exec, recoveries>>,
               \A j \in Jobs : procs'[j] \subseteq procs[j]
        PROVE  Overlaps'
    <2>1. \A j \in Jobs : version[j] <= version'[j]
      BY <1>2 DEF IInv, TypeOK
    <2>2. \A j \in Jobs : \A c \in 1 .. version[j] : TakenBack(j, c)' => TakenBack(j, c)
      BY <1>2 DEF TakenBack
    <2>. QED
      BY <1>2, <2>1, <2>2, QuietJobs
  <1>3. ASSUME NEW j \in Jobs, NEW c \in procs[j], OrphanExits(j, c) PROVE Overlaps'
    <2>1. \A k \in Jobs : procs'[k] \subseteq procs[k]
      BY <1>3 DEF OrphanExits, IInv, TypeOK
    <2>. QED
      BY <1>2, <1>3, <2>1 DEF OrphanExits, jobVars
  <1>4. ASSUME NEW e \in Executors, Execution(e) \/ Crash(e) \/ AbandonAtShutdown(e)
        PROVE  Overlaps'
    BY <1>4, OverlapsExecution
  <1>5. CASE Reap
    BY <1>5, OverlapsReap
  <1>6. ASSUME UNCHANGED <<status, version, exec, recoveries, procs>> PROVE Overlaps'
    BY <1>2, <1>6
  <1>. QED
    BY <1>1, <1>3, <1>4, <1>5, <1>6 DEF Next, Tick, BecomeEligible, Heartbeat, jobVars, vars

\* Agent processes of one job overlap only after recoveries: with n of them, at
\* most n + 1 are alive at once, for any number of executors and any timing.
THEOREM OverlapsPaid == Spec => []OverlapNeedsRecovery
  <1>1. Init => Overlaps
    <2> SUFFICES ASSUME Init PROVE Overlaps
      OBVIOUS
    <2>1. ASSUME NEW e \in Executors PROVE StartedOnce(e)
      BY DEF Init, Idle, Holding, StartedOnce
    <2>2. ASSUME NEW j \in Jobs PROVE LateRecovered(j)
      <3>1. procs[j] = {} /\ Starting(j) = {} /\ recoveries[j] = 0
        BY DEF Init, Idle, Starting
      <3>2. Late(j) = {}
        BY <3>1 DEF Late, Live
      <3>3. Cardinality(Late(j)) = 0
        BY <3>2, FS_EmptySet
      <3>. QED
        BY <3>1, <3>3 DEF LateRecovered
    <2>. QED
      BY <2>1, <2>2 DEF Overlaps
  <1>2. IInv /\ IInv' /\ Overlaps /\ [Next]_vars => Overlaps'
    BY OverlapsStep DEF IInv
  <1>3. IInv /\ Overlaps => OverlapNeedsRecovery
    <2> SUFFICES ASSUME IInv, Overlaps, NEW j \in Jobs
                 PROVE  Cardinality(procs[j]) <= recoveries[j] + 1
      BY DEF OverlapNeedsRecovery
    <2>1. PICK c : \A d \in Live(j) : d = c \/ TakenBack(j, d)
      BY DEF TakenBack
    <2>2. procs[j] \subseteq Late(j) \cup {c}
      BY <2>1 DEF Live, Late
    <2>3. /\ IsFiniteSet(Late(j)) /\ Cardinality(Late(j)) \in Nat
          /\ Cardinality(Late(j)) <= recoveries[j] /\ recoveries[j] \in Nat
      BY LateFinite DEF Overlaps, LateRecovered, IInv, TypeOK
    <2>4. /\ IsFiniteSet(Late(j) \cup {c})
          /\ Cardinality(Late(j) \cup {c}) <= Cardinality(Late(j)) + 1
      <3>1. /\ IsFiniteSet(Late(j) \cup {c})
            /\ Cardinality(Late(j) \cup {c}) =
                  IF c \in Late(j) THEN Cardinality(Late(j)) ELSE Cardinality(Late(j)) + 1
        BY <2>3, FS_AddElement
      <3>. QED
        BY <2>3, <3>1
    <2>5. IsFiniteSet(procs[j]) /\ Cardinality(procs[j]) <= Cardinality(Late(j) \cup {c})
      BY <2>2, <2>4, FS_Subset
    <2>6. Cardinality(procs[j]) \in Nat /\ Cardinality(Late(j) \cup {c}) \in Nat
      BY <2>4, <2>5, FS_CardinalityType
    <2>. QED
      BY <2>3, <2>4, <2>5, <2>6
  <1>. QED
    BY <1>1, <1>2, <1>3, Invariance, PTL DEF Spec
===============================================================================
