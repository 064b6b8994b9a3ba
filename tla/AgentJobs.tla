------------------------------ MODULE AgentJobs ------------------------------
(***************************************************************************)
(* Durable agent jobs: the orchestrator that submits and cancels them, the *)
(* worker daemons that claim them under a lease, the operator's            *)
(* "job run-next" that claims them without one, the agent processes, and   *)
(* the reaper that takes back the jobs of dead workers.                    *)
(*                                                                         *)
(* A database transaction is one action, except where the code reads a     *)
(* row's version first and writes under a version check later: claiming,   *)
(* completing and cancelling are split at that point.  A claim is named by *)
(* the job version it created, which no other claim of the job shares; it  *)
(* stands for the lease identifier and token, and for the process id.      *)
(***************************************************************************)
EXTENDS Naturals, Sequences, FiniteSets

CONSTANTS
    Jobs,               \* job identifiers
    Workers,            \* execution slots of the worker daemons
    Runners,            \* operators running "job run-next"
    RetryMaxAttempts,   \* OrchestrationConfig.retry_max_attempts
    LeaseTicks,         \* lease duration, in ticks of the lease clock
    RecoveryPolicy,     \* OrchestrationConfig.recovery_policy
    MaxFaults           \* bound: crashes, and leases that expire under a live holder

ASSUME RetryAssumption == RetryMaxAttempts \in Nat \ {0}
ASSUME LeaseAssumption == LeaseTicks \in Nat \ {0}
ASSUME PolicyAssumption == RecoveryPolicy \in {"fail", "requeue", "retry"}
ASSUME FaultAssumption == MaxFaults \in Nat
ASSUME ExecutorAssumption == Workers \cap Runners = {}

VARIABLES
    status,       \* AgentJobRecord.status; "new" until the row is inserted
    version,      \* AgentJobRecord.version
    pid,          \* claim whose process id the row records, 0 = NULL
    eligible,     \* next_eligible_at is NULL or has passed
    ahead,        \* queued jobs with an earlier queued_at
    result,       \* the stored execution result
    recoveries,   \* AgentJobRecord.recovery_count
    lease,        \* the JobLease row of the job
    attempts,     \* status column of its ExecutionAttempt rows, by attempt number
    submitting,   \* submit() is between its two transactions
    exec,         \* what each execution slot is doing
    procs,        \* claims of the job whose agent process is alive
    cancel,       \* progress of a cancel() call for the job
    faults        \* faults so far (model bound)

jobVars == <<status, version, ahead>>
vars == <<status, version, pid, eligible, ahead, result, recoveries, lease,
          attempts, submitting, exec, procs, cancel, faults>>

Executors == Workers \cup Runners

-----------------------------------------------------------------------------
(* Rows and types *)

Status == {"new", "pending", "queued", "running",
           "succeeded", "failed", "timed_out", "cancelled"}

\* What an execution can report; "retryable" is a failure whose exit code or
\* reason the retry policy accepts.
Outcome == {"succeeded", "failed", "retryable", "timed_out"}
TargetOf(o) == IF o = "retryable" THEN "failed" ELSE o

NoResult == [outcome |-> "none", claim |-> 0]
Result == [outcome : Outcome \cup {"none"}, claim : Nat]

NoLease == [claim |-> 0, attempt |-> 0, ticks |-> 0]
LeaseRow == [claim : Nat \ {0}, attempt : Nat \ {0}, ticks : 0 .. LeaseTicks]

AttemptStatus == {"running", "succeeded", "failed", "timed_out"}

Idle == [phase |-> "idle"]
Selected == [phase : {"selected"}, job : Jobs, seen : Nat]
Holding == [phase : {"claimed", "spawned", "running"}, job : Jobs, claim : Nat]
           \cup [phase : {"exited"}, job : Jobs, claim : Nat, outcome : Outcome]
           \cup [phase : {"completing"}, job : Jobs, claim : Nat, outcome : Outcome, seen : Nat]

NoCancel == [phase |-> "idle"]
Cancelling == [phase : {"read"}, seen : Nat, pid : Nat]
              \cup [phase : {"signal"}, pid : Nat]

\* AgentJobRepository.VALID_TRANSITIONS, and the insertion of a row.
ValidTransitions ==
    [s \in Status |->
        CASE s = "pending" -> {"queued", "failed", "cancelled"}
          [] s = "queued"  -> {"running", "failed", "cancelled"}
          [] s = "running" -> {"queued", "succeeded", "failed", "timed_out", "cancelled"}
          [] OTHER -> {}]

Queued == {j \in Jobs : status[j] = "queued"}

\* AgentJobRepository.transition for the jobs of D, in one transaction; the
\* caller's guard is the version check.  Entering the queue stamps queued_at.
Transition(D, to) ==
    /\ \A j \in D : to \in ValidTransitions[status[j]]
    /\ status' = [j \in Jobs |-> IF j \in D THEN to ELSE status[j]]
    /\ version' = [j \in Jobs |-> IF j \in D THEN version[j] + 1 ELSE version[j]]
    /\ ahead' = [j \in Jobs |->
                    IF j \in D THEN IF to = "queued" THEN Queued ELSE {}
                               ELSE ahead[j] \ D]

\* Seeded fault: the UPDATE forgets its version condition.
UnmovedUnchecked(j, seen) == TRUE

\* The conditions of the UPDATE: nothing moved the row since it was read.
Unmoved(j, seen) == version[j] = seen

Init ==
    /\ status = [j \in Jobs |-> "new"]
    /\ version = [j \in Jobs |-> 0]
    /\ pid = [j \in Jobs |-> 0]
    /\ eligible = [j \in Jobs |-> TRUE]
    /\ ahead = [j \in Jobs |-> {}]
    /\ result = [j \in Jobs |-> NoResult]
    /\ recoveries = [j \in Jobs |-> 0]
    /\ lease = [j \in Jobs |-> NoLease]
    /\ attempts = [j \in Jobs |-> <<>>]
    /\ submitting = [j \in Jobs |-> FALSE]
    /\ exec = [e \in Executors |-> Idle]
    /\ procs = [j \in Jobs |-> {}]
    /\ cancel = [j \in Jobs |-> NoCancel]
    /\ faults = 0

-----------------------------------------------------------------------------
(* Submission *)

\* submit(), first transaction: the row is inserted as pending.
Create(j) ==
    /\ status[j] = "new"
    /\ status' = [status EXCEPT ![j] = "pending"]
    /\ version' = [version EXCEPT ![j] = 1]
    /\ submitting' = [submitting EXCEPT ![j] = TRUE]
    /\ UNCHANGED <<pid, eligible, ahead, result, recoveries, lease, attempts,
                   exec, procs, cancel, faults>>

\* submit(), second transaction: an agent was found (to = "queued") or none
\* was (to = "failed").  A cancellation in between makes the transition
\* invalid: the exception ends submit() and the row stays as it is.
Route(j, to) ==
    /\ submitting[j]
    /\ submitting' = [submitting EXCEPT ![j] = FALSE]
    /\ IF to \in ValidTransitions[status[j]]
       THEN Transition({j}, to)
       ELSE UNCHANGED jobVars
    /\ UNCHANGED <<pid, eligible, result, recoveries, lease, attempts, exec,
                   procs, cancel, faults>>

\* The submitting process dies while it awaits the router.
SubmitterCrash(j) ==
    /\ submitting[j]
    /\ faults < MaxFaults
    /\ faults' = faults + 1
    /\ submitting' = [submitting EXCEPT ![j] = FALSE]
    /\ UNCHANGED <<jobVars, pid, eligible, result, recoveries, lease, attempts,
                   exec, procs, cancel>>

\* A marketplace job is inserted and queued in the scheduler's transaction.
EnqueueMarketplace(j) ==
    /\ status[j] = "new"
    /\ status' = [status EXCEPT ![j] = "queued"]
    /\ version' = [version EXCEPT ![j] = 2]
    /\ ahead' = [ahead EXCEPT ![j] = Queued]
    /\ UNCHANGED <<pid, eligible, result, recoveries, lease, attempts,
                   submitting, exec, procs, cancel, faults>>

-----------------------------------------------------------------------------
(* Claiming *)

\* A worker sees only eligible jobs, oldest first; run-next ignores
\* next_eligible_at.
Candidate(e, j) ==
    /\ status[j] = "queued"
    /\ IF e \in Workers
       THEN eligible[j] /\ \A k \in ahead[j] : ~eligible[k]
       ELSE ahead[j] = {}

\* The SELECT of LeaseRepository.acquire and of claim_next.
Select(e, j) ==
    /\ exec[e] = Idle
    /\ Candidate(e, j)
    /\ exec' = [exec EXCEPT ![e] = [phase |-> "selected", job |-> j, seen |-> version[j]]]
    /\ UNCHANGED <<jobVars, pid, eligible, result, recoveries, lease, attempts,
                   submitting, procs, cancel, faults>>

\* The UPDATE matches no row: another executor or a canceller was faster.
ClaimLost(e) ==
    /\ exec[e].phase = "selected"
    /\ ~Unmoved(exec[e].job, exec[e].seen)
    /\ exec' = [exec EXCEPT ![e] = Idle]
    /\ UNCHANGED <<jobVars, pid, eligible, result, recoveries, lease, attempts,
                   submitting, procs, cancel, faults>>

\* Seeded fault: the attempt number is the highest one, not the next one.
OpenAttemptReused(j) ==
    /\ lease[j] = NoLease
    /\ lease' = [lease EXCEPT ![j] = [claim |-> version[j] + 1,
                                      attempt |-> Len(attempts[j]),
                                      ticks |-> LeaseTicks]]
    /\ attempts' = [attempts EXCEPT ![j] = Append(@, "running")]

\* The lease row (its primary key is the job) and the attempt row of a claim;
\* attempt numbers go on from the highest one the job has.
OpenAttempt(j) ==
    /\ lease[j] = NoLease
    /\ lease' = [lease EXCEPT ![j] = [claim |-> version[j] + 1,
                                      attempt |-> Len(attempts[j]) + 1,
                                      ticks |-> LeaseTicks]]
    /\ attempts' = [attempts EXCEPT ![j] = Append(@, "running")]

TakeJob(e, j) ==
    /\ Transition({j}, "running")
    /\ exec' = [exec EXCEPT ![e] = [phase |-> "claimed", job |-> j,
                                    claim |-> version[j] + 1]]

\* LeaseRepository.acquire and WorkerDaemon._claim_task, one transaction.
Claim(e) ==
    /\ e \in Workers
    /\ exec[e].phase = "selected"
    /\ Unmoved(exec[e].job, exec[e].seen)
    /\ TakeJob(e, exec[e].job)
    /\ OpenAttempt(exec[e].job)
    /\ UNCHANGED <<pid, eligible, result, recoveries, submitting, procs, cancel, faults>>

\* OrchestratorService.run_next: claim_next takes the job without a lease.
RunNext(e) ==
    /\ e \in Runners
    /\ exec[e].phase = "selected"
    /\ Unmoved(exec[e].job, exec[e].seen)
    /\ TakeJob(e, exec[e].job)
    /\ UNCHANGED <<pid, eligible, result, recoveries, lease, attempts,
                   submitting, procs, cancel, faults>>

-----------------------------------------------------------------------------
(* Leases *)

Holds(e, j) == exec[e] \in Holding /\ exec[e].job = j

\* A holder whose lease heartbeat still runs.
Beating(e, j) == /\ e \in Workers
                 /\ Holds(e, j)
                 /\ exec[e].claim = lease[j].claim

\* Seeded fault: the token is not compared.
LeaseValidForAnyone(e) ==
    LET l == lease[exec[e].job] IN l # NoLease /\ l.ticks > 0

\* The lease is the caller's and has not expired: LeaseRepository.validate.
LeaseValid(e) ==
    LET l == lease[exec[e].job] IN
        l # NoLease /\ l.claim = exec[e].claim /\ l.ticks > 0

\* WorkerDaemon._lease_heartbeat.
Heartbeat(e) ==
    /\ e \in Workers
    /\ exec[e] \in Holding
    /\ exec[e].phase # "completing"
    /\ LeaseValid(e)
    /\ lease[exec[e].job].ticks < LeaseTicks
    /\ lease' = [lease EXCEPT ![exec[e].job].ticks = LeaseTicks]
    /\ UNCHANGED <<jobVars, pid, eligible, result, recoveries, attempts,
                   submitting, exec, procs, cancel, faults>>

\* Time passes.  The heartbeat interval is shorter than the lease, so a lease
\* expires under a live holder only when its event loop or database stalls.
Tick(j) ==
    /\ lease[j] # NoLease
    /\ lease[j].ticks > 0
    /\ lease' = [lease EXCEPT ![j].ticks = @ - 1]
    /\ IF lease[j].ticks = 1 /\ \E e \in Executors : Beating(e, j)
       THEN faults < MaxFaults /\ faults' = faults + 1
       ELSE UNCHANGED faults
    /\ UNCHANGED <<jobVars, pid, eligible, result, recoveries, attempts,
                   submitting, exec, procs, cancel>>

\* The retry delay of a requeued job passes.
BecomeEligible(j) ==
    /\ ~eligible[j]
    /\ eligible' = [eligible EXCEPT ![j] = TRUE]
    /\ UNCHANGED <<jobVars, pid, result, recoveries, lease, attempts,
                   submitting, exec, procs, cancel, faults>>

-----------------------------------------------------------------------------
(* Execution *)

\* The agent's process group starts (ProcessSupervisor.run).
Spawn(e) ==
    /\ exec[e].phase = "claimed"
    /\ exec' = [exec EXCEPT ![e].phase = "spawned"]
    /\ procs' = [procs EXCEPT ![exec[e].job] = @ \cup {exec[e].claim}]
    /\ UNCHANGED <<jobVars, pid, eligible, result, recoveries, lease, attempts,
                   submitting, cancel, faults>>

Exited(e, o) == [phase |-> "exited", job |-> exec[e].job,
                 claim |-> exec[e].claim, outcome |-> o]

\* No process: the agent is not configured or its executable is missing, or
\* the job is a marketplace operation, which runs inside the worker.
EndWithoutProcess(e, o) ==
    /\ exec[e].phase = "claimed"
    /\ o \in IF e \in Workers THEN {"succeeded", "failed", "retryable"} ELSE {"failed"}
    /\ exec' = [exec EXCEPT ![e] = Exited(e, o)]
    /\ UNCHANGED <<jobVars, pid, eligible, result, recoveries, lease, attempts,
                   submitting, procs, cancel, faults>>

\* on_started: the worker stores the process id whatever the job's status
\* (_set_pid); run-next requires a running job (set_process_id), and when it
\* is not, the supervisor kills the process and the run counts as failed.
Started(e) ==
    /\ exec[e].phase = "spawned"
    /\ LET j == exec[e].job
           c == exec[e].claim IN
        \/ /\ e \in Workers \/ status[j] = "running"
           /\ pid' = [pid EXCEPT ![j] = c]
           /\ exec' = [exec EXCEPT ![e].phase = "running"]
           /\ UNCHANGED procs
        \/ /\ e \notin Workers /\ status[j] # "running"
           /\ procs' = [procs EXCEPT ![j] = @ \ {c}]
           /\ exec' = [exec EXCEPT ![e] = Exited(e, "failed")]
           /\ UNCHANGED pid
    /\ UNCHANGED <<jobVars, eligible, result, recoveries, lease, attempts,
                   submitting, cancel, faults>>

\* The process ends by itself or at its timeout; one that a canceller killed
\* is seen to fail.
ProcessEnds(e, o) ==
    /\ exec[e].phase = "running"
    /\ exec[e].claim \in procs[exec[e].job] \/ o \in {"failed", "retryable"}
    /\ exec' = [exec EXCEPT ![e] = Exited(e, o)]
    /\ procs' = [procs EXCEPT ![exec[e].job] = @ \ {exec[e].claim}]
    /\ UNCHANGED <<jobVars, pid, eligible, result, recoveries, lease, attempts,
                   submitting, cancel, faults>>

\* Nobody waits for this process any more.
Orphan(j, c) ==
    /\ c \in procs[j]
    /\ \A e \in Executors : ~(/\ Holds(e, j)
                              /\ exec[e].claim = c
                              /\ exec[e].phase \in {"spawned", "running"})

OrphanExits(j, c) ==
    /\ Orphan(j, c)
    /\ procs' = [procs EXCEPT ![j] = @ \ {c}]
    /\ UNCHANGED <<jobVars, pid, eligible, result, recoveries, lease, attempts,
                   submitting, exec, cancel, faults>>

-----------------------------------------------------------------------------
(* Completion *)

\* Seeded fault: the worker does not look at its lease before completing.
ReadWithoutLease(e) ==
    /\ exec[e].phase = "exited"
    /\ exec' = [exec EXCEPT ![e] =
                   [phase |-> "completing", job |-> @.job, claim |-> @.claim,
                    outcome |-> @.outcome, seen |-> version[@.job]]]
    /\ UNCHANGED <<jobVars, pid, eligible, result, recoveries, lease, attempts,
                   submitting, procs, cancel, faults>>

\* The row is read.  A worker first checks its lease; when it is gone, another
\* one's or expired, the exception ends the task and nothing is written.
ReadForCompletion(e) ==
    /\ exec[e].phase = "exited"
    /\ exec' = [exec EXCEPT ![e] =
                   IF e \in Workers /\ ~LeaseValid(e)
                   THEN Idle
                   ELSE [phase |-> "completing", job |-> @.job, claim |-> @.claim,
                         outcome |-> @.outcome, seen |-> version[@.job]]]
    /\ UNCHANGED <<jobVars, pid, eligible, result, recoveries, lease, attempts,
                   submitting, procs, cancel, faults>>

\* The columns store_execution_result overwrites.  The process id it stores, if
\* any, is that of a process that has ended, for which 0 stands as well.
StoreResult(e, j) ==
    /\ result' = [result EXCEPT ![j] = [outcome |-> exec[e].outcome, claim |-> exec[e].claim]]
    /\ pid' = [pid EXCEPT ![j] = 0]

\* Seeded fault: one retry too many.
WillRetryOnceMore(e, j) ==
    /\ exec[e].outcome = "retryable"
    /\ lease[j].attempt <= RetryMaxAttempts

\* The retry policy.
WillRetry(e, j) ==
    /\ exec[e].outcome = "retryable"
    /\ lease[j].attempt < RetryMaxAttempts

\* Seeded fault: a retried attempt keeps its row open.
CloseFinalAttempt(e, j) ==
    attempts' = IF WillRetry(e, j) THEN attempts
                ELSE [attempts EXCEPT ![j][lease[j].attempt] = TargetOf(exec[e].outcome)]

\* ExecutionAttemptRepository.complete: the row gets the target status even when
\* the job is queued again.
CloseAttempt(e, j) ==
    attempts' = [attempts EXCEPT ![j][lease[j].attempt] = TargetOf(exec[e].outcome)]

\* What can still fail after the read: the version check of the transition, and
\* the expiry check of leases.release, made on the lease row as it was read.
CompletionValid(e) ==
    /\ Unmoved(exec[e].job, exec[e].seen)
    /\ status[exec[e].job] = "running"
    /\ lease[exec[e].job].ticks > 0

\* WorkerDaemon._complete, committed: result, transition or retry, attempt row
\* and lease row in one transaction.
Complete(e) ==
    /\ e \in Workers
    /\ exec[e].phase = "completing"
    /\ CompletionValid(e)
    /\ LET j == exec[e].job IN
        /\ StoreResult(e, j)
        /\ Transition({j}, IF WillRetry(e, j) THEN "queued" ELSE TargetOf(exec[e].outcome))
        /\ eligible' = [eligible EXCEPT ![j] = ~WillRetry(e, j)]
        /\ CloseAttempt(e, j)
        /\ lease' = [lease EXCEPT ![j] = NoLease]
    /\ exec' = [exec EXCEPT ![e] = Idle]
    /\ UNCHANGED <<recoveries, submitting, procs, cancel, faults>>

\* Any failed check rolls the whole transaction back; the task ends.
CompletionRollsBack(e) ==
    /\ exec[e].phase = "completing"
    /\ IF e \in Workers THEN ~CompletionValid(e)
                        ELSE ~Unmoved(exec[e].job, exec[e].seen)
    /\ exec' = [exec EXCEPT ![e] = Idle]
    /\ UNCHANGED <<jobVars, pid, eligible, result, recoveries, lease, attempts,
                   submitting, procs, cancel, faults>>

\* OrchestratorService._finish: the result is stored; a job cancelled in the
\* meantime keeps its status.
Finish(e) ==
    /\ e \in Runners
    /\ exec[e].phase = "completing"
    /\ LET j == exec[e].job IN
        /\ Unmoved(j, exec[e].seen)
        /\ StoreResult(e, j)
        /\ IF status[j] = "cancelled"
           THEN UNCHANGED jobVars
           ELSE Transition({j}, TargetOf(exec[e].outcome))
    /\ exec' = [exec EXCEPT ![e] = Idle]
    /\ UNCHANGED <<eligible, recoveries, lease, attempts, submitting, procs,
                   cancel, faults>>

-----------------------------------------------------------------------------
(* Cancellation: cancel() runs in an API or CLI process of its own, so the   *)
(* supervisor it asks first does not know the job's process and the recorded *)
(* process id is what it can signal.                                         *)

CancelRead(j) ==
    /\ cancel[j] = NoCancel
    /\ status[j] \in {"pending", "queued", "running"}
    /\ cancel' = [cancel EXCEPT ![j] = [phase |-> "read", seen |-> version[j], pid |-> pid[j]]]
    /\ UNCHANGED <<jobVars, pid, eligible, result, recoveries, lease, attempts,
                   submitting, exec, procs, faults>>

\* Committed: only a running job has a process to signal.  The lease row stays.
CancelCommit(j) ==
    /\ cancel[j].phase = "read"
    /\ Unmoved(j, cancel[j].seen)
    /\ Transition({j}, "cancelled")
    /\ cancel' = [cancel EXCEPT ![j] =
                     IF status[j] = "running" THEN [phase |-> "signal", pid |-> @.pid]
                                              ELSE NoCancel]
    /\ UNCHANGED <<pid, eligible, result, recoveries, lease, attempts,
                   submitting, exec, procs, faults>>

CancelStale(j) ==
    /\ cancel[j].phase = "read"
    /\ ~Unmoved(j, cancel[j].seen)
    /\ cancel' = [cancel EXCEPT ![j] = NoCancel]
    /\ UNCHANGED <<jobVars, pid, eligible, result, recoveries, lease, attempts,
                   submitting, exec, procs, faults>>

\* terminate_external_process_group on the recorded process, when it is
\* alive; otherwise signal_failed is audited and cancel() raises.
CancelSignal(j) ==
    /\ cancel[j].phase = "signal"
    /\ procs' = [procs EXCEPT ![j] = @ \ {cancel[j].pid}]
    /\ cancel' = [cancel EXCEPT ![j] = NoCancel]
    /\ UNCHANGED <<jobVars, pid, eligible, result, recoveries, lease, attempts,
                   submitting, exec, faults>>

\* The cancelling process dies between the commit and the signal.
CancellerCrash(j) ==
    /\ cancel[j].phase = "signal"
    /\ faults < MaxFaults
    /\ faults' = faults + 1
    /\ cancel' = [cancel EXCEPT ![j] = NoCancel]
    /\ UNCHANGED <<jobVars, pid, eligible, result, recoveries, lease, attempts,
                   submitting, exec, procs>>

-----------------------------------------------------------------------------
(* Failure and recovery *)

\* An executor is killed.  Its agent process has a session of its own and
\* goes on; a restarted worker has a new identity and no lease token.
Crash(e) ==
    /\ exec[e] # Idle
    /\ faults < MaxFaults
    /\ faults' = faults + 1
    /\ exec' = [exec EXCEPT ![e] = Idle]
    /\ UNCHANGED <<jobVars, pid, eligible, result, recoveries, lease, attempts,
                   submitting, procs, cancel>>

\* The worker drains for shutdown_grace_seconds and then drops its tasks; the
\* supervisor kills the process of a task that is cancelled this way.
AbandonAtShutdown(e) ==
    /\ e \in Workers
    /\ exec[e].phase = "running"
    /\ faults < MaxFaults
    /\ faults' = faults + 1
    /\ procs' = [procs EXCEPT ![exec[e].job] = @ \ {exec[e].claim}]
    /\ exec' = [exec EXCEPT ![e] = Idle]
    /\ UNCHANGED <<jobVars, pid, eligible, result, recoveries, lease, attempts,
                   submitting, cancel>>

\* Seeded fault: the reaper leaves a job alone once its attempts are used up.
ReapableWhileRetrying == {j \in Jobs : /\ lease[j] # NoLease
                                       /\ lease[j].ticks = 0
                                       /\ lease[j].attempt < RetryMaxAttempts
                                       /\ status[j] = "running"}

\* The running jobs whose lease has expired.
Reapable == {j \in Jobs : /\ lease[j] # NoLease
                          /\ lease[j].ticks = 0
                          /\ status[j] = "running"}

\* Seeded faults: the lease row survives; the recovery is not counted.
TakeBackKeepingLease(D) ==
    /\ recoveries' = [j \in Jobs |-> IF j \in D THEN recoveries[j] + 1 ELSE recoveries[j]]
    /\ UNCHANGED lease

TakeBackUncounted(D) ==
    /\ lease' = [j \in Jobs |-> IF j \in D THEN NoLease ELSE lease[j]]
    /\ UNCHANGED recoveries

\* What the reaper writes beside the job's status.
TakeBack(D) ==
    /\ lease' = [j \in Jobs |-> IF j \in D THEN NoLease ELSE lease[j]]
    /\ recoveries' = [j \in Jobs |-> IF j \in D THEN recoveries[j] + 1 ELSE recoveries[j]]

\* WorkerDaemon.reap, one transaction.  The attempt row of the dead worker is
\* left as it is.
Reap ==
    /\ Reapable # {}
    /\ Transition(Reapable, IF RecoveryPolicy = "fail" THEN "failed" ELSE "queued")
    /\ TakeBack(Reapable)
    /\ UNCHANGED <<pid, eligible, result, attempts, submitting, exec, procs,
                   cancel, faults>>

-----------------------------------------------------------------------------
Submission(j) ==
    \/ Create(j)
    \/ \E to \in {"queued", "failed"} : Route(j, to)
    \/ EnqueueMarketplace(j)
    \/ SubmitterCrash(j)

Execution(e) ==
    \/ \E j \in Jobs : Select(e, j)
    \/ ClaimLost(e)
    \/ Claim(e)
    \/ RunNext(e)
    \/ Spawn(e)
    \/ Started(e)
    \/ \E o \in Outcome : EndWithoutProcess(e, o) \/ ProcessEnds(e, o)
    \/ ReadForCompletion(e)
    \/ Complete(e)
    \/ CompletionRollsBack(e)
    \/ Finish(e)

Cancellation(j) ==
    CancelRead(j) \/ CancelCommit(j) \/ CancelStale(j) \/ CancelSignal(j) \/ CancellerCrash(j)

Next ==
    \/ \E j \in Jobs : Submission(j) \/ Cancellation(j) \/ Tick(j) \/ BecomeEligible(j)
    \/ \E e \in Executors : Execution(e) \/ Heartbeat(e) \/ Crash(e) \/ AbandonAtShutdown(e)
    \/ \E j \in Jobs : \E c \in procs[j] : OrphanExits(j, c)
    \/ Reap

Spec == Init /\ [][Next]_vars

\* Every process but the submitters, the operators and the cancellers keeps
\* going, an operator runs "worker reap" again and again, and time passes.
Fairness ==
    /\ \A e \in Executors : WF_vars(Execution(e))
    /\ \A j \in Jobs : WF_vars(Tick(j)) /\ WF_vars(BecomeEligible(j))
    /\ \A j \in Jobs : WF_vars(\E to \in {"queued", "failed"} : Route(j, to))
    /\ WF_vars(Reap)

FairSpec == Spec /\ Fairness

-----------------------------------------------------------------------------
(* Properties *)

\* Every variable stays in its type; a slot holds a job only with a claim.
TypeOK ==
    /\ status \in [Jobs -> Status]
    /\ version \in [Jobs -> Nat]
    /\ pid \in [Jobs -> Nat]
    /\ eligible \in [Jobs -> BOOLEAN]
    /\ ahead \in [Jobs -> SUBSET Jobs]
    /\ result \in [Jobs -> Result]
    /\ recoveries \in [Jobs -> Nat]
    /\ lease \in [Jobs -> LeaseRow \cup {NoLease}]
    /\ attempts \in [Jobs -> Seq(AttemptStatus)]
    /\ submitting \in [Jobs -> BOOLEAN]
    /\ exec \in [Executors -> {Idle} \cup Selected \cup Holding]
    /\ procs \in [Jobs -> SUBSET Nat]
    /\ cancel \in [Jobs -> {NoCancel} \cup Cancelling]
    /\ faults \in 0 .. MaxFaults

\* A lease row outlives the run it was made for only when the job was
\* cancelled: in particular a queued job never has one, so the INSERT of the
\* next claim cannot fail on the primary key and take the worker down.
StrayLeaseOnlyAfterCancel ==
    \A j \in Jobs : lease[j] # NoLease => status[j] \in {"running", "cancelled"}

\* The executors whose completion the code would accept now: a worker by its
\* lease, a run-next by the job's status alone.
MayComplete(e, j) ==
    /\ Holds(e, j)
    /\ status[j] = "running"
    /\ e \in Workers => LeaseValid(e)

\* However claims, crashes, expiries, recoveries and late executors interleave,
\* at most one executor's result can be accepted for a job at any time, although
\* run-next takes no lease and checks none.
OneOwner ==
    \A j \in Jobs : \A e, f \in Executors :
        MayComplete(e, j) /\ MayComplete(f, j) => e = f

\* The result stored with a success or a timeout is the one of the claim that
\* ended the job, never that of an executor whose job was taken back.
FinishedResultIsCurrent ==
    \A j \in Jobs :
        status[j] \in {"succeeded", "timed_out"} =>
            result[j] = [outcome |-> status[j], claim |-> version[j] - 1]

\* An attempt row still marked running belongs to the present lease or to one
\* the reaper took back (it never closes them): no other path leaves one open.
AttemptAccounting ==
    \A j \in Jobs :
        Cardinality({n \in DOMAIN attempts[j] : attempts[j][n] = "running"})
            = recoveries[j] + IF lease[j] = NoLease THEN 0 ELSE 1

\* Retries and recoveries share one numbering of attempts; no mixture of them
\* lets a job fail in a worker more often than retry_max_attempts.
RetryBudget ==
    \A j \in Jobs :
        Cardinality({n \in DOMAIN attempts[j] : attempts[j][n] = "failed"}) <= RetryMaxAttempts

\* "Not an exactly-once guarantee": agent processes of one job can overlap, but
\* each overlap costs a recorded recovery.
OverlapNeedsRecovery ==
    \A j \in Jobs : Cardinality(procs[j]) <= recoveries[j] + 1

\* The job table implements the lifecycle its clients rely on: a job ends once,
\* is held by one claim after another, and shows no result of an older claim.
PhaseOf(s) ==
    CASE s = "new" -> "absent"
      [] s \in {"pending", "queued"} -> "waiting"
      [] s = "running" -> "held"
      [] OTHER -> "finished"

Lifecycle == INSTANCE JobLifecycle WITH
    phase <- [j \in Jobs |-> PhaseOf(status[j])],
    term <- version,
    outcome <- [j \in Jobs |-> result[j].claim]

ImplementsLifecycle == Lifecycle!Spec

\* A job that runs under a lease stops running: it completes, is cancelled, or
\* the lease expires and the reaper takes the job back.
LeasedRunEnds ==
    \A j \in Jobs : (status[j] = "running" /\ lease[j] # NoLease) ~> status[j] # "running"

\* README.md, line 9: "Jobs survive process restarts: workers claim leases,
\* heartbeat, retry, cancel, and recover work".  No job stays running for ever
\* because the process that ran it is gone.
JobsSurviveRestarts == \A j \in Jobs : status[j] = "running" ~> status[j] # "running"
=============================================================================
