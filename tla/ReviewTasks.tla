---------------------------- MODULE ReviewTasks -----------------------------
(* The review tasks of one resource and one reason: ReviewTaskRepository of
   src/goliath/db/ingestion_repositories.py, driven by ReviewService.  The
   services that find something wrong open a task; reviewers claim, complete
   and dismiss it, one at a time or in batches; overdue ones expire.

   The first task holds the dedupe key, which is unique.  Closing and expiring
   load a task and write it by primary key later; claiming compares and swaps. *)
EXTENDS Naturals, Sequences

CONSTANTS Producers,      \* callers of create_idempotent
          TaskReviewers,  \* reviewers
          MaxTasks        \* bound: tasks opened

VARIABLES task,      \* ReviewTask rows; the first one holds the bare key
          producer,  \* what each producer found
          desk,      \* the task each reviewer is closing, as it was loaded
          sweep,     \* tasks expire_due has loaded
          batch,     \* a bulk completion: tasks left, and whether one failed
          closed,    \* history: tasks that were closed
          again,     \* history: tasks that were closed more than once
          together   \* history: tasks closed while another closer had them loaded

history == <<closed, again, together>>
vars == <<task, producer, desk, sweep, batch, history>>

Undone == {"open", "claimed"}
Closed == {"completed", "dismissed", "expired"}
Task == [status : Undone \cup Closed, version : Nat]

NoDesk == [on |-> 0, version |-> 0]
NoBatch == [left |-> {}, failed |-> FALSE]

Init ==
    /\ task = <<>>
    /\ producer = [p \in Producers |-> "idle"]
    /\ desk = [r \in TaskReviewers |-> NoDesk]
    /\ sweep = {} /\ batch = NoBatch
    /\ closed = {} /\ again = {} /\ together = {}

-----------------------------------------------------------------------------
(* Opening *)

\* create_idempotent returns the task that holds the key while it is undone.
OpensAnother(t) == t.status \in Closed

\* It looks the key up; once its task is closed, the key is varied.
Look(p) ==
    /\ producer[p] = "idle" /\ Len(task) < MaxTasks
    /\ \/ task = <<>> /\ producer' = [producer EXCEPT ![p] = "first"]
       \/ /\ task # <<>> /\ OpensAnother(task[1])
          /\ producer' = [producer EXCEPT ![p] = "another"]
    /\ UNCHANGED <<task, desk, sweep, batch, history>>

\* The second of two producers of the first task violates the key.
Insert(p) ==
    /\ producer[p] # "idle"
    /\ producer' = [producer EXCEPT ![p] = "idle"]
    /\ task' = IF producer[p] = "first" /\ task # <<>> THEN task
               ELSE Append(task, [status |-> "open", version |-> 1])
    /\ UNCHANGED <<desk, sweep, batch, history>>

-----------------------------------------------------------------------------
(* Reviewing *)

\* claim's compare-and-swap.
Claimable(t, version) == task[t].version = version /\ task[t].status = "open"

\* A reviewer claims a task with a version it had when it was looked at.
ClaimTask ==
    /\ \E t \in DOMAIN task : \E version \in 1..task[t].version :
         /\ Claimable(t, version)
         /\ task' = [task EXCEPT ![t] = [status |-> "claimed", version |-> version + 1]]
    /\ UNCHANGED <<producer, desk, sweep, batch, history>>

\* Seeded fault: _close takes a task that is already closed.
LoadAnyToClose(r) ==
    /\ desk[r] = NoDesk
    /\ \E t \in DOMAIN task :
         desk' = [desk EXCEPT ![r] = [on |-> t, version |-> task[t].version]]
    /\ UNCHANGED <<task, producer, sweep, batch, history>>

\* _close, also for the task linked to a reviewed comparable: anybody may close
\* a task, claimed or not.
LoadToClose(r) ==
    /\ desk[r] = NoDesk
    /\ \E t \in DOMAIN task :
         /\ task[t].status \in Undone
         /\ desk' = [desk EXCEPT ![r] = [on |-> t, version |-> task[t].version]]
    /\ UNCHANGED <<task, producer, sweep, batch, history>>

Close(t, status, version) ==
    task' = [task EXCEPT ![t] = [status |-> status, version |-> version]]

AtDesk(reviewers) == {desk[r].on : r \in reviewers}
InSweep == {s[1] : s \in sweep}

\* The history of closing these tasks, of which others hold those held.
Closes(tasks, held) ==
    /\ closed' = closed \cup tasks
    /\ again' = again \cup (tasks \cap closed)
    /\ together' = together \cup (tasks \cap held)

StoreClosed(r) ==
    /\ desk[r] # NoDesk
    /\ \E status \in {"completed", "dismissed"} :
         Close(desk[r].on, status, desk[r].version + 1)
    /\ Closes({desk[r].on}, InSweep \cup AtDesk(TaskReviewers \ {r}))
    /\ desk' = [desk EXCEPT ![r] = NoDesk]
    /\ UNCHANGED <<producer, sweep, batch>>

\* expire_due loads what is due (all undone tasks may be) and then writes it.
LoadDue ==
    /\ sweep = {}
    /\ \E due \in SUBSET {t \in DOMAIN task : task[t].status \in Undone} :
         due # {} /\ sweep' = {<<t, task[t].version>> : t \in due}
    /\ UNCHANGED <<task, producer, desk, batch, history>>

StoreExpired ==
    /\ sweep # {}
    /\ task' = [t \in DOMAIN task |->
         IF t \in InSweep
         THEN [status |-> "expired", version |-> (CHOOSE s \in sweep : s[1] = t)[2] + 1]
         ELSE task[t]]
    /\ Closes(InSweep, AtDesk(TaskReviewers))
    /\ sweep' = {}
    /\ UNCHANGED <<producer, desk, batch>>

\* bulk_complete_tasks: each item is a transaction of its own.
StartBatch ==
    /\ batch = NoBatch /\ task # <<>>
    /\ batch' = [left |-> DOMAIN task, failed |-> FALSE]
    /\ UNCHANGED <<task, producer, desk, sweep, history>>

BatchItem ==
    /\ \E t \in batch.left :
         \/ /\ task[t].status \in Undone
            /\ Close(t, "completed", task[t].version + 1)
            /\ Closes({t}, InSweep \cup AtDesk(TaskReviewers))
            /\ batch' = [batch EXCEPT !.left = @ \ {t}]
         \/ /\ task[t].status \in Closed /\ UNCHANGED <<task, history>>
            /\ batch' = [batch EXCEPT !.left = @ \ {t}, !.failed = TRUE]
    /\ UNCHANGED <<producer, desk, sweep>>

\* _bulk_result: what was done stays done, also when it is reported as rolled
\* back because an item failed in a batch meant to be all or nothing.
EndBatch ==
    /\ batch # NoBatch /\ batch.left = {}
    /\ batch' = NoBatch
    /\ UNCHANGED <<task, producer, desk, sweep, history>>

Next ==
    \/ \E p \in Producers : Look(p) \/ Insert(p)
    \/ \E r \in TaskReviewers : LoadToClose(r) \/ StoreClosed(r)
    \/ ClaimTask \/ LoadDue \/ StoreExpired \/ StartBatch \/ BatchItem \/ EndBatch

Spec == Init /\ [][Next]_vars

-----------------------------------------------------------------------------
(* Properties *)

\* Rows, reviewers and batches have their types.
TypeOK ==
    /\ task \in Seq(Task)
    /\ producer \in [Producers -> {"idle", "first", "another"}]
    /\ desk \in [TaskReviewers -> [on : 0..Len(task), version : Nat]]
    /\ \A s \in sweep : s[1] \in DOMAIN task
    /\ batch.left \subseteq DOMAIN task /\ batch.failed \in BOOLEAN
    /\ closed \cup again \cup together \subseteq DOMAIN task

\* While the task that holds the key is undone, it is the only one that is.  And
\* a task is closed once, and keeps its first outcome, unless another closer, a
\* reviewer or the expiry, had it loaded at the time: no later reviewer, batch or
\* expiry closes it again.
ReviewedOnce ==
    /\ Len(task) > 0 /\ task[1].status \in Undone =>
          \A t \in 2..Len(task) : task[t].status \in Closed
    /\ again \subseteq together
=============================================================================
