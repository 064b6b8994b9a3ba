----------------------------- MODULE MediaJobs ------------------------------
(* One uploaded image: its ingestion (MediaIngestionService), and the leased
   jobs that process it (ImageProcessingService, MediaProcessingJobRepository
   of src/goliath/db/ingestion_repositories.py).

   A transaction is one action; the reaper, which loads the expired jobs and
   then writes them by primary key, is split between the two.  A claim is
   named by the attempt number it created, which stands for its token.  The
   lease is never renewed, so it may expire under a worker that still runs. *)
EXTENDS Naturals, Sequences

CONSTANTS MediaClients,      \* callers of ingest_bytes and enqueue
          MediaWorkers,      \* callers of run_next
          MediaMaxAttempts,  \* processing_max_attempts
          MaxMediaJobs,      \* bound: jobs inserted for the image
          MaxMediaFaults     \* bound: worker deaths and reaper rounds

VARIABLES media,        \* InventoryMedia.status; "none" before the row exists
          root,         \* the root the bytes were written to
          mediaJob,     \* its MediaProcessingJob rows, in order of creation
          mediaTry,     \* by job: the status of its MediaProcessingAttempt rows
          results,      \* it has derivations, a hash and a quality result
          uploader,     \* what each client does
          mediaWorker,  \* what each worker does
          mediaReap,    \* the expired jobs the reaper has loaded
          raced,        \* history: jobs a reaper wrote after they had changed
          mediaFaults   \* faults so far

client == <<media, root, uploader>>
vars == <<client, mediaJob, mediaTry, results, mediaWorker, mediaReap, raced,
          mediaFaults>>

MediaStatus == {"validated", "quarantined", "processing", "processed",
                "failed", "archived"}

MediaJob == [status : {"queued", "running", "succeeded", "failed"},
             attempts : Nat,
             token : Nat,          \* lease_token_hash, 0 for NULL
             expired : BOOLEAN]    \* lease_expires_at has passed

Attempt == {"running", "succeeded", "failed"}

NewJob == [status |-> "queued", attempts |-> 0, token |-> 0, expired |-> FALSE]
Idle == [phase |-> "idle", job |-> 0, token |-> 0]

Init ==
    /\ media = "none" /\ root = "none"
    /\ mediaJob = <<>> /\ mediaTry = <<>> /\ results = FALSE
    /\ uploader = [c \in MediaClients |-> "idle"]
    /\ mediaWorker = [w \in MediaWorkers |-> Idle]
    /\ mediaReap = {} /\ raced = 0 /\ mediaFaults = 0

-----------------------------------------------------------------------------
(* Ingestion *)

\* A job that makes enqueue return without inserting one.
Live == {"queued", "running", "succeeded"}
HasLiveJob == \E j \in DOMAIN mediaJob : mediaJob[j].status \in Live

InsertJob ==
    /\ mediaJob' = Append(mediaJob, NewJob)
    /\ mediaTry' = Append(mediaTry, <<>>)

\* ingest_bytes looks the checksum up in a transaction of its own.
Upload(c) ==
    /\ uploader[c] = "idle" /\ media = "none"
    /\ uploader' = [uploader EXCEPT ![c] = "adding"]
    /\ UNCHANGED <<media, root, mediaJob, mediaTry, results, mediaWorker,
                   mediaReap, raced, mediaFaults>>

\* The row of a second upload of the same bytes is refused.  An image with
\* findings goes to the quarantine root and to a reviewer; one without gets a
\* job in the transaction that inserts it.
Register(c) ==
    /\ uploader[c] = "adding"
    /\ uploader' = [uploader EXCEPT ![c] = "idle"]
    /\ \/ media # "none" /\ UNCHANGED <<media, root, mediaJob, mediaTry>>
       \/ /\ media = "none"
          /\ media' = "validated" /\ root' = "media" /\ InsertJob
       \/ /\ media = "none"
          /\ media' = "quarantined" /\ root' = "quarantine"
          /\ UNCHANGED <<mediaJob, mediaTry>>
    /\ UNCHANGED <<results, mediaWorker, mediaReap, raced, mediaFaults>>

\* enqueue finds no live job; nothing stops a second caller from finding the
\* same before the first inserts its own.
Enqueue(c) ==
    /\ uploader[c] = "idle" /\ media # "none"
    /\ ~HasLiveJob /\ Len(mediaJob) < MaxMediaJobs
    /\ uploader' = [uploader EXCEPT ![c] = "enqueuing"]
    /\ UNCHANGED <<media, root, mediaJob, mediaTry, results, mediaWorker,
                   mediaReap, raced, mediaFaults>>

InsertEnqueued(c) ==
    /\ uploader[c] = "enqueuing"
    /\ uploader' = [uploader EXCEPT ![c] = "idle"]
    /\ InsertJob
    /\ UNCHANGED <<media, root, results, mediaWorker, mediaReap, raced, mediaFaults>>

Archive ==
    /\ media \notin {"none", "archived"}
    /\ media' = "archived"
    /\ UNCHANGED <<root, uploader, mediaJob, mediaTry, results, mediaWorker,
                   mediaReap, raced, mediaFaults>>

-----------------------------------------------------------------------------
(* Processing *)

\* Seeded fault: a claim that does not count its attempt.
ClaimUncounted(w) ==
    /\ mediaWorker[w].phase = "idle"
    /\ \E j \in DOMAIN mediaJob :
         /\ mediaJob[j].status = "queued"
         /\ mediaJob' = [mediaJob EXCEPT ![j].status = "running", ![j].token = 1]
         /\ mediaTry' = [mediaTry EXCEPT ![j] = Append(@, "running")]
         /\ mediaWorker' = [mediaWorker EXCEPT ![w] =
              [phase |-> "claimed", job |-> j, token |-> 1]]
    /\ UNCHANGED <<client, results, mediaReap, raced, mediaFaults>>

\* run_next, first transaction.
Claim(w) ==
    /\ mediaWorker[w].phase = "idle"
    /\ \E j \in DOMAIN mediaJob :
         LET n == mediaJob[j].attempts + 1 IN
         /\ mediaJob[j].status = "queued"
         /\ mediaJob' = [mediaJob EXCEPT ![j] =
              [status |-> "running", attempts |-> n, token |-> n, expired |-> FALSE]]
         /\ mediaTry' = [mediaTry EXCEPT ![j] = Append(@, "running")]
         /\ mediaWorker' = [mediaWorker EXCEPT ![w] =
              [phase |-> "claimed", job |-> j, token |-> n]]
    /\ UNCHANGED <<client, results, mediaReap, raced, mediaFaults>>

\* _process, first transaction: from any status but processed.
Begin(w) ==
    /\ mediaWorker[w].phase = "claimed"
    /\ IF media = "processed"
       THEN /\ mediaWorker' = [mediaWorker EXCEPT ![w].phase = "succeeded"]
            /\ UNCHANGED media
       ELSE /\ mediaWorker' = [mediaWorker EXCEPT ![w].phase = "deriving"]
            /\ media' = "processing"
    /\ UNCHANGED <<root, uploader, mediaJob, mediaTry, results, mediaReap, raced,
                   mediaFaults>>

\* The bytes are read from the media root alone.
Readable == root = "media"

\* _process, second transaction: the status is whatever it has become.
Produce(w) ==
    /\ mediaWorker[w].phase = "deriving" /\ Readable
    /\ results' = TRUE
    /\ media' = "processed"
    /\ mediaWorker' = [mediaWorker EXCEPT ![w].phase = "succeeded"]
    /\ UNCHANGED <<root, uploader, mediaJob, mediaTry, mediaReap, raced, mediaFaults>>

\* Any step of _process may raise.
ProcessRaises(w) ==
    /\ mediaWorker[w].phase \in {"claimed", "deriving"}
    /\ mediaWorker' = [mediaWorker EXCEPT ![w].phase = "failed"]
    /\ UNCHANGED <<client, mediaJob, mediaTry, results, mediaReap, raced, mediaFaults>>

\* _validate_lease: expiry is not looked at.
HoldsLease(w) == mediaJob[mediaWorker[w].job].token = mediaWorker[w].token

Finish(w, status, attempt) ==
    LET j == mediaWorker[w].job IN
    /\ mediaJob' = [mediaJob EXCEPT ![j].status = status, ![j].token = 0,
                                    ![j].expired = FALSE]
    /\ mediaTry' = [mediaTry EXCEPT ![j][mediaWorker[w].token] = attempt]

\* A refused lease rolls the whole transaction back, the attempt row with it.
StoreSuccess(w) ==
    /\ mediaWorker[w].phase = "succeeded"
    /\ IF HoldsLease(w) THEN Finish(w, "succeeded", "succeeded")
       ELSE UNCHANGED <<mediaJob, mediaTry>>
    /\ mediaWorker' = [mediaWorker EXCEPT ![w] = Idle]
    /\ UNCHANGED <<client, results, mediaReap, raced, mediaFaults>>

AfterFailure(attempts) == IF attempts >= MediaMaxAttempts THEN "failed" ELSE "queued"

\* Seeded fault: the job is failed and its image left as it is.
StoreFailureOfJobOnly(w) ==
    /\ mediaWorker[w].phase = "failed"
    /\ IF HoldsLease(w)
       THEN Finish(w, AfterFailure(mediaJob[mediaWorker[w].job].attempts), "failed")
       ELSE UNCHANGED <<mediaJob, mediaTry>>
    /\ mediaWorker' = [mediaWorker EXCEPT ![w] = Idle]
    /\ UNCHANGED <<client, results, mediaReap, raced, mediaFaults>>

StoreFailure(w) ==
    /\ mediaWorker[w].phase = "failed"
    /\ IF HoldsLease(w)
       THEN /\ Finish(w, AfterFailure(mediaJob[mediaWorker[w].job].attempts), "failed")
            /\ media' = IF media = "processing" THEN "failed" ELSE media
       ELSE UNCHANGED <<media, mediaJob, mediaTry>>
    /\ mediaWorker' = [mediaWorker EXCEPT ![w] = Idle]
    /\ UNCHANGED <<root, uploader, results, mediaReap, raced, mediaFaults>>

WorkerDies(w) ==
    /\ mediaWorker[w].phase # "idle" /\ mediaFaults < MaxMediaFaults
    /\ mediaWorker' = [mediaWorker EXCEPT ![w] = Idle]
    /\ mediaFaults' = mediaFaults + 1
    /\ UNCHANGED <<client, mediaJob, mediaTry, results, mediaReap, raced>>

-----------------------------------------------------------------------------
(* Recovery *)

LeaseExpires(j) ==
    /\ mediaJob[j].status = "running" /\ ~mediaJob[j].expired
    /\ mediaJob' = [mediaJob EXCEPT ![j].expired = TRUE]
    /\ UNCHANGED <<client, mediaTry, results, mediaWorker, mediaReap, raced, mediaFaults>>

ReapLoad ==
    LET found == {j \in DOMAIN mediaJob :
                    mediaJob[j].status = "running" /\ mediaJob[j].expired} IN
    /\ mediaReap = {} /\ found # {} /\ mediaFaults < MaxMediaFaults
    /\ mediaReap' = {<<j, mediaJob[j]>> : j \in found}
    /\ mediaFaults' = mediaFaults + 1
    /\ UNCHANGED <<client, mediaJob, mediaTry, results, mediaWorker, raced>>

\* Decided from what was loaded, written by primary key; the columns the load
\* found no different from what is written stay as they are now.
ReapWrite ==
    LET loaded(j) == CHOOSE r \in mediaReap : r[1] = j
        Reaped(j) == [mediaJob[j] EXCEPT !.status = AfterFailure(loaded(j)[2].attempts),
                                         !.token = 0, !.expired = FALSE] IN
    /\ mediaReap # {}
    /\ mediaJob' = [j \in DOMAIN mediaJob |->
                      IF \E r \in mediaReap : r[1] = j THEN Reaped(j) ELSE mediaJob[j]]
    /\ raced' = IF \E r \in mediaReap : mediaJob[r[1]] # r[2] THEN raced + 1 ELSE raced
    /\ mediaReap' = {}
    /\ UNCHANGED <<client, mediaTry, results, mediaWorker, mediaFaults>>

Next ==
    \/ \E c \in MediaClients : Upload(c) \/ Register(c) \/ Enqueue(c) \/ InsertEnqueued(c)
    \/ \E w \in MediaWorkers : \/ Claim(w) \/ Begin(w) \/ Produce(w) \/ ProcessRaises(w)
                               \/ StoreSuccess(w) \/ StoreFailure(w) \/ WorkerDies(w)
    \/ \E j \in DOMAIN mediaJob : LeaseExpires(j)
    \/ Archive \/ ReapLoad \/ ReapWrite

Spec == Init /\ [][Next]_vars

-----------------------------------------------------------------------------
(* Properties *)

\* Rows and workers have their types, and a job has one attempt row per
\* attempt it counted (the unique key of the rows is the attempt number).
TypeOK ==
    /\ media \in MediaStatus \cup {"none"}
    /\ root \in {"none", "media", "quarantine"}
    /\ mediaJob \in Seq(MediaJob) /\ mediaTry \in Seq(Seq(Attempt))
    /\ Len(mediaTry) = Len(mediaJob)
    /\ \A j \in DOMAIN mediaJob : mediaJob[j].attempts = Len(mediaTry[j])
    /\ results \in BOOLEAN /\ raced \in Nat /\ mediaFaults \in 0..MaxMediaFaults
    /\ uploader \in [MediaClients -> {"idle", "adding", "enqueuing"}]
    /\ mediaWorker \in [MediaWorkers ->
         [phase : {"idle", "claimed", "deriving", "succeeded", "failed"},
          job : 0..Len(mediaJob), token : Nat]]
    /\ mediaReap \subseteq (DOMAIN mediaJob) \X MediaJob

\* A processing job is tried at most processing_max_attempts times, and once
\* more for each job a reaper wrote although it had changed since it was read.
RetryOverrun ==
    \A j \in DOMAIN mediaJob : mediaJob[j].attempts <= MediaMaxAttempts + raced

\* An image is left in processing, with no job that will take it further and
\* nobody at work on it, only by a worker that died or lost its lease: an
\* attempt row still says running.
StrandedLeavesTrace ==
    ( /\ media = "processing"
      /\ \A j \in DOMAIN mediaJob : mediaJob[j].status \in {"succeeded", "failed"}
      /\ \A w \in MediaWorkers : mediaWorker[w].phase = "idle" )
    => \E j \in DOMAIN mediaTry : \E n \in DOMAIN mediaTry[j] : mediaTry[j][n] = "running"

\* However jobs overlap, a job that succeeded has its image's derivations and
\* quality result, and the bytes of a quarantined image never get any.
SucceededIsDerived ==
    /\ (\E j \in DOMAIN mediaJob : mediaJob[j].status = "succeeded") => results
    /\ results => root = "media"

\* Together: retries are bounded, an image left behind has left a trace, and a
\* success is one.
MediaAccounted == RetryOverrun /\ StrandedLeavesTrace /\ SucceededIsDerived
=============================================================================
