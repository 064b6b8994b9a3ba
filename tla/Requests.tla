------------------------------ MODULE Requests ------------------------------
(* POST /jobs and POST /inventory (src/goliath/api.py) under an API key and one
   Idempotency-Key of its principal, with AuthRepository and
   IdempotencyRepository (src/goliath/db/operations.py).

   The row of the idempotency key belongs to the key, not to the endpoint, and
   the hash of the body tells the endpoints' requests apart: a body is its
   endpoint and its content.  Without the header a request makes what it asks
   for each time.  The two endpoints write the row at different moments, and
   only POST /jobs commits the session that removed an expired one. *)
EXTENDS Naturals, Sequences, FiniteSets

CONSTANTS Callers,          \* requests in flight
          JobBodies,        \* bodies of POST /jobs
          ItemBodies,       \* bodies of POST /inventory
          MaxMade,          \* bound: jobs and items made
          MaxExpiries,      \* bound: expiries of the row
          MaxRequestFaults  \* bound: requests that die

VARIABLES apiKey,        \* the ApiKey row: "valid", "expired" or "revoked"
          record,        \* the IdempotencyRecord row, or NoRecord
          made,          \* the bodies of the jobs and items made, in order
          request,       \* each request in flight
          answers,       \* history: <<body, resource>> of the ok answers
          expiries, requestFaults,
          doubled        \* history: why there may be more than one resource

vars == <<apiKey, record, made, request, answers, expiries, requestFaults, doubled>>

RequestBodies == JobBodies \cup ItemBodies
NoRecord == [resource |-> 0, fresh |-> FALSE]

\* resource: what the request made, or found expired; removing: it has deleted the expired row and
\* holds its lock until it commits.
Idle == [phase |-> "idle", body |-> "none", resource |-> 0, removing |-> FALSE]

Init ==
    /\ apiKey = "valid" /\ record = NoRecord /\ made = <<>>
    /\ request = [c \in Callers |-> Idle]
    /\ answers = {} /\ expiries = 0 /\ requestFaults = 0 /\ doubled = {}

At(c, phase) == request[c].phase = phase
Done(c) == request' = [request EXCEPT ![c] = Idle]
IsJob(c) == request[c].body \in JobBodies

-----------------------------------------------------------------------------
(* Keys *)

\* revoke, and an expiry that has come; nothing makes a key valid again.
KeyEnds ==
    /\ apiKey = "valid" /\ apiKey' \in {"expired", "revoked"}
    /\ UNCHANGED <<record, made, request, answers, expiries, requestFaults, doubled>>

\* AuthRepository.authenticate
Usable == apiKey = "valid"

\* require_scope: the key is authenticated once, before the request begins.
Authenticate(c) ==
    /\ request[c] = Idle /\ Usable
    /\ \E b \in RequestBodies :
         request' = [request EXCEPT ![c] = [Idle EXCEPT !.phase = "authenticated", !.body = b]]
    /\ UNCHANGED <<apiKey, record, made, answers, expiries, requestFaults, doubled>>

-----------------------------------------------------------------------------
(* Requests *)

SameBody(c) == made[record.resource] = request[c].body

\* The first request's resource, when the row's hash is that of this body; a
\* conflict for another body.
Replay(c) ==
    /\ At(c, "authenticated") /\ record.fresh
    /\ answers' = IF SameBody(c) THEN answers \cup {<<request[c].body, record.resource>>}
                  ELSE answers
    /\ Done(c)
    /\ UNCHANGED <<apiKey, record, made, expiries, requestFaults, doubled>>

\* Another request has looked, and not yet written the row.
Crowded(c) == \E d \in Callers \ {c} : request[d].phase \in {"expired", "looked", "made"}

\* No row, or an expired one, which is to be deleted first.
Lookup(c) ==
    /\ At(c, "authenticated") /\ ~record.fresh
    /\ request' = [request EXCEPT ![c].phase = IF record = NoRecord THEN "looked" ELSE "expired",
                                  ![c].resource = record.resource]
    /\ doubled' = IF Crowded(c) THEN doubled \cup {"crowd"} ELSE doubled
    /\ UNCHANGED <<apiKey, record, made, answers, expiries, requestFaults>>

\* Waits for the row's lock; by then the row may be another one, which is not
\* deleted.  A job's session keeps the lock; an item's is closed without a
\* commit, which puts the row back.
RemoveExpired(c) ==
    /\ At(c, "expired") /\ ~\E d \in Callers : request[d].removing
    /\ request' = [request EXCEPT ![c].phase = "looked",
                                  ![c].removing = /\ record.resource = request[c].resource
                                                  /\ ~record.fresh /\ IsJob(c)]
    /\ UNCHANGED <<apiKey, record, made, answers, expiries, requestFaults, doubled>>

\* The job or the item is committed by its service.
Make(c) ==
    /\ At(c, "looked") /\ Len(made) < MaxMade
    /\ made' = Append(made, request[c].body)
    /\ request' = [request EXCEPT ![c].phase = "made", ![c].resource = Len(made) + 1]
    /\ UNCHANGED <<apiKey, record, answers, expiries, requestFaults, doubled>>

\* Seeded fault: a row in the way is replaced.
MayInsertOver(c) == TRUE

\* The principal and the key of a row are unique.
MayInsert(c) == record = NoRecord \/ request[c].removing

\* Otherwise the insert fails and the request with it, its resource made.
Record(c) ==
    /\ At(c, "made")
    /\ IF MayInsert(c)
       THEN /\ record' = [resource |-> request[c].resource, fresh |-> TRUE]
            /\ answers' = answers \cup {<<request[c].body, request[c].resource>>}
       ELSE UNCHANGED <<record, answers>>
    /\ Done(c)
    /\ UNCHANGED <<apiKey, made, expiries, requestFaults, doubled>>

\* idempotency_expiration_seconds have passed.
RecordExpires ==
    /\ record.fresh /\ expiries < MaxExpiries
    /\ record' = [record EXCEPT !.fresh = FALSE] /\ expiries' = expiries + 1
    /\ doubled' = doubled \cup {"expired"}
    /\ UNCHANGED <<apiKey, made, request, answers, requestFaults>>

\* What it made stays; what it had deleted does too.
RequestDies(c) ==
    /\ request[c] # Idle /\ requestFaults < MaxRequestFaults
    /\ requestFaults' = requestFaults + 1
    /\ doubled' = IF At(c, "made") THEN doubled \cup {"died"} ELSE doubled
    /\ Done(c)
    /\ UNCHANGED <<apiKey, record, made, answers, expiries>>

Next ==
    \/ KeyEnds \/ RecordExpires
    \/ \E c \in Callers :
         \/ Authenticate(c) \/ Replay(c) \/ Lookup(c) \/ RemoveExpired(c) \/ Make(c) \/ Record(c)
         \/ RequestDies(c)

Spec == Init /\ [][Next]_vars

-----------------------------------------------------------------------------
(* Properties *)

\* The rows and the requests have their types; one request at a time holds the
\* lock of the expired row.
TypeOK ==
    /\ apiKey \in {"valid", "expired", "revoked"} /\ made \in Seq(RequestBodies)
    /\ record \in [resource : 0..Len(made), fresh : BOOLEAN]
    /\ \A c \in Callers :
         /\ request[c].phase \in {"idle", "authenticated", "expired", "looked", "made"}
         /\ request[c].body \in RequestBodies \cup {"none"}
         /\ request[c].resource \in 0..Len(made)
    /\ Cardinality({c \in Callers : request[c].removing}) <= 1
    /\ expiries \in 0..MaxExpiries /\ requestFaults \in 0..MaxRequestFaults
    /\ doubled \subseteq {"crowd", "died", "expired"}

\* Two resources are made under one idempotency key only if two requests
\* overlapped, one died before it wrote the row, or the row expired; and even
\* then, until the row expires, one resource is all that anybody is told of.
\* What a caller is told of was made from the caller's own body.
IdempotentOnce ==
    /\ Len(made) > 1 => doubled # {}
    /\ "expired" \notin doubled => Cardinality({r[2] : r \in answers}) <= 1
    /\ \A r \in answers : made[r[2]] = r[1]
=============================================================================
