--------------------------- MODULE PlatformProofs ---------------------------
(* The proofs of what the services promise the callers of the API, the users who
   log in and the scheduler: idempotent requests, marketplace sessions and
   schedules.  Laid out as IntakeProofs. *)
EXTENDS MCServices, Sequences, Integers, FiniteSetTheorems, WellFoundedInduction, TLAPS

-----------------------------------------------------------------------------
(* Requests *)

Phases == {"idle", "authenticated", "expired", "looked", "made"}

\* A request that has looked the row up and not yet written it.
InFlight(c) == request[c].phase \in {"expired", "looked", "made"}

ApiTypes ==
    /\ apiKey \in {"valid", "expired", "revoked"}
    /\ made \in Seq(Api!RequestBodies)
    /\ record \in [resource : 0..Len(made), fresh : BOOLEAN]
    /\ request \in [Callers -> [phase : Phases,
                                body : Api!RequestBodies \cup {"none"},
                                resource : 0..Len(made), removing : BOOLEAN]]
    /\ expiries \in 0..MaxExpiries /\ requestFaults \in 0..MaxRequestFaults
    /\ doubled \subseteq {"crowd", "died", "expired"}

\* A fresh row, an answer and a request that has made its resource tell of a
\* resource that was made from the body they belong to.
ApiTrue ==
    /\ record.fresh => record.resource > 0
    /\ \A c \in Callers :
         /\ request[c].phase # "idle" => request[c].body \in Api!RequestBodies
         /\ request[c].phase = "made" => /\ request[c].resource > 0
                                         /\ made[request[c].resource] = request[c].body
    /\ \A r \in answers : r[2] \in 1..Len(made) /\ made[r[2]] = r[1]

\* One request at a time holds the lock of the expired row.
ApiLock ==
    /\ \A c \in Callers : request[c].removing => request[c].phase \in {"looked", "made"}
    /\ \A c, d \in Callers : request[c].removing /\ request[d].removing => c = d

\* Until the row expires it is the first one, and what anybody is told of.
ApiFirst ==
    "expired" \notin doubled =>
        /\ record = Api!NoRecord \/ record.fresh
        /\ \A c \in Callers : request[c].phase # "expired" /\ ~request[c].removing
        /\ \A r \in answers : record.fresh /\ r[2] = record.resource

\* With no reason for a second resource, requests run one after another and
\* the first one's resource is in the row.
ApiAlone ==
    doubled = {} =>
        /\ \A c, d \in Callers : InFlight(c) /\ InFlight(d) => c = d
        /\ \A c \in Callers : request[c].phase = "looked" => Len(made) = 0 /\ record = Api!NoRecord
        /\ \A c \in Callers : request[c].phase = "made" => Len(made) <= 1 /\ record = Api!NoRecord
        /\ Len(made) <= 1
        /\ Len(made) = 0 \/ record # Api!NoRecord \/ \E c \in Callers : request[c].phase = "made"

ApiInv == ApiTypes /\ ApiTrue /\ ApiLock /\ ApiFirst /\ ApiAlone

\* A behaviour of the services is a behaviour of the requests.
LEMMA ApiSpec == Spec => Api!Spec
<1>1. Init => Api!Init BY DEF Init
<1>2. [Next]_vars => [Api!Next]_(Api!vars)
  BY DEF Next, vars, MediaMoves, DomainMoves, StudyMoves, QueueMoves,
         MarketMoves, SchedulerMoves, BrokerMoves, BuyerMoves, ThreadMoves,
         UpkeepMoves, DispatchMoves, ArithmeticMoves, RemoteMoves, ApiMoves,
         apiVars, Api!vars
<1>. QED BY <1>1, <1>2, PTL DEF Spec, Api!Spec

\* Before the first request there is no row and no resource.
LEMMA ApiInit == Api!Init => ApiInv
<1>. SUFFICES ASSUME Api!Init PROVE ApiInv OBVIOUS
<1>. USE RequestsAssumption DEF Api!Init, Api!NoRecord, Api!Idle
<1>1. made \in Seq(Api!RequestBodies) /\ Len(made) = 0 OBVIOUS
<1>2. ApiTypes BY <1>1 DEF ApiTypes, Phases
<1>3. ApiTrue BY DEF ApiTrue
<1>4. ApiLock BY DEF ApiLock
<1>5. ApiFirst BY DEF ApiFirst
<1>6. ApiAlone BY <1>1 DEF ApiAlone, InFlight
<1>. QED BY <1>2, <1>3, <1>4, <1>5, <1>6 DEF ApiInv

\* A set within a singleton has at most one element.
LEMMA AtMostOne ==
  ASSUME NEW S, NEW x, S \subseteq {x}
  PROVE  Cardinality(S) <= 1
<1>1. IsFiniteSet({x}) /\ Cardinality({x}) = 1 BY FS_Singleton
<1>2. Cardinality(S) <= Cardinality({x}) BY <1>1, FS_Subset
<1>. QED BY <1>1, <1>2

\* Every step of the requests keeps the invariant.
LEMMA ApiStep == ApiInv /\ [Api!Next]_(Api!vars) => ApiInv'
<1>. SUFFICES ASSUME ApiInv, [Api!Next]_(Api!vars) PROVE ApiInv'
  OBVIOUS
<1>. USE RequestsAssumption
<1>t. /\ made \in Seq(Api!RequestBodies) /\ Len(made) \in Nat
      /\ record \in [resource : 0..Len(made), fresh : BOOLEAN]
      /\ request \in [Callers -> [phase : Phases,
                                  body : Api!RequestBodies \cup {"none"},
                                  resource : 0..Len(made), removing : BOOLEAN]]
  BY DEF ApiInv, ApiTypes
<1>1. CASE UNCHANGED Api!vars
  BY <1>1 DEF Api!vars, ApiInv, ApiTypes, ApiTrue, ApiLock, ApiFirst, ApiAlone, InFlight
<1>2. CASE Api!KeyEnds
  BY <1>2 DEF Api!KeyEnds, ApiInv, ApiTypes, ApiTrue, ApiLock, ApiFirst, ApiAlone, InFlight
<1>3. CASE Api!RecordExpires
  <2>1. "expired" \in doubled' /\ record'.fresh = FALSE
    BY <1>3, <1>t DEF Api!RecordExpires
  <2>2. /\ record' \in [resource : 0..Len(made), fresh : BOOLEAN]
        /\ expiries' \in 0..MaxExpiries
        /\ doubled' \subseteq {"crowd", "died", "expired"}
        /\ UNCHANGED <<apiKey, made, request, requestFaults>>
    <3>1. record' = [record EXCEPT !.fresh = FALSE] BY <1>3 DEF Api!RecordExpires
    <3>2. record' \in [resource : 0..Len(made), fresh : BOOLEAN] BY <3>1, <1>t
    <3>3. expiries' \in 0..MaxExpiries
      BY <1>3 DEF Api!RecordExpires, ApiInv, ApiTypes
    <3>. QED BY <1>3, <3>2, <3>3 DEF Api!RecordExpires, ApiInv, ApiTypes
  <2>3. ApiTypes' BY <2>2 DEF ApiInv, ApiTypes
  <2>. QED BY <1>3, <2>1, <2>3 DEF Api!RecordExpires, ApiInv, ApiTrue, ApiLock, ApiFirst, ApiAlone
<1>4. ASSUME NEW c \in Callers, Api!Authenticate(c) PROVE ApiInv'
  <2>1. PICK b \in Api!RequestBodies :
          request' = [request EXCEPT ![c] = [Api!Idle EXCEPT !.phase = "authenticated", !.body = b]]
    BY <1>4 DEF Api!Authenticate
  <2>2. request'[c] = [phase |-> "authenticated", body |-> b, resource |-> 0, removing |-> FALSE]
    BY <2>1, <1>t DEF Api!Idle
  <2>3. \A d \in Callers \ {c} : request'[d] = request[d] BY <2>1, <1>t
  <2>4. request[c].phase = "idle" BY <1>4 DEF Api!Authenticate, Api!Idle
  <2>5. UNCHANGED <<apiKey, record, made, answers, expiries, requestFaults, doubled>>
    BY <1>4 DEF Api!Authenticate
  <2>6. request' \in [Callers -> [phase : Phases,
                                  body : Api!RequestBodies \cup {"none"},
                                  resource : 0..Len(made), removing : BOOLEAN]]
    <3>1. [phase |-> "authenticated", body |-> b, resource |-> 0, removing |-> FALSE]
            \in [phase : Phases, body : Api!RequestBodies \cup {"none"},
                resource : 0..Len(made), removing : BOOLEAN]
      BY <1>t DEF Phases
    <3>2. request' = [d \in Callers |-> request'[d]] BY <2>1, <1>t
    <3>. QED BY ZenonT(30), <3>1, <3>2, <2>2, <2>3, <1>t
  <2>7. ApiTypes' BY <2>5, <2>6 DEF ApiInv, ApiTypes
  <2>8. ApiTrue' BY <2>2, <2>3, <2>5 DEF ApiInv, ApiTrue
  <2>9. ApiLock' BY <2>2, <2>3, <2>5 DEF ApiInv, ApiLock
  <2>10. ApiFirst' BY <2>2, <2>3, <2>5 DEF ApiInv, ApiFirst
  <2>11. ApiAlone' BY <2>2, <2>3, <2>4, <2>5 DEF ApiInv, ApiAlone, InFlight
  <2>. QED BY <2>7, <2>8, <2>9, <2>10, <2>11 DEF ApiInv
<1>d. ASSUME NEW c \in Callers, Api!Done(c)
      PROVE  /\ request'[c] = Api!Idle
             /\ \A d \in Callers \ {c} : request'[d] = request[d]
             /\ request' \in [Callers -> [phase : Phases,
                                  body : Api!RequestBodies \cup {"none"},
                                  resource : 0..Len(made), removing : BOOLEAN]]
  BY <1>d, <1>t DEF Api!Done, Api!Idle, Phases
<1>5. ASSUME NEW c \in Callers, Api!Replay(c) PROVE ApiInv'
  <2>1. Api!Done(c) BY <1>5 DEF Api!Replay
  <2>2. UNCHANGED <<apiKey, record, made, expiries, requestFaults, doubled>>
    BY <1>5 DEF Api!Replay
  <2>3. request[c].phase = "authenticated" /\ record.fresh BY <1>5 DEF Api!Replay, Api!At
  <2>4. \/ answers' = answers
        \/ /\ answers' = answers \cup {<<request[c].body, record.resource>>}
           /\ made[record.resource] = request[c].body
    BY <1>5 DEF Api!Replay, Api!SameBody
  <2>5. record.resource \in 1..Len(made) BY <1>t, <2>3 DEF ApiInv, ApiTrue
  <2>6. \A r \in answers' : r[2] \in 1..Len(made) /\ made[r[2]] = r[1]
    BY <2>4, <2>5 DEF ApiInv, ApiTrue
  <2>. USE <1>d, <2>1 DEF Api!Idle
  <2>7. ApiTypes' BY <2>2 DEF ApiInv, ApiTypes
  <2>8. ApiTrue' BY <2>2, <2>6 DEF ApiInv, ApiTrue
  <2>9. ApiLock' BY <2>2 DEF ApiInv, ApiLock
  <2>10. ApiFirst' BY <2>2, <2>3, <2>4 DEF ApiInv, ApiFirst
  <2>11. ApiAlone' BY <2>2, <2>3 DEF ApiInv, ApiAlone, InFlight
  <2>. QED BY <2>7, <2>8, <2>9, <2>10, <2>11 DEF ApiInv
<1>6. ASSUME NEW c \in Callers, Api!Lookup(c) PROVE ApiInv'
  <2>1. request' = [request EXCEPT ![c].phase = IF record = Api!NoRecord THEN "looked" ELSE "expired",
                                   ![c].resource = record.resource]
    BY <1>6 DEF Api!Lookup
  <2>2. UNCHANGED <<apiKey, record, made, answers, expiries, requestFaults>>
    BY <1>6 DEF Api!Lookup
  <2>3. /\ request'[c].phase = IF record = Api!NoRecord THEN "looked" ELSE "expired"
        /\ request'[c].body = request[c].body /\ request'[c].removing = request[c].removing
        /\ \A d \in Callers \ {c} : request'[d] = request[d]
    BY <2>1, <1>t
  <2>4. request[c].phase = "authenticated" /\ ~record.fresh BY <1>6 DEF Api!Lookup, Api!At
  <2>5. request' \in [Callers -> [phase : Phases,
                                  body : Api!RequestBodies \cup {"none"},
                                  resource : 0..Len(made), removing : BOOLEAN]]
    <3>1. request'[c] = [phase |-> IF record = Api!NoRecord THEN "looked" ELSE "expired",
                          body |-> request[c].body, resource |-> record.resource,
                          removing |-> request[c].removing]
      BY <2>1, <1>t
    <3>2. request' = [d \in Callers |-> request'[d]] BY <2>1, <1>t
    <3>3. request'[c] \in [phase : Phases, body : Api!RequestBodies \cup {"none"},
                           resource : 0..Len(made), removing : BOOLEAN]
      BY <3>1, <1>t DEF Phases
    <3>. QED BY <3>2, <3>3, <2>3, <1>t
  <2>6. /\ doubled' \subseteq {"crowd", "died", "expired"}
        /\ doubled \subseteq doubled' /\ ("expired" \in doubled' => "expired" \in doubled)
    BY <1>6 DEF Api!Lookup, ApiInv, ApiTypes
  <2>12. doubled' = {} => doubled = {} /\ \A d \in Callers \ {c} : ~InFlight(d)
    BY <1>6 DEF Api!Lookup, Api!Crowded, InFlight
  <2>7. ApiTypes' BY <2>2, <2>5, <2>6 DEF ApiInv, ApiTypes
  <2>8. ApiTrue' BY <2>2, <2>3, <2>4 DEF ApiInv, ApiTrue
  <2>9. ApiLock' BY <2>2, <2>3, <2>4 DEF ApiInv, ApiLock
  <2>10. ApiFirst' BY <2>2, <2>3, <2>4, <2>6 DEF ApiInv, ApiFirst, ApiLock
  <2>11. ApiAlone'
    <3>. SUFFICES ASSUME doubled' = {} PROVE ApiAlone' BY DEF ApiAlone
    <3>1. record = Api!NoRecord BY <2>4, <2>12 DEF ApiInv, ApiFirst
    <3>2. Len(made) = 0 BY <1>t, <3>1, <2>4, <2>12 DEF ApiInv, ApiAlone, InFlight
    <3>. QED BY <1>t, <3>1, <3>2, <2>2, <2>3, <2>4, <2>12 DEF ApiInv, ApiAlone, InFlight
  <2>. QED BY <2>7, <2>8, <2>9, <2>10, <2>11 DEF ApiInv
<1>7. ASSUME NEW c \in Callers, Api!RemoveExpired(c) PROVE ApiInv'
  <2>. DEFINE holds == record.resource = request[c].resource /\ ~record.fresh /\ Api!IsJob(c)
  <2>1. request' = [request EXCEPT ![c].phase = "looked", ![c].removing = holds]
    BY <1>7 DEF Api!RemoveExpired
  <2>h. holds \in BOOLEAN OBVIOUS
  <2>. HIDE DEF holds
  <2>2. UNCHANGED <<apiKey, record, made, answers, expiries, requestFaults, doubled>>
    BY <1>7 DEF Api!RemoveExpired
  <2>3. /\ request'[c].phase = "looked" /\ request'[c].body = request[c].body
        /\ \A d \in Callers \ {c} : request'[d] = request[d]
    BY <2>1, <1>t
  <2>4. request[c].phase = "expired" /\ \A d \in Callers : ~request[d].removing
    BY <1>7 DEF Api!RemoveExpired, Api!At
  <2>5. request' \in [Callers -> [phase : Phases,
                                  body : Api!RequestBodies \cup {"none"},
                                  resource : 0..Len(made), removing : BOOLEAN]]
    <3>1. request[c] \in [phase : Phases, body : Api!RequestBodies \cup {"none"},
                          resource : 0..Len(made), removing : BOOLEAN]
      BY <1>t
    <3>2. [request[c] EXCEPT !.phase = "looked", !.removing = holds]
            \in [phase : Phases, body : Api!RequestBodies \cup {"none"},
                resource : 0..Len(made), removing : BOOLEAN]
      BY <3>1, <2>h DEF Phases
    <3>3. request' = [request EXCEPT ![c] = [request[c] EXCEPT !.phase = "looked", !.removing = holds]]
      BY <2>1, <1>t
    <3>. QED BY <3>2, <3>3, <1>t
  <2>6. "expired" \in doubled BY <2>4 DEF ApiInv, ApiFirst
  <2>7. ApiTypes' BY <2>2, <2>5 DEF ApiInv, ApiTypes
  <2>8. ApiTrue' BY <2>2, <2>3, <2>4 DEF ApiInv, ApiTrue
  <2>9. ApiLock' BY <2>2, <2>3, <2>4 DEF ApiInv, ApiLock
  <2>10. ApiFirst' BY <2>2, <2>6 DEF ApiFirst
  <2>11. ApiAlone' BY <2>2, <2>6 DEF ApiAlone
  <2>. QED BY <2>7, <2>8, <2>9, <2>10, <2>11 DEF ApiInv
<1>8. ASSUME NEW c \in Callers, Api!Make(c) PROVE ApiInv'
  <2>1. /\ made' = Append(made, request[c].body)
        /\ request' = [request EXCEPT ![c].phase = "made", ![c].resource = Len(made) + 1]
        /\ UNCHANGED <<apiKey, record, answers, expiries, requestFaults, doubled>>
    BY <1>8 DEF Api!Make
  <2>2. request[c].phase = "looked" BY <1>8 DEF Api!Make, Api!At
  <2>3. request[c].body \in Api!RequestBodies BY <2>2 DEF ApiInv, ApiTrue
  <2>4. /\ made' \in Seq(Api!RequestBodies) /\ Len(made') = Len(made) + 1
        /\ made'[Len(made) + 1] = request[c].body
        /\ \A i \in 1..Len(made) : made'[i] = made[i]
    BY <2>1, <2>3, <1>t
  <2>5. /\ request'[c].phase = "made" /\ request'[c].body = request[c].body
        /\ request'[c].resource = Len(made) + 1
        /\ request'[c].removing = request[c].removing
        /\ \A d \in Callers \ {c} : request'[d] = request[d]
    BY <2>1, <1>t
  <2>6. request' \in [Callers -> [phase : Phases,
                                  body : Api!RequestBodies \cup {"none"},
                                  resource : 0..Len(made'), removing : BOOLEAN]]
    <3>1. 0..Len(made) \subseteq 0..Len(made') BY <2>4, <1>t
    <3>2. Len(made) + 1 \in 0..Len(made') BY <2>4, <1>t
    <3>. QED BY <2>1, <1>t, <3>1, <3>2 DEF Phases
  <2>7. ApiTypes'
    <3>1. record' \in [resource : 0..Len(made'), fresh : BOOLEAN] BY <2>1, <2>4, <1>t
    <3>. QED BY <2>1, <2>4, <2>6, <3>1 DEF ApiInv, ApiTypes
  <2>8. ApiTrue'
    <3>1. \A d \in Callers : /\ request'[d].phase # "idle" => request'[d].body \in Api!RequestBodies
                             /\ request'[d].phase = "made" => /\ request'[d].resource > 0
                                         /\ made'[request'[d].resource] = request'[d].body
      <4>. TAKE d \in Callers
      <4>1. CASE d = c BY <4>1, <2>3, <2>4, <2>5, <1>t
      <4>2. CASE d # c
        <5>1. request'[d] = request[d] /\ request[d].resource \in 0..Len(made)
          BY <4>2, <2>5, <1>t
        <5>2. request[d].phase = "made" => request[d].resource \in 1..Len(made)
          BY <5>1, <1>t DEF ApiInv, ApiTrue
        <5>. QED BY <5>1, <5>2, <2>4 DEF ApiInv, ApiTrue
      <4>. QED BY <4>1, <4>2
    <3>2. \A r \in answers' : r[2] \in 1..Len(made') /\ made'[r[2]] = r[1]
      BY <2>1, <2>4, <1>t DEF ApiInv, ApiTrue
    <3>. QED BY <2>1, <3>1, <3>2 DEF ApiInv, ApiTrue
  <2>9. ApiLock' BY ZenonT(30), <2>1, <2>2, <2>5 DEF ApiInv, ApiLock
  <2>10. ApiFirst' BY <2>1, <2>5 DEF ApiInv, ApiFirst
  <2>11. ApiAlone'
    BY <2>1, <2>2, <2>4, <2>5, <1>t DEF ApiInv, ApiAlone, InFlight
  <2>. QED BY <2>7, <2>8, <2>9, <2>10, <2>11 DEF ApiInv
<1>9. ASSUME NEW c \in Callers, Api!Record(c) PROVE ApiInv'
  <2>1. Api!Done(c) BY <1>9 DEF Api!Record
  <2>2. UNCHANGED <<apiKey, made, expiries, requestFaults, doubled>> BY <1>9 DEF Api!Record
  <2>3. /\ request[c].phase = "made" /\ request[c].resource \in 1..Len(made)
        /\ made[request[c].resource] = request[c].body
    BY <1>9, <1>t DEF Api!Record, Api!At, ApiInv, ApiTrue
  <2>4. CASE Api!MayInsert(c)
    <3>1. /\ record' = [resource |-> request[c].resource, fresh |-> TRUE]
          /\ answers' = answers \cup {<<request[c].body, request[c].resource>>}
      BY <1>9, <2>4 DEF Api!Record
    <3>2. record' \in [resource : 0..Len(made), fresh : BOOLEAN] BY <3>1, <2>3
    <3>3. record'.fresh /\ record'.resource = request[c].resource BY <3>1
    <3>. USE <1>d, <2>1 DEF Api!Idle
    <3>7. ApiTypes' BY <2>2, <3>2 DEF ApiInv, ApiTypes
    <3>8. ApiTrue' BY SMTT(30), <2>2, <2>3, <3>1, <3>3 DEF ApiInv, ApiTrue
    <3>9. ApiLock' BY <2>2 DEF ApiInv, ApiLock
    <3>10. ApiFirst'
      <4>. SUFFICES ASSUME "expired" \notin doubled PROVE ApiFirst' BY <2>2 DEF ApiFirst
      <4>1. record = Api!NoRecord BY <2>4 DEF Api!MayInsert, ApiInv, ApiFirst
      <4>2. answers = {} BY <4>1 DEF ApiInv, ApiFirst, Api!NoRecord
      <4>. QED BY <2>2, <3>1, <3>3, <4>2 DEF ApiInv, ApiFirst
    <3>11. ApiAlone'
      <4>1. record' # Api!NoRecord BY <3>3 DEF Api!NoRecord
      <4>. QED BY <2>2, <2>3, <4>1 DEF ApiInv, ApiAlone, InFlight
    <3>. QED BY <3>7, <3>8, <3>9, <3>10, <3>11 DEF ApiInv
  <2>5. CASE ~ Api!MayInsert(c)
    <3>1. UNCHANGED <<record, answers>> BY <1>9, <2>5 DEF Api!Record
    <3>2. record # Api!NoRecord BY <2>5 DEF Api!MayInsert
    <3>. USE <1>d, <2>1 DEF Api!Idle
    <3>7. ApiTypes' BY <2>2, <3>1 DEF ApiInv, ApiTypes
    <3>8. ApiTrue' BY <2>2, <3>1 DEF ApiInv, ApiTrue
    <3>9. ApiLock' BY <2>2, <3>1 DEF ApiInv, ApiLock
    <3>10. ApiFirst' BY <2>2, <3>1 DEF ApiInv, ApiFirst
    <3>11. ApiAlone' BY <2>2, <3>1, <3>2 DEF ApiInv, ApiAlone, InFlight
    <3>. QED BY <3>7, <3>8, <3>9, <3>10, <3>11 DEF ApiInv
  <2>. QED BY <2>4, <2>5
<1>10. ASSUME NEW c \in Callers, Api!RequestDies(c) PROVE ApiInv'
  <2>1. Api!Done(c) BY <1>10 DEF Api!RequestDies
  <2>2. /\ UNCHANGED <<apiKey, record, made, answers, expiries>>
        /\ requestFaults' \in 0..MaxRequestFaults
    BY <1>10 DEF Api!RequestDies, ApiInv, ApiTypes
  <2>3. /\ doubled' \subseteq {"crowd", "died", "expired"}
        /\ doubled \subseteq doubled' /\ ("expired" \in doubled' => "expired" \in doubled)
        /\ request[c].phase = "made" => doubled' # {}
    BY <1>10 DEF Api!RequestDies, ApiInv, ApiTypes, Api!At
  <2>. USE <1>d, <2>1 DEF Api!Idle
  <2>7. ApiTypes' BY <2>2, <2>3 DEF ApiInv, ApiTypes
  <2>8. ApiTrue' BY <2>2 DEF ApiInv, ApiTrue
  <2>9. ApiLock' BY <2>2 DEF ApiInv, ApiLock
  <2>10. ApiFirst' BY <2>2, <2>3 DEF ApiInv, ApiFirst
  <2>11. ApiAlone' BY <2>2, <2>3 DEF ApiInv, ApiAlone, InFlight
  <2>. QED BY <2>7, <2>8, <2>9, <2>10, <2>11 DEF ApiInv
<1>. QED BY <1>1, <1>2, <1>3, <1>4, <1>5, <1>6, <1>7, <1>8, <1>9, <1>10 DEF Api!Next

\* Requests: one resource per idempotency key, and the caller's own.
THEOREM IdempotentOnceHolds == Spec => []IdempotentOnce
<1>1. ApiInv => IdempotentOnce
  <2>. SUFFICES ASSUME ApiInv PROVE Api!IdempotentOnce BY DEF IdempotentOnce
  <2>1. Len(made) > 1 => doubled # {} BY DEF ApiInv, ApiAlone, ApiTypes
  <2>2. "expired" \notin doubled => Api!Cardinality({r[2] : r \in answers}) <= 1
    <3>. SUFFICES ASSUME "expired" \notin doubled
                  PROVE  Api!Cardinality({r[2] : r \in answers}) <= 1
      OBVIOUS
    <3>1. {r[2] : r \in answers} \subseteq {record.resource} BY DEF ApiInv, ApiFirst
    <3>2. Cardinality({r[2] : r \in answers}) <= 1
      BY <3>1, AtMostOne
    <3>3. Api!Cardinality({r[2] : r \in answers}) = Cardinality({r[2] : r \in answers})
      BY DEF Api!Cardinality, Cardinality
    <3>. QED BY <3>2, <3>3
  <2>3. \A r \in answers : made[r[2]] = r[1] BY DEF ApiInv, ApiTrue
  <2>. QED BY <2>1, <2>2, <2>3 DEF Api!IdempotentOnce
<1>. QED BY <1>1, ApiSpec, ApiInit, ApiStep, PTL DEF Api!Spec

\* Requests: the row, the resources and what the requests hold have their types.
LEMMA ApiTypeCorrect == Spec => []Api!TypeOK
<1>1. ApiInv => Api!TypeOK
  <2>. SUFFICES ASSUME ApiInv PROVE Api!TypeOK OBVIOUS
  <2>. DEFINE R == {c \in Callers : request[c].removing}
  <2>1. Cardinality(R) <= 1
    <3>1. \A c, d \in R : c = d BY DEF ApiInv, ApiLock
    <3>2. PICK c : R \subseteq {c} BY <3>1
    <3>. QED BY <3>2, AtMostOne
  <2>2. Api!Cardinality(R) = Cardinality(R) BY DEF Api!Cardinality, Cardinality
  <2>. QED BY <2>1, <2>2 DEF ApiInv, ApiTypes, Api!TypeOK, Phases
<1>. QED BY <1>1, ApiSpec, ApiInit, ApiStep, PTL DEF Api!Spec

-----------------------------------------------------------------------------
(* Schedules *)

\* The largest of some natural numbers up to a bound.
LEMMA LargestExists ==
  ASSUME NEW n \in Nat, NEW S \in SUBSET (1..n), S # {}
  PROVE  \E x \in S : \A o \in S : o <= x
<1>. DEFINE T == {n - s : s \in S}
<1>1. PICK s \in S : TRUE OBVIOUS
<1>2. n - s \in T OBVIOUS
<1>3. T \subseteq Nat OBVIOUS
<1>4. \A o \in S : n - o \in T OBVIOUS
<1>5. \A y \in T : \E x \in S : y = n - x OBVIOUS
<1>. HIDE DEF T
<1>6. PICK y \in T : \A z \in T : ~(<<z, y>> \in OpToRel(<, Nat))
  BY <1>2, <1>3, NatLessThanWellFounded, WFMin
<1>7. \A z \in T : y <= z
  <2>. TAKE z \in T
  <2>1. ~(z < y) BY <1>3, <1>6 DEF OpToRel
  <2>. QED BY <2>1, <1>3
<1>8. PICK x \in S : y = n - x BY <1>5
<1>9. \A o \in S : o <= x
  <2>. TAKE o \in S
  <2>1. y <= n - o BY <1>4, <1>7
  <2>. QED BY <1>8, <2>1
<1>. QED BY <1>9

\* What a ticker loaded.
Tick == [phase : {"idle", "loaded", "submitting"}, at : 0..MaxTime,
         due : SUBSET (Scheduler!Schedules \X (1..MaxTime)),
         seen : SUBSET (Scheduler!Schedules \X (1..MaxTime)),
         left : SUBSET ((PlainSchedules \X (1..MaxTime)) \X (1..RunsPerTick))]

SchedulerTypes ==
    /\ time \in 1..MaxTime
    /\ nextRun \in [Scheduler!Schedules -> 0..(MaxTime + Interval)]
    /\ timing \in [Scheduler!Schedules -> Scheduler!Timing]
    /\ enabled \in [Scheduler!Schedules -> BOOLEAN]
    /\ windows \subseteq MarketSchedules \X (1..MaxTime)
    /\ passed \subseteq Scheduler!Schedules \X (1..MaxTime)
    /\ overtaken \subseteq Scheduler!Schedules
    /\ ticker \in [Tickers -> Tick]
    /\ settled \in [PlainSchedules \X (1..MaxTime) -> Nat]

\* A ticker holds what was due when it looked, and has something left to
\* submit only of what it has moved past.
TickerRows ==
    \A t \in Tickers :
        /\ \A w \in ticker[t].due : w[2] <= ticker[t].at
        /\ ticker[t].at <= time
        /\ ticker[t].left # {} => ticker[t].phase = "submitting"
        /\ \A r \in ticker[t].left : r[1] \in passed

\* What was submitted or lost was moved past; a plain schedule comes back
\* to a window it has passed only if a tick wrote it that found it changed.
Forward ==
    /\ \A w \in DOMAIN settled : settled[w] # 0 => w \in passed
    /\ \A w \in passed : w[1] \in PlainSchedules =>
         w[1] \in overtaken \/ nextRun[w[1]] = 0 \/ w[2] < nextRun[w[1]]

\* The runs a ticker has still to submit for a window, with the ticker.
Left(w) == {q \in Tickers \X ({w} \X (1..RunsPerTick)) : q[2] \in ticker[q[1]].left}

\* Every plain window passed was run, or is lost or waiting, as often as
\* configured; every marketplace window passed has its job.
Runs ==
    \A w \in passed :
        /\ w[1] \in MarketSchedules => w \in windows
        /\ w[1] \in PlainSchedules =>
             LET runs == settled[w] + Cardinality(Left(w)) IN
             runs = RunsPerTick \/ (w[1] \in overtaken /\ runs > RunsPerTick)

SchedulerInv == SchedulerTypes /\ TickerRows /\ Forward /\ Runs

\* A behaviour of the services is a behaviour of the scheduler.
LEMMA SchedulerSpec == Spec => Scheduler!Spec
<1>1. Init => Scheduler!Init BY DEF Init
<1>2. [Next]_vars => [Scheduler!Next]_(Scheduler!vars)
  BY DEF Next, vars, MediaMoves, DomainMoves, StudyMoves, QueueMoves,
         MarketMoves, SchedulerMoves, BrokerMoves, BuyerMoves, ThreadMoves,
         UpkeepMoves, DispatchMoves, ArithmeticMoves, RemoteMoves, ApiMoves,
         schedulerVars, Scheduler!vars, Scheduler!row
<1>. QED BY <1>1, <1>2, PTL DEF Spec, Scheduler!Spec

\* The windows' runs that are left are finitely many.
LEMMA LeftFinite ==
  ASSUME NEW w
  PROVE  IsFiniteSet(Left(w)) /\ Cardinality(Left(w)) \in Nat
<1>1. IsFiniteSet(1..RunsPerTick) BY SchedulesAssumption, FS_Interval
<1>2. IsFiniteSet({w}) BY FS_Singleton
<1>3. IsFiniteSet({w} \X (1..RunsPerTick)) BY <1>1, <1>2, FS_Product
<1>4. IsFiniteSet(Tickers \X ({w} \X (1..RunsPerTick)))
  BY <1>3, SchedulesAssumption, FS_Product
<1>5. IsFiniteSet(Left(w)) BY <1>4, FS_Subset DEF Left
<1>. QED BY <1>5, FS_CardinalityType

\* A window's due runs, as a ticker is left with them.
LEMMA RunsCount ==
  ASSUME NEW t, NEW w
  PROVE  LET D == {t} \X ({w} \X (1..RunsPerTick))
         IN  IsFiniteSet(D) /\ Cardinality(D) = RunsPerTick
<1>1. IsFiniteSet(1..RunsPerTick) /\ Cardinality(1..RunsPerTick) = RunsPerTick
  <2>1. RunsPerTick \in Int /\ 1 \in Int BY SchedulesAssumption
  <2>2. IsFiniteSet(1..RunsPerTick) /\ Cardinality(1..RunsPerTick) =
           IF 1 > RunsPerTick THEN 0 ELSE RunsPerTick - 1 + 1
    BY <2>1, FS_Interval
  <2>. QED BY <2>2, SchedulesAssumption
<1>2. IsFiniteSet({w}) /\ Cardinality({w}) = 1 /\ IsFiniteSet({t}) /\ Cardinality({t}) = 1
  BY FS_Singleton
<1>3. /\ IsFiniteSet({w} \X (1..RunsPerTick))
      /\ Cardinality({w} \X (1..RunsPerTick)) = 1 * RunsPerTick
  BY ZenonT(30), <1>1, <1>2, FS_Product
<1>4. /\ IsFiniteSet({t} \X ({w} \X (1..RunsPerTick)))
      /\ Cardinality({t} \X ({w} \X (1..RunsPerTick))) = 1 * (1 * RunsPerTick)
  BY <1>2, <1>3, FS_Product
<1>. QED BY <1>4, SchedulesAssumption

\* When no ticker's runs change, nothing left does.
LEMMA LeftSame ==
  ASSUME \A t \in Tickers : ticker'[t].left = ticker[t].left
  PROVE  \A w : Left(w)' = Left(w)
BY DEF Left

\* Before the first tick nothing has run and no ticker holds anything.
LEMMA SchedulerInit == Scheduler!Init => SchedulerInv
<1>. SUFFICES ASSUME Scheduler!Init PROVE SchedulerInv OBVIOUS
<1>. USE SchedulesAssumption DEF Scheduler!Init
<1>1. \A t \in Tickers : /\ ticker[t] \in Tick
                         /\ ticker[t] = Scheduler!NoTick
  BY DEF Tick, Scheduler!NoTick
<1>2. SchedulerTypes
  <2>1. ticker \in [Tickers -> Tick] BY <1>1
  <2>. QED BY <2>1 DEF SchedulerTypes, Scheduler!Timing
<1>3. TickerRows BY <1>1 DEF TickerRows, Scheduler!NoTick
<1>4. Forward /\ Runs BY DEF Forward, Runs
<1>. QED BY <1>2, <1>3, <1>4 DEF SchedulerInv

\* The next run of a schedule is after the time it is computed from, or never.
LEMMA NextRunLater ==
  ASSUME NEW s \in Scheduler!Schedules, NEW now \in 1..MaxTime
  PROVE  /\ Scheduler!NextRun(s, now) \in 0..(MaxTime + Interval)
         /\ Scheduler!NextRun(s, now) = 0 \/ now < Scheduler!NextRun(s, now)
<1>1. now % Interval \in 0..(Interval - 1) BY SchedulesAssumption
<1>. QED BY <1>1, SchedulesAssumption DEF Scheduler!NextRun

\* The clock, the rows and the jobs change; what is passed and left does not.
LEMMA Rest ==
  ASSUME SchedulerInv, SchedulerTypes', UNCHANGED <<ticker, settled, passed, overtaken>>,
         windows \subseteq windows', time <= time',
         \A w \in passed : w[1] \in PlainSchedules =>
           w[1] \in overtaken' \/ nextRun'[w[1]] = 0 \/ w[2] < nextRun'[w[1]]
  PROVE  SchedulerInv'
<1>1. TickerRows' BY DEF SchedulerInv, TickerRows, SchedulerTypes, Tick
<1>2. Forward' BY DEF SchedulerInv, Forward
<1>3. Runs'
  <2>1. \A w : Left(w)' = Left(w) BY DEF Left
  <2>. QED BY <2>1 DEF SchedulerInv, Runs
<1>. QED BY <1>1, <1>2, <1>3 DEF SchedulerInv

\* A ticker changes and keeps no runs, and the rest stays.
LEMMA TickerRest ==
  ASSUME SchedulerInv, UNCHANGED <<time, nextRun, timing, enabled, windows, settled, passed, overtaken>>,
         NEW t \in Tickers, NEW row \in Tick, ticker' = [ticker EXCEPT ![t] = row],
         row.left = {}, ticker[t].left = {}, row.at <= time,
         \A w \in row.due : w[2] <= row.at
  PROVE  SchedulerInv'
<1>1. SchedulerTypes' BY DEF SchedulerInv, SchedulerTypes
<1>2. /\ ticker'[t] = row /\ \A u \in Tickers \ {t} : ticker'[u] = ticker[u]
  BY DEF SchedulerInv, SchedulerTypes
<1>3. TickerRows' BY <1>2 DEF SchedulerInv, TickerRows
<1>4. Forward' BY DEF SchedulerInv, Forward
<1>5. Runs'
  <2>1. \A u \in Tickers : ticker'[u].left = ticker[u].left BY <1>2
  <2>2. \A w : Left(w)' = Left(w) BY <2>1 DEF Left
  <2>. QED BY <2>2 DEF SchedulerInv, Runs
<1>. QED BY <1>1, <1>3, <1>4, <1>5 DEF SchedulerInv

\* The commit of a claim moves the schedule on past the window it claimed.
LEMMA CommitStep ==
  ASSUME SchedulerInv, NEW t \in Tickers, Scheduler!TickCommit(t)
  PROVE  SchedulerInv'
<1>. DEFINE due == ticker[t].due
            plain == {w \in due : w[1] \in PlainSchedules}
            at == ticker[t].at
<1>. USE SchedulesAssumption
<1>1. /\ ticker[t] \in Tick /\ ticker[t].phase = "loaded" /\ ticker[t].left = {}
      /\ due \subseteq Scheduler!Schedules \X (1..MaxTime)
      /\ \A w \in due : w[2] <= at
      /\ at \in 0..MaxTime
  BY DEF Scheduler!TickCommit, SchedulerInv, SchedulerTypes, TickerRows, Tick
<1>2. /\ windows' = windows \cup (due \ plain)
      /\ nextRun' = [s \in Scheduler!Schedules |->
           IF s \in {w[1] : w \in due} THEN Scheduler!NextRun(s, at) ELSE nextRun[s]]
      /\ passed' = passed \cup due
      /\ ticker' = [ticker EXCEPT ![t] =
           [Scheduler!NoTick EXCEPT !.phase = "submitting", !.left = plain \X (1..RunsPerTick)]]
      /\ overtaken' = overtaken \cup {w[1] : w \in {x \in due : nextRun[x[1]] # x[2]}}
      /\ UNCHANGED <<timing, enabled, time, settled>>
  BY DEF Scheduler!TickCommit
<1>. DEFINE row == [phase |-> "submitting", at |-> 0, due |-> {}, seen |-> {},
                    left |-> plain \X (1..RunsPerTick)]
<1>3. /\ ticker'[t] = row /\ \A u \in Tickers \ {t} : ticker'[u] = ticker[u]
      /\ ticker' = [u \in Tickers |-> ticker'[u]]
  BY <1>2 DEF SchedulerInv, SchedulerTypes, Scheduler!NoTick
<1>4. plain \subseteq PlainSchedules \X (1..MaxTime) BY <1>1
<1>5. row \in Tick
  <2>1. plain \X (1..RunsPerTick) \in SUBSET ((PlainSchedules \X (1..MaxTime)) \X (1..RunsPerTick))
    BY <1>4
  <2>. HIDE DEF plain
  <2>. QED BY <2>1 DEF Tick
<1>6. \A w \in due : w[1] \in Scheduler!Schedules /\ at \in 1..MaxTime BY <1>1
<1>7. \A w \in due : /\ Scheduler!NextRun(w[1], at) \in 0..(MaxTime + Interval)
                     /\ Scheduler!NextRun(w[1], at) = 0 \/ at < Scheduler!NextRun(w[1], at)
  BY <1>6, NextRunLater
<1>8. SchedulerTypes'
  <2>1. nextRun' \in [Scheduler!Schedules -> 0..(MaxTime + Interval)]
    <3>1. \A s \in Scheduler!Schedules : nextRun'[s] \in 0..(MaxTime + Interval)
      BY <1>2, <1>7 DEF SchedulerInv, SchedulerTypes
    <3>. QED BY <1>2, <3>1
  <2>2. windows' \subseteq MarketSchedules \X (1..MaxTime)
    BY <1>1, <1>2 DEF SchedulerInv, SchedulerTypes, Scheduler!Schedules
  <2>3. passed' \subseteq Scheduler!Schedules \X (1..MaxTime)
    BY <1>1, <1>2 DEF SchedulerInv, SchedulerTypes
  <2>4. overtaken' \subseteq Scheduler!Schedules
    BY <1>1, <1>2 DEF SchedulerInv, SchedulerTypes
  <2>5. ticker' \in [Tickers -> Tick]
    <3>. HIDE DEF row
    <3>. QED BY <1>3, <1>5 DEF SchedulerInv, SchedulerTypes
  <2>. QED BY <1>2, <2>1, <2>2, <2>3, <2>4, <2>5 DEF SchedulerInv, SchedulerTypes
<1>9. TickerRows'
  <2>1. \A r \in row.left : r[1] \in passed' BY <1>2
  <2>2. /\ row.due = {} /\ row.at = 0 /\ row.phase = "submitting" OBVIOUS
  <2>. HIDE DEF row
  <2>. SUFFICES ASSUME NEW u \in Tickers
                PROVE  /\ \A w \in ticker'[u].due : w[2] <= ticker'[u].at
                       /\ ticker'[u].at <= time'
                       /\ ticker'[u].left # {} => ticker'[u].phase = "submitting"
                       /\ \A r \in ticker'[u].left : r[1] \in passed'
    BY DEF TickerRows
  <2>3. CASE u = t
    <3>1. ticker'[u] = row BY <1>3, <2>3
    <3>2. 0 <= time' BY <1>2 DEF SchedulerInv, SchedulerTypes
    <3>. QED BY <2>1, <2>2, <3>1, <3>2
  <2>4. CASE u # t
    BY <1>2, <1>3, <2>4 DEF SchedulerInv, TickerRows
  <2>. QED BY <2>3, <2>4
<1>10. \A w \in passed : w[1] \in PlainSchedules =>
         w[1] \in overtaken' \/ nextRun'[w[1]] = 0 \/ w[2] < nextRun'[w[1]]
  <2>. SUFFICES ASSUME NEW w \in passed, w[1] \in PlainSchedules, w[1] \notin overtaken'
                PROVE  nextRun'[w[1]] = 0 \/ w[2] < nextRun'[w[1]]
    OBVIOUS
  <2>1. w[1] \notin overtaken BY <1>2
  <2>2. nextRun[w[1]] = 0 \/ w[2] < nextRun[w[1]] BY <2>1 DEF SchedulerInv, Forward
  <2>3. w[1] \in Scheduler!Schedules /\ w[2] \in Nat /\ nextRun[w[1]] \in Nat
    BY DEF SchedulerInv, SchedulerTypes
  <2>4. CASE w[1] \notin {x[1] : x \in due}
    BY <1>2, <2>2, <2>3, <2>4
  <2>5. CASE w[1] \in {x[1] : x \in due}
    <3>1. PICK x \in due : x[1] = w[1] BY <2>5
    <3>2. nextRun[w[1]] = x[2] BY <1>2, <3>1
    <3>3. x[2] <= at /\ x[2] \in 1..MaxTime BY <1>1
    <3>4. w[2] < x[2] BY <2>2, <3>2, <3>3
    <3>5. nextRun'[w[1]] = Scheduler!NextRun(w[1], at) BY <1>2, <2>3, <2>5
    <3>6. Scheduler!NextRun(w[1], at) = 0 \/ at < Scheduler!NextRun(w[1], at)
      BY <1>7, <3>1
    <3>7. Scheduler!NextRun(w[1], at) \in Nat BY <1>7, <3>1
    <3>. QED BY <2>3, <3>3, <3>4, <3>5, <3>6, <3>7, <1>1
  <2>. QED BY <2>4, <2>5
<1>11. \A w \in due : nextRun'[w[1]] = 0 \/ w[2] < nextRun'[w[1]]
  <2>. TAKE w \in due
  <2>1. nextRun'[w[1]] = Scheduler!NextRun(w[1], at) BY <1>2, <1>6
  <2>2. w[2] <= at /\ w[2] \in 1..MaxTime BY <1>1
  <2>. QED BY <1>1, <1>7, <2>1, <2>2
<1>12. Forward'
  <2>1. \A w \in DOMAIN settled' : settled'[w] # 0 => w \in passed'
    BY <1>2 DEF SchedulerInv, Forward
  <2>. QED BY <1>2, <1>10, <1>11, <2>1 DEF Forward
\* What is left of a window: what was left of it, and if it is due its runs.
<1>13. \A w : w \notin plain => Left(w)' = Left(w)
  <2>. SUFFICES ASSUME NEW w, w \notin plain PROVE Left(w)' = Left(w) OBVIOUS
  <2>1. \A q \in Tickers \X ({w} \X (1..RunsPerTick)) :
           q[2] \in ticker'[q[1]].left <=> q[2] \in ticker[q[1]].left
    <3>. TAKE q \in Tickers \X ({w} \X (1..RunsPerTick))
    <3>1. CASE q[1] = t
      <4>1. q[2] \notin row.left OBVIOUS
      <4>. QED BY <3>1, <4>1, <1>1, <1>3
    <3>2. CASE q[1] # t BY <3>2, <1>3
    <3>. QED BY <3>1, <3>2
  <2>. QED BY <2>1 DEF Left
<1>14. \A w \in plain : /\ Left(w)' = Left(w) \cup ({t} \X ({w} \X (1..RunsPerTick)))
                        /\ Left(w) \cap ({t} \X ({w} \X (1..RunsPerTick))) = {}
  <2>. TAKE w \in plain
  <2>1. \A q \in Tickers \X ({w} \X (1..RunsPerTick)) :
           q[2] \in ticker'[q[1]].left <=> (q[1] = t \/ q[2] \in ticker[q[1]].left)
    <3>. TAKE q \in Tickers \X ({w} \X (1..RunsPerTick))
    <3>1. CASE q[1] = t
      <4>1. q[2] \in row.left OBVIOUS
      <4>. QED BY <3>1, <4>1, <1>3
    <3>2. CASE q[1] # t BY <3>2, <1>3
    <3>. QED BY <3>1, <3>2
  <2>2. \A q \in Left(w) : q[1] # t BY <1>1 DEF Left
  <2>3. \A q \in {t} \X ({w} \X (1..RunsPerTick)) : q[1] = t OBVIOUS
  <2>4. Left(w) \cap ({t} \X ({w} \X (1..RunsPerTick))) = {} BY <2>2, <2>3
  <2>5. Left(w)' = {q \in Tickers \X ({w} \X (1..RunsPerTick)) : q[1] = t \/ q[2] \in ticker[q[1]].left}
    BY <2>1 DEF Left
  <2>6. {q \in Tickers \X ({w} \X (1..RunsPerTick)) : q[1] = t}
          = {t} \X ({w} \X (1..RunsPerTick))
    OBVIOUS
  <2>. QED BY <2>4, <2>5, <2>6 DEF Left
<1>15. \A w \in plain : Cardinality(Left(w)') = Cardinality(Left(w)) + RunsPerTick
  <2>. TAKE w \in plain
  <2>. DEFINE D == {t} \X ({w} \X (1..RunsPerTick))
  <2>1. IsFiniteSet(D) /\ Cardinality(D) = RunsPerTick BY RunsCount
  <2>2. Left(w)' = Left(w) \cup D /\ Left(w) \cap D = {} BY <1>14
  <2>3. IsFiniteSet(Left(w)) /\ Cardinality(Left(w)) \in Nat BY LeftFinite
  <2>. HIDE DEF D
  <2>4. Cardinality(Left(w) \cup D) = Cardinality(Left(w)) + Cardinality(D) - Cardinality(Left(w) \cap D)
    BY <2>1, <2>3, FS_Union
  <2>5. Cardinality(Left(w) \cap D) = 0 BY <2>2, FS_EmptySet
  <2>. QED BY <2>1, <2>2, <2>3, <2>4, <2>5
<1>16. Runs'
  <2>. SUFFICES ASSUME NEW w \in passed'
                PROVE  /\ w[1] \in MarketSchedules => w \in windows'
                       /\ w[1] \in PlainSchedules =>
                            (\/ settled'[w] + Cardinality(Left(w)') = RunsPerTick
                             \/ /\ w[1] \in overtaken'
                                /\ settled'[w] + Cardinality(Left(w)') > RunsPerTick)
    BY DEF Runs
  <2>1. w[1] \in MarketSchedules => w \in windows'
    BY <1>2 DEF SchedulerInv, Runs
  <2>2. ASSUME w[1] \in PlainSchedules
        PROVE  \/ settled'[w] + Cardinality(Left(w)') = RunsPerTick
               \/ /\ w[1] \in overtaken'
                  /\ settled'[w] + Cardinality(Left(w)') > RunsPerTick
    <3>1. w \in PlainSchedules \X (1..MaxTime)
      BY <1>1, <1>2, <2>2 DEF SchedulerInv, SchedulerTypes
    <3>2. settled[w] \in Nat /\ settled'[w] = settled[w]
      BY <1>2, <3>1 DEF SchedulerInv, SchedulerTypes
    <3>3. Cardinality(Left(w)) \in Nat BY LeftFinite
    <3>4. CASE w \notin due
      <4>1. w \in passed /\ Left(w)' = Left(w) BY <1>2, <1>13, <3>4
      <4>2. \/ settled[w] + Cardinality(Left(w)) = RunsPerTick
            \/ w[1] \in overtaken /\ settled[w] + Cardinality(Left(w)) > RunsPerTick
        BY <2>2, <4>1 DEF SchedulerInv, Runs
      <4>. QED BY <1>2, <3>2, <4>1, <4>2
    <3>5. CASE w \in due /\ w \notin passed
      <4>1. w \in plain /\ settled[w] = 0
        BY <2>2, <3>1, <3>5 DEF SchedulerInv, SchedulerTypes, Forward
      <4>2. Left(w) = {}
        BY <3>5 DEF Left, SchedulerInv, TickerRows
      <4>3. Cardinality(Left(w)) = 0 BY <4>2, FS_EmptySet
      <4>. QED BY <1>15, <3>2, <4>1, <4>3
    <3>6. CASE w \in due /\ w \in passed
      <4>1. w \in plain BY <2>2, <3>6
      <4>2. \/ settled[w] + Cardinality(Left(w)) = RunsPerTick
            \/ w[1] \in overtaken /\ settled[w] + Cardinality(Left(w)) > RunsPerTick
        BY <2>2, <3>6 DEF SchedulerInv, Runs
      <4>3. w[1] \in overtaken'
        <5>1. w[2] \in 1..MaxTime /\ nextRun[w[1]] \in Nat
          BY <3>1 DEF SchedulerInv, SchedulerTypes, Scheduler!Schedules
        <5>2. CASE w[1] \in overtaken BY <1>2, <5>2
        <5>3. CASE w[1] \notin overtaken
          <6>1. nextRun[w[1]] # w[2] BY <2>2, <3>6, <5>1, <5>3 DEF SchedulerInv, Forward
          <6>. QED BY <1>2, <3>6, <6>1
        <5>. QED BY <5>2, <5>3
      <4>. QED BY <1>15, <3>2, <3>3, <4>1, <4>2, <4>3
    <3>. QED BY <3>4, <3>5, <3>6
  <2>. QED BY <2>1, <2>2
<1>. QED BY <1>8, <1>9, <1>12, <1>16 DEF SchedulerInv

\* The submission gives the claimed window its job, once.
LEMMA SubmitStep ==
  ASSUME SchedulerInv, NEW t \in Tickers, Scheduler!TickSubmit(t)
  PROVE  SchedulerInv'
<1>. USE SchedulesAssumption
<1>1. PICK run \in ticker[t].left :
        /\ settled' = [settled EXCEPT ![run[1]] = @ + 1]
        /\ ticker' = [ticker EXCEPT ![t].left = @ \ {run}]
  BY DEF Scheduler!TickSubmit
<1>2. /\ UNCHANGED <<time, nextRun, timing, enabled, windows, passed, overtaken>>
      /\ ticker[t].phase = "submitting" /\ ticker[t] \in Tick
  BY DEF Scheduler!TickSubmit, Scheduler!row, SchedulerInv, SchedulerTypes
<1>3. /\ run[1] \in PlainSchedules \X (1..MaxTime) /\ run[2] \in 1..RunsPerTick
      /\ run = <<run[1], run[2]>> /\ run[1] \in passed
  BY <1>1, <1>2 DEF Tick, SchedulerInv, TickerRows
<1>4. /\ ticker'[t] = [ticker[t] EXCEPT !.left = @ \ {run}]
      /\ \A u \in Tickers \ {t} : ticker'[u] = ticker[u]
      /\ ticker' = [u \in Tickers |-> ticker'[u]]
  BY <1>1 DEF SchedulerInv, SchedulerTypes
<1>5. /\ ticker'[t] \in Tick /\ ticker'[t].left = ticker[t].left \ {run}
      /\ ticker'[t].due = ticker[t].due /\ ticker'[t].at = ticker[t].at
      /\ ticker'[t].phase = "submitting"
  BY <1>2, <1>4 DEF Tick
<1>6. /\ settled' \in [PlainSchedules \X (1..MaxTime) -> Nat]
      /\ settled'[run[1]] = settled[run[1]] + 1
      /\ \A w \in PlainSchedules \X (1..MaxTime) : w # run[1] => settled'[w] = settled[w]
  BY <1>1, <1>3 DEF SchedulerInv, SchedulerTypes
<1>7. SchedulerTypes'
  <2>1. ticker' \in [Tickers -> Tick] BY <1>4, <1>5 DEF SchedulerInv, SchedulerTypes
  <2>. QED BY <1>2, <1>6, <2>1 DEF SchedulerInv, SchedulerTypes
<1>8. TickerRows' BY <1>2, <1>4, <1>5 DEF SchedulerInv, TickerRows
<1>9. Forward' BY <1>2, <1>3, <1>6 DEF SchedulerInv, SchedulerTypes, Forward
<1>10. \A w : Left(w)' = Left(w) \ {<<t, run>>}
  <2>. TAKE w
  <2>1. \A q \in Tickers \X ({w} \X (1..RunsPerTick)) :
           q[2] \in ticker'[q[1]].left <=> (q[2] \in ticker[q[1]].left /\ q # <<t, run>>)
    <3>. TAKE q \in Tickers \X ({w} \X (1..RunsPerTick))
    <3>1. q = <<q[1], q[2]>> OBVIOUS
    <3>2. CASE q[1] = t BY <3>1, <3>2, <1>5
    <3>3. CASE q[1] # t BY <3>1, <3>3, <1>4
    <3>. QED BY <3>2, <3>3
  <2>. QED BY <2>1 DEF Left
<1>11. <<t, run>> \in Left(run[1])
  <2>1. <<t, run>> \in Tickers \X ({run[1]} \X (1..RunsPerTick)) BY <1>3
  <2>. QED BY <1>1, <2>1 DEF Left
<1>12. \A w : w # run[1] => <<t, run>> \notin Left(w) BY <1>3 DEF Left
<1>13. \A w \in PlainSchedules \X (1..MaxTime) :
         settled'[w] + Cardinality(Left(w)') = settled[w] + Cardinality(Left(w))
  <2>. TAKE w \in PlainSchedules \X (1..MaxTime)
  <2>1. IsFiniteSet(Left(w)) /\ Cardinality(Left(w)) \in Nat BY LeftFinite
  <2>2. Cardinality(Left(w)') =
           IF <<t, run>> \in Left(w) THEN Cardinality(Left(w)) - 1 ELSE Cardinality(Left(w))
    BY <1>10, <2>1, FS_RemoveElement
  <2>3. settled[w] \in Nat BY DEF SchedulerInv, SchedulerTypes
  <2>. QED BY <1>6, <1>11, <1>12, <2>1, <2>2, <2>3
<1>14. Runs'
  <2>. SUFFICES ASSUME NEW w \in passed
                PROVE  /\ w[1] \in MarketSchedules => w \in windows
                       /\ w[1] \in PlainSchedules =>
                            (\/ settled'[w] + Cardinality(Left(w)') = RunsPerTick
                             \/ /\ w[1] \in overtaken
                                /\ settled'[w] + Cardinality(Left(w)') > RunsPerTick)
    BY <1>2 DEF Runs
  <2>1. w[1] \in PlainSchedules => w \in PlainSchedules \X (1..MaxTime)
    BY DEF SchedulerInv, SchedulerTypes
  <2>2. w[1] \in PlainSchedules =>
          settled'[w] + Cardinality(Left(w)') = settled[w] + Cardinality(Left(w))
    BY <1>13, <2>1
  <2>. QED BY <2>2 DEF SchedulerInv, Runs
<1>. QED BY <1>7, <1>8, <1>9, <1>14 DEF SchedulerInv

\* A ticker that dies after its commit leaves its window without a job.
LEMMA DeathStep ==
  ASSUME SchedulerInv, NEW t \in Tickers, Scheduler!TickDies(t)
  PROVE  SchedulerInv'
<1>. USE SchedulesAssumption
<1>. DEFINE Lost(w) == {run \in ticker[t].left : run[1] = w}
<1>1. /\ settled' = [w \in DOMAIN settled |->
             settled[w] + Scheduler!Cardinality(Lost(w))]
      /\ ticker' = [ticker EXCEPT ![t] = Scheduler!NoTick]
      /\ UNCHANGED <<time, nextRun, timing, enabled, windows, passed, overtaken>>
      /\ ticker[t] \in Tick
  BY DEF Scheduler!TickDies, Scheduler!row, SchedulerInv, SchedulerTypes
<1>2. \A S : Scheduler!Cardinality(S) = Cardinality(S)
  BY DEF Scheduler!Cardinality, Cardinality
<1>3. \A w : /\ Lost(w) \subseteq {w} \X (1..RunsPerTick)
             /\ \A run \in Lost(w) : run[1] = w /\ run = <<run[1], run[2]>>
  BY <1>1 DEF Tick
<1>4. \A w : IsFiniteSet(Lost(w)) /\ Cardinality(Lost(w)) \in Nat
  <2>. TAKE w
  <2>0. RunsPerTick \in Int /\ 1 \in Int OBVIOUS
  <2>1. IsFiniteSet(1..RunsPerTick) /\ IsFiniteSet({w}) BY <2>0, FS_Interval, FS_Singleton
  <2>2. IsFiniteSet({w} \X (1..RunsPerTick)) BY <2>1, FS_Product
  <2>. QED BY <1>3, <2>2, FS_Subset, FS_CardinalityType
<1>5. \A w : /\ Cardinality({t} \X Lost(w)) = Cardinality(Lost(w))
             /\ IsFiniteSet({t} \X Lost(w))
  <2>. TAKE w
  <2>1. IsFiniteSet({t}) /\ Cardinality({t}) = 1 BY FS_Singleton
  <2>2. IsFiniteSet(Lost(w)) /\ Cardinality(Lost(w)) \in Nat BY <1>4
  <2>. HIDE DEF Lost
  <2>3. /\ IsFiniteSet({t} \X Lost(w))
        /\ Cardinality({t} \X Lost(w)) = Cardinality({t}) * Cardinality(Lost(w))
    BY <2>1, <2>2, FS_Product
  <2>. QED BY <2>1, <2>2, <2>3
<1>6. /\ ticker'[t] = Scheduler!NoTick /\ Scheduler!NoTick \in Tick
      /\ \A u \in Tickers \ {t} : ticker'[u] = ticker[u]
      /\ ticker' = [u \in Tickers |-> ticker'[u]]
  <2>1. Scheduler!NoTick \in Tick BY DEF Scheduler!NoTick, Tick
  <2>. QED BY <1>1, <2>1 DEF SchedulerInv, SchedulerTypes
<1>7. settled' \in [PlainSchedules \X (1..MaxTime) -> Nat]
      /\ \A w \in PlainSchedules \X (1..MaxTime) :
            settled'[w] = settled[w] + Cardinality(Lost(w))
  <2>. HIDE DEF Lost
  <2>. QED BY <1>1, <1>2, <1>4 DEF SchedulerInv, SchedulerTypes
<1>8. SchedulerTypes'
  <2>1. ticker' \in [Tickers -> Tick] BY <1>6 DEF SchedulerInv, SchedulerTypes
  <2>. QED BY <1>1, <1>7, <2>1 DEF SchedulerInv, SchedulerTypes
<1>9. TickerRows' BY <1>1, <1>6 DEF SchedulerInv, SchedulerTypes, TickerRows, Scheduler!NoTick
<1>10. Forward'
  <2>1. ASSUME NEW w \in PlainSchedules \X (1..MaxTime), settled'[w] # 0, settled[w] = 0
        PROVE  w \in passed
    <3>1. Cardinality(Lost(w)) # 0 BY <1>4, <1>7, <2>1
    <3>2. Lost(w) # {} BY <3>1, FS_EmptySet
    <3>. QED BY <3>2 DEF SchedulerInv, TickerRows
  <2>2. \A w \in DOMAIN settled' : settled'[w] # 0 => w \in passed
    BY <1>7, <2>1 DEF SchedulerInv, SchedulerTypes, Forward
  <2>. QED BY <1>1, <2>2 DEF SchedulerInv, Forward
<1>11. \A w : Left(w)' = Left(w) \ ({t} \X Lost(w)) /\ {t} \X Lost(w) \subseteq Left(w)
  <2>. TAKE w
  <2>1. \A q \in Tickers \X ({w} \X (1..RunsPerTick)) :
           q[2] \in ticker'[q[1]].left <=> (q[2] \in ticker[q[1]].left /\ q[1] # t)
    <3>. TAKE q \in Tickers \X ({w} \X (1..RunsPerTick))
    <3>1. CASE q[1] = t BY <3>1, <1>6 DEF Scheduler!NoTick
    <3>2. CASE q[1] # t BY <3>2, <1>6
    <3>. QED BY <3>1, <3>2
  <2>2. \A q \in Left(w) : q \in {t} \X Lost(w) <=> q[1] = t
    <3>. TAKE q \in Left(w)
    <3>1. q = <<q[1], q[2]>> /\ q[2][1] = w /\ q[2] \in ticker[q[1]].left BY DEF Left
    <3>. QED BY <3>1
  <2>3. {t} \X Lost(w) \subseteq Left(w)
    <3>. SUFFICES ASSUME NEW run \in Lost(w) PROVE <<t, run>> \in Left(w) OBVIOUS
    <3>1. run \in {w} \X (1..RunsPerTick) /\ run \in ticker[t].left BY <1>3
    <3>. HIDE DEF Lost
    <3>. QED BY <3>1 DEF Left
  <2>. HIDE DEF Lost
  <2>. QED BY <2>1, <2>2, <2>3 DEF Left
<1>12. \A w \in PlainSchedules \X (1..MaxTime) :
         settled'[w] + Cardinality(Left(w)') = settled[w] + Cardinality(Left(w))
  <2>. TAKE w \in PlainSchedules \X (1..MaxTime)
  <2>. DEFINE D == {t} \X Lost(w)
  <2>1. /\ Cardinality(D) = Cardinality(Lost(w)) /\ Cardinality(Lost(w)) \in Nat
        /\ Left(w)' = Left(w) \ D /\ Left(w) \cap D = D
        /\ settled'[w] = settled[w] + Cardinality(Lost(w)) /\ settled[w] \in Nat
    <3>1. Left(w)' = Left(w) \ D /\ D \subseteq Left(w) BY <1>11
    <3>2. Cardinality(D) = Cardinality(Lost(w)) BY <1>5
    <3>. HIDE DEF Lost, D
    <3>. QED BY <1>4, <1>7, <3>1, <3>2 DEF SchedulerInv, SchedulerTypes
  <2>2. IsFiniteSet(Left(w)) /\ Cardinality(Left(w)) \in Nat BY LeftFinite
  <2>. HIDE DEF D, Lost
  <2>3. Cardinality(Left(w) \ D) = Cardinality(Left(w)) - Cardinality(Left(w) \cap D)
    BY <2>2, FS_Difference
  <2>4. Cardinality(Left(w)') = Cardinality(Left(w)) - Cardinality(D) BY <2>1, <2>3
  <2>. QED BY <2>1, <2>2, <2>4
<1>13. Runs'
  <2>. SUFFICES ASSUME NEW w \in passed
                PROVE  /\ w[1] \in MarketSchedules => w \in windows
                       /\ w[1] \in PlainSchedules =>
                            (\/ settled'[w] + Cardinality(Left(w)') = RunsPerTick
                             \/ /\ w[1] \in overtaken
                                /\ settled'[w] + Cardinality(Left(w)') > RunsPerTick)
    BY <1>1 DEF Runs
  <2>1. w[1] \in PlainSchedules => w \in PlainSchedules \X (1..MaxTime)
    BY DEF SchedulerInv, SchedulerTypes
  <2>2. w[1] \in PlainSchedules =>
          settled'[w] + Cardinality(Left(w)') = settled[w] + Cardinality(Left(w))
    BY <1>12, <2>1
  <2>. QED BY <2>2 DEF SchedulerInv, Runs
<1>. QED BY <1>8, <1>9, <1>10, <1>13 DEF SchedulerInv

\* Every step of the scheduler keeps the invariant.
LEMMA SchedulerStep == SchedulerInv /\ [Scheduler!Next]_(Scheduler!vars) => SchedulerInv'
<1>. SUFFICES ASSUME SchedulerInv, [Scheduler!Next]_(Scheduler!vars) PROVE SchedulerInv'
  OBVIOUS
<1>. USE SchedulesAssumption
<1>t. SchedulerTypes /\ Forward BY DEF SchedulerInv
<1>1. CASE UNCHANGED Scheduler!vars
  <2>. USE <1>1 DEF Scheduler!vars, Scheduler!row
  <2>1. SchedulerTypes' BY <1>t DEF SchedulerTypes
  <2>. QED BY <1>t, <2>1, Rest DEF Forward, SchedulerTypes
<1>2. CASE Scheduler!Clock
  <2>. USE <1>2 DEF Scheduler!Clock, Scheduler!row
  <2>1. SchedulerTypes' BY <1>t DEF SchedulerTypes
  <2>. QED BY <1>t, <2>1, Rest DEF Forward, SchedulerTypes
<1>3. CASE Scheduler!InstallMarketplaceSchedules
  <2>1. /\ nextRun' = [s \in Scheduler!Schedules |->
             IF s \in MarketSchedules /\ nextRun[s] = 0 THEN time + Interval ELSE nextRun[s]]
        /\ enabled' \in [Scheduler!Schedules -> BOOLEAN]
        /\ UNCHANGED <<timing, time, windows, ticker, settled, passed, overtaken>>
    BY <1>3, <1>t DEF Scheduler!InstallMarketplaceSchedules, SchedulerTypes
  <2>2. nextRun' \in [Scheduler!Schedules -> 0..(MaxTime + Interval)]
    BY <1>t, <2>1 DEF SchedulerTypes
  <2>3. SchedulerTypes' BY <1>t, <2>1, <2>2 DEF SchedulerTypes
  <2>4. \A w \in passed : w[1] \in PlainSchedules =>
           w[1] \in overtaken' \/ nextRun'[w[1]] = 0 \/ w[2] < nextRun'[w[1]]
    <3>. SUFFICES ASSUME NEW w \in passed, w[1] \in PlainSchedules
                  PROVE  w[1] \in overtaken' \/ nextRun'[w[1]] = 0 \/ w[2] < nextRun'[w[1]]
      OBVIOUS
    <3>1. nextRun'[w[1]] = nextRun[w[1]] BY <2>1 DEF Scheduler!Schedules
    <3>. QED BY <1>t, <2>1, <3>1 DEF Forward
  <2>. QED BY <1>t, <2>1, <2>3, <2>4, Rest DEF SchedulerTypes
<1>4. ASSUME NEW s \in PlainSchedules, Scheduler!CreateSchedule(s) PROVE SchedulerInv'
  <2>1. /\ \A w \in passed : w[1] # s
        /\ UNCHANGED <<enabled, time, windows, ticker, settled, passed, overtaken>>
    BY <1>4 DEF Scheduler!CreateSchedule
  <2>2. PICK kind \in Scheduler!Timing :
          /\ timing' = [timing EXCEPT ![s] = kind]
          /\ \E first \in IF kind = "once" THEN time + 1 .. time + Interval
                         ELSE {IF kind = "interval" THEN time + Interval
                               ELSE time + Interval - (time % Interval)} :
              nextRun' = [nextRun EXCEPT ![s] = first]
    BY <1>4 DEF Scheduler!CreateSchedule
  <2>3. PICK first \in IF kind = "once" THEN time + 1 .. time + Interval
                         ELSE {IF kind = "interval" THEN time + Interval
                               ELSE time + Interval - (time % Interval)} :
              nextRun' = [nextRun EXCEPT ![s] = first]
    BY <2>2
  <2>4. time % Interval \in 0..(Interval - 1) /\ time \in 1..MaxTime BY <1>t DEF SchedulerTypes
  <2>5. first \in 0..(MaxTime + Interval) BY <2>4
  <2>6. SchedulerTypes' BY <1>t, <2>1, <2>2, <2>3, <2>5 DEF SchedulerTypes
  <2>7. \A w \in passed : w[1] \in PlainSchedules =>
           w[1] \in overtaken' \/ nextRun'[w[1]] = 0 \/ w[2] < nextRun'[w[1]]
    <3>. SUFFICES ASSUME NEW w \in passed, w[1] \in PlainSchedules
                  PROVE  w[1] \in overtaken' \/ nextRun'[w[1]] = 0 \/ w[2] < nextRun'[w[1]]
      OBVIOUS
    <3>1. nextRun'[w[1]] = nextRun[w[1]] BY <2>1, <2>3, <1>t DEF SchedulerTypes
    <3>. QED BY <1>t, <2>1, <3>1 DEF Forward
  <2>. QED BY <2>1, <2>6, <2>7, <2>4, Rest
<1>5. ASSUME NEW s \in Scheduler!Schedules, Scheduler!SetEnabled(s) PROVE SchedulerInv'
  <2>. USE <1>5 DEF Scheduler!SetEnabled
  <2>1. enabled' \in [Scheduler!Schedules -> BOOLEAN] BY <1>t DEF SchedulerTypes
  <2>2. SchedulerTypes' BY <1>t, <2>1 DEF SchedulerTypes
  <2>. QED BY <1>t, <2>2, Rest DEF Forward, SchedulerTypes
<1>6. ASSUME NEW s \in Scheduler!Schedules, Scheduler!RunNow(s) PROVE SchedulerInv'
  <2>. USE <1>6 DEF Scheduler!RunNow, Scheduler!row
  <2>1. windows' \subseteq MarketSchedules \X (1..MaxTime) BY <1>t DEF SchedulerTypes
  <2>2. SchedulerTypes' BY <1>t, <2>1 DEF SchedulerTypes
  <2>. QED BY <1>t, <2>2, Rest DEF Forward, SchedulerTypes
<1>7. ASSUME NEW t \in Tickers, Scheduler!TickLoad(t) PROVE SchedulerInv'
  <2>. DEFINE due == {<<s, nextRun[s]>> : s \in {x \in Scheduler!Schedules : Scheduler!Due(x)}}
              new == [phase |-> "loaded", at |-> time, due |-> due, seen |-> windows \cap due,
                      left |-> {}]
  <2>1. /\ ticker' = [ticker EXCEPT ![t] = new] /\ ticker[t].phase = "idle"
        /\ UNCHANGED <<time, nextRun, timing, enabled, windows, settled, passed, overtaken>>
    BY <1>7 DEF Scheduler!TickLoad, Scheduler!row
  <2>2. ticker[t].left = {} BY <2>1 DEF SchedulerInv, TickerRows
  <2>3. /\ due \subseteq Scheduler!Schedules \X (1..MaxTime)
        /\ \A w \in due : w[2] <= time
    BY <1>t DEF SchedulerTypes, Scheduler!Due
  <2>4. /\ new.left = {} /\ new.at = time /\ new.due = due /\ new \in Tick
    <3>1. windows \cap due \subseteq Scheduler!Schedules \X (1..MaxTime) BY <2>3
    <3>. HIDE DEF due
    <3>. QED BY <1>t, <2>3, <3>1 DEF SchedulerTypes, Tick
  <2>. HIDE DEF new, due
  <2>5. new.at <= time /\ \A w \in new.due : w[2] <= new.at
    BY <1>t, <2>3, <2>4 DEF SchedulerTypes
  <2>. QED BY <2>1, <2>2, <2>4, <2>5, TickerRest
<1>8. ASSUME NEW t \in Tickers, ticker[t].left = {}, ticker' = [ticker EXCEPT ![t] = Scheduler!NoTick],
             UNCHANGED <<time, nextRun, timing, enabled, windows, settled, passed, overtaken>>
      PROVE  SchedulerInv'
  <2>1. /\ Scheduler!NoTick \in Tick /\ Scheduler!NoTick.left = {} /\ Scheduler!NoTick.at = 0
        /\ Scheduler!NoTick.due = {}
    BY DEF Scheduler!NoTick, Tick
  <2>2. 0 <= time BY <1>t DEF SchedulerTypes
  <2>. QED BY <1>8, <2>1, <2>2, TickerRest
<1>9. ASSUME NEW t \in Tickers, Scheduler!TickConflict(t) PROVE SchedulerInv'
  <2>1. ticker[t].left = {} BY <1>9 DEF Scheduler!TickConflict, SchedulerInv, TickerRows
  <2>. QED BY <1>8, <1>9, <2>1 DEF Scheduler!TickConflict, Scheduler!row
<1>10. ASSUME NEW t \in Tickers, Scheduler!TickDone(t) PROVE SchedulerInv'
  BY <1>8, <1>10 DEF Scheduler!TickDone, Scheduler!row
<1>. QED BY <1>1, <1>2, <1>3, <1>4, <1>5, <1>6, <1>7, <1>9, <1>10, CommitStep, SubmitStep, DeathStep
     DEF Scheduler!Next

\* Schedules: a window that was passed was run, as often as configured.
THEOREM DueRunOnceHolds == Spec => []DueRunOnce
<1>1. SchedulerInv => DueRunOnce
  <2>. SUFFICES ASSUME SchedulerInv PROVE Scheduler!DueRunOnce BY DEF DueRunOnce
  <2>1. \A w : Scheduler!Waiting(w) = Cardinality(Left(w))
    <3>1. \A S : Scheduler!Cardinality(S) = Cardinality(S)
      BY DEF Scheduler!Cardinality, Cardinality
    <3>. QED BY <3>1 DEF Scheduler!Waiting, Left
  <2>2. \A w \in passed : w[1] \in MarketSchedules \/ w[1] \in PlainSchedules
    BY DEF SchedulerInv, SchedulerTypes, Scheduler!Schedules
  <2>. QED BY <2>1, <2>2 DEF SchedulerInv, Runs, Scheduler!DueRunOnce
<1>. QED BY <1>1, SchedulerSpec, SchedulerInit, SchedulerStep, PTL DEF Scheduler!Spec

\* Schedules: the clock, the windows and what the tickers hold have their types.
LEMMA SchedulerTypeCorrect == Spec => []Scheduler!TypeOK
<1>1. SchedulerInv => Scheduler!TypeOK
  BY DEF SchedulerInv, SchedulerTypes, TickerRows, Tick, Scheduler!TypeOK
<1>. QED BY <1>1, SchedulerSpec, SchedulerInit, SchedulerStep, PTL DEF Scheduler!Spec

-----------------------------------------------------------------------------
(* Sessions *)

\* What a login or a refresh is doing.
Login == [phase : {"idle", "consuming", "exchanging", "identifying", "storing",
                   "committing", "confirming"},
          state : 0..Len(oauthState), previous : 0..Len(session), seen : 0..Len(session)]

BrokerTypes ==
    /\ account \in Broker!AccountStatus
    /\ session \in Seq(Broker!Session)
    /\ oauthState \in Seq({"issued", "consumed", "expired"})
    /\ Len(oauthState) <= MaxStates
    /\ spent \subseteq DOMAIN oauthState /\ revoking \in BOOLEAN
    /\ login \in [Logins -> Login]
    /\ user \in [Users -> 0..Len(session)]
    /\ revocations \in Nat /\ twins \in Nat
    /\ presented \in [1..MaxStates -> Nat] /\ overlapped \subseteq 1..MaxStates

Usable(s) == ~session[s].revoked /\ ~session[s].expired

\* With no stale store, only the session stored last can be usable, and then
\* it was stored after the last revocation; a login about to store replaces it,
\* if it is still the last one.
Newest ==
    twins = 0 =>
        /\ \A s \in DOMAIN session :
             Usable(s) => s = Len(session) /\ session[s].era = revocations
        /\ \A c \in Logins :
             /\ login[c].phase = "committing" /\ login[c].seen = Len(session)
             /\ session # <<>> /\ Usable(Len(session))
             => login[c].previous = Len(session)

\* A login that has its state, and has not yet sent the code to eBay.
Presents(c) == login[c].phase \in {"consuming", "exchanging"} /\ login[c].state # 0

Fresh(n) == n \notin DOMAIN oauthState \/ oauthState[n] = "issued"
Consumed(n) == n \in DOMAIN oauthState /\ oauthState[n] = "consumed"

\* Where no two callbacks overlapped, one login is about to send a code, which
\* nobody has sent before; by the time it does, the state is consumed.
Sent(n) ==
    /\ presented[n] <= 1
    /\ Fresh(n) => presented[n] = 0
    /\ \A c \in Logins : Presents(c) /\ login[c].state = n =>
         /\ presented[n] = 0
         /\ login[c].phase = "exchanging" => Consumed(n)
         /\ \A d \in Logins : Presents(d) /\ login[d].state = n => d = c

OneSends == \A n \in (1..MaxStates) \ overlapped : Sent(n)

BrokerInv == BrokerTypes /\ Newest /\ OneSends

\* A behaviour of the services is a behaviour of the session broker.
LEMMA BrokerSpec == Spec => Broker!Spec
<1>1. Init => Broker!Init BY DEF Init
<1>2. [Next]_vars => [Broker!Next]_(Broker!vars)
  BY DEF Next, vars, MediaMoves, DomainMoves, StudyMoves, QueueMoves,
         MarketMoves, SchedulerMoves, BrokerMoves, BuyerMoves, ThreadMoves,
         UpkeepMoves, DispatchMoves, ArithmeticMoves, RemoteMoves, ApiMoves,
         brokerVars, Broker!vars, Broker!row, Broker!history
<1>. QED BY <1>1, <1>2, PTL DEF Spec, Broker!Spec

\* Before the first login there is no session and no state.
LEMMA BrokerInit == Broker!Init => BrokerInv
<1>. SUFFICES ASSUME Broker!Init PROVE BrokerInv OBVIOUS
<1>. USE SessionsAssumption DEF Broker!Init, Broker!NoLogin
<1>0. /\ session = <<>> /\ oauthState = <<>>
      /\ login = [c \in Logins |-> [phase |-> "idle", state |-> 0, previous |-> 0, seen |-> 0]]
      /\ presented = [n \in 1..MaxStates |-> 0] /\ overlapped = {}
  OBVIOUS
<1>1. Len(session) = 0 /\ Len(oauthState) = 0 OBVIOUS
<1>2. login \in [Logins -> Login] BY <1>0, <1>1 DEF Login
<1>6. presented \in [1..MaxStates -> Nat] /\ overlapped \subseteq 1..MaxStates
      /\ user \in [Users -> 0..Len(session)]
  BY <1>0, <1>1
<1>7. session \in Seq(Broker!Session) /\ oauthState \in Seq({"issued", "consumed", "expired"})
  BY <1>0
<1>3. BrokerTypes
  <2>1. account \in Broker!AccountStatus BY DEF Broker!AccountStatus
  <2>2. spent \subseteq DOMAIN oauthState /\ revoking \in BOOLEAN OBVIOUS
  <2>3. revocations \in Nat /\ twins \in Nat OBVIOUS
  <2>4. Len(oauthState) <= MaxStates BY <1>1
  <2>. QED BY <1>2, <1>6, <1>7, <2>1, <2>2, <2>3, <2>4 DEF BrokerTypes
<1>4. Newest BY <1>0 DEF Newest
<1>5. OneSends BY <1>0 DEF OneSends, Sent, Presents
<1>. QED BY <1>3, <1>4, <1>5 DEF BrokerInv

\* The active session is the largest unrevoked one, or there is none.
LEMMA ActiveIs ==
  ASSUME session \in Seq(Broker!Session)
  PROVE  /\ Broker!Active \in 0..Len(session)
         /\ Broker!Active # 0 => Usable(Broker!Active)
         /\ \A s \in DOMAIN session :
              Usable(s) /\ s = Len(session) => Broker!Active = s
<1>. DEFINE U == Broker!Unrevoked
            newest == CHOOSE s \in U : \A o \in U : o <= s
<1>1. U \subseteq 1..Len(session) /\ Len(session) \in Nat
  BY DEF Broker!Unrevoked
<1>2. CASE U = {}
  BY <1>1, <1>2 DEF Broker!Active, Broker!Unrevoked, Usable
<1>3. CASE U # {}
  <2>1. newest \in U /\ \A o \in U : o <= newest BY <1>1, <1>3, LargestExists
  <2>2. Broker!Active = IF session[newest].expired THEN 0 ELSE newest
    BY <1>3 DEF Broker!Active
  <2>. HIDE DEF newest
  <2>3. ~session[newest].revoked BY <2>1 DEF Broker!Unrevoked
  <2>4. \A s \in DOMAIN session : Usable(s) /\ s = Len(session) => s \in U /\ s = newest
    BY <1>1, <2>1 DEF Usable, Broker!Unrevoked
  <2>. QED BY <1>1, <2>1, <2>2, <2>3, <2>4 DEF Usable
<1>. QED BY <1>2, <1>3

\* Nobody comes to send a code who did not before, and no state is issued anew.
LEMMA SendersRest ==
  ASSUME BrokerInv, UNCHANGED <<presented, overlapped>>,
         \A n \in 1..MaxStates : (Fresh(n)' => Fresh(n)) /\ (Consumed(n) => Consumed(n)'),
         \A d \in Logins : Presents(d)' =>
            /\ Presents(d) /\ login'[d].state = login[d].state
            /\ \/ login'[d].phase = "exchanging" => login[d].phase = "exchanging"
               \/ Consumed(login[d].state)'
  PROVE  OneSends'
<1>. SUFFICES ASSUME NEW n \in (1..MaxStates) \ overlapped PROVE Sent(n)'
  BY DEF OneSends
<1>1. Sent(n) BY DEF BrokerInv, OneSends
<1>2. presented'[n] <= 1 /\ (Fresh(n)' => presented'[n] = 0) BY <1>1 DEF Sent
<1>3. ASSUME NEW c \in Logins, Presents(c)', login'[c].state = n
      PROVE  /\ presented'[n] = 0
             /\ login'[c].phase = "exchanging" => Consumed(n)'
             /\ \A d \in Logins : Presents(d)' /\ login'[d].state = n => d = c
  <2>1. Presents(c) /\ login[c].state = n BY <1>3
  <2>2. login'[c].phase = "exchanging" => Consumed(n)' BY <1>1, <1>3, <2>1 DEF Sent
  <2>3. \A d \in Logins : Presents(d)' /\ login'[d].state = n => d = c
    BY <1>1, <2>1 DEF Sent
  <2>. QED BY <1>1, <2>1, <2>2, <2>3 DEF Sent
<1>. QED BY <1>2, <1>3 DEF Sent

\* A login goes on and stores nothing.
LEMMA LoginMoves ==
  ASSUME BrokerInv, NEW c \in Logins, NEW l \in Login,
         login' = [login EXCEPT ![c] = l],
         account' \in Broker!AccountStatus,
         oauthState' \in Seq({"issued", "consumed", "expired"}), Len(oauthState') = Len(oauthState),
         spent \subseteq spent', spent' \subseteq DOMAIN oauthState,
         UNCHANGED <<session, revoking, user, revocations, twins>>,
         presented' \in [1..MaxStates -> Nat], overlapped' \subseteq 1..MaxStates,
         OneSends',
         l.phase = "committing" /\ l.seen = Len(session) /\ session # <<>> /\ Usable(Len(session)) =>
            l.previous = Len(session)
  PROVE  BrokerInv'
<1>1. /\ login'[c] = l /\ \A d \in Logins \ {c} : login'[d] = login[d]
      /\ login' \in [Logins -> Login]
  BY DEF BrokerInv, BrokerTypes
<1>2. Login' = Login BY DEF Login
<1>3. DOMAIN oauthState' = DOMAIN oauthState /\ DOMAIN oauthState = 1..Len(oauthState)
  BY DEF BrokerInv, BrokerTypes
<1>4. BrokerTypes'
  BY <1>1, <1>2, <1>3 DEF BrokerInv, BrokerTypes
<1>5. Newest'
  <2>1. \A s : Usable(s)' <=> Usable(s) BY DEF Usable
  <2>. QED BY <1>1, <2>1 DEF BrokerInv, Newest
<1>. QED BY <1>4, <1>5 DEF BrokerInv

\* A login goes on to where it sends no code, or goes on to send what it had.
LEMMA LoginRests ==
  ASSUME BrokerInv, NEW c \in Logins, NEW l \in Login,
         login' = [login EXCEPT ![c] = l],
         UNCHANGED <<oauthState, presented, overlapped>>,
         l.phase \notin {"consuming", "exchanging"} \/ l.state = 0
  PROVE  OneSends'
<1>1. login'[c] = l /\ \A d \in Logins \ {c} : login'[d] = login[d]
  BY DEF BrokerInv, BrokerTypes
<1>2. \A n : (Fresh(n)' <=> Fresh(n)) /\ (Consumed(n)' <=> Consumed(n))
  BY DEF Fresh, Consumed
<1>3. ~Presents(c)' BY <1>1 DEF Presents
<1>4. \A d \in Logins \ {c} : Presents(d)' <=> Presents(d) BY <1>1 DEF Presents
<1>. QED BY <1>1, <1>2, <1>3, <1>4, SendersRest

\* The logins' and the operations' rows stay; account, states and their
\* histories change.
LEMMA AccountMoves ==
  ASSUME BrokerInv, account' \in Broker!AccountStatus, revoking' \in BOOLEAN,
         oauthState' \in Seq({"issued", "consumed", "expired"}),
         Len(oauthState) <= Len(oauthState'), Len(oauthState') <= MaxStates,
         user' \in [Users -> 0..Len(session)],
         \A n \in 1..MaxStates : (Fresh(n)' => Fresh(n)) /\ (Consumed(n) => Consumed(n)'),
         UNCHANGED <<session, spent, login, revocations, twins, presented, overlapped>>
  PROVE  BrokerInv'
<1>1. DOMAIN oauthState \subseteq DOMAIN oauthState'
  BY SessionsAssumption DEF BrokerInv, BrokerTypes
<1>2. login' \in [Logins -> Login']
  <2>1. Login \subseteq Login' BY DEF Login, BrokerInv, BrokerTypes
  <2>. QED BY <2>1 DEF BrokerInv, BrokerTypes
<1>3. BrokerTypes' BY <1>1, <1>2 DEF BrokerInv, BrokerTypes
<1>4. Newest' BY DEF BrokerInv, Newest, Usable
<1>5. OneSends'
  <2>1. \A d \in Logins : Presents(d)' <=> Presents(d) BY DEF Presents
  <2>. QED BY <2>1, SendersRest
<1>. QED BY <1>3, <1>4, <1>5 DEF BrokerInv

\* Sessions are revoked or expire; none is stored.
LEMMA SessionMoves ==
  ASSUME BrokerInv, account' \in Broker!AccountStatus, revoking' \in BOOLEAN,
         session' \in Seq(Broker!Session), Len(session') = Len(session),
         \A s \in DOMAIN session : /\ Usable(s)' => Usable(s)
                                   /\ session'[s].era = session[s].era,
         revocations' \in Nat,
         revocations' = revocations \/ \A s \in DOMAIN session : s = Len(session) => ~Usable(s)',
         UNCHANGED <<oauthState, spent, login, user, twins, presented, overlapped>>
  PROVE  BrokerInv'
<1>1. DOMAIN session' = DOMAIN session /\ DOMAIN session = 1..Len(session)
  BY DEF BrokerInv, BrokerTypes
<1>2. Login' = Login BY DEF Login
<1>3. BrokerTypes' BY <1>1, <1>2 DEF BrokerInv, BrokerTypes
<1>4. Newest'
  <2>. SUFFICES ASSUME twins = 0
                PROVE  /\ \A s \in DOMAIN session :
                            Usable(s)' => s = Len(session) /\ session'[s].era = revocations'
                       /\ \A c \in Logins :
                            /\ login[c].phase = "committing" /\ login[c].seen = Len(session)
                            /\ session' # <<>> /\ Usable(Len(session))'
                            => login[c].previous = Len(session)
    BY <1>1 DEF Newest, Usable
  <2>1. \A s \in DOMAIN session : Usable(s)' => s = Len(session) /\ session'[s].era = revocations'
    BY DEF BrokerInv, Newest
  <2>2. session' # <<>> => session # <<>> /\ Len(session) \in DOMAIN session
    BY <1>1 DEF BrokerInv, BrokerTypes
  <2>. QED BY <2>1, <2>2 DEF BrokerInv, Newest
<1>5. OneSends'
  <2>1. \A d \in Logins : Presents(d)' <=> Presents(d) BY DEF Presents
  <2>2. \A n : (Fresh(n)' <=> Fresh(n)) /\ (Consumed(n)' <=> Consumed(n))
    BY DEF Fresh, Consumed
  <2>. QED BY <2>1, <2>2, SendersRest
<1>. QED BY <1>3, <1>4, <1>5 DEF BrokerInv

\* The transaction that stores a session replaces the one the login knew.
LEMMA StoreStep ==
  ASSUME BrokerInv, NEW c \in Logins, Broker!StoreSession(c)
  PROVE  BrokerInv'
<1>. DEFINE p == login[c].previous
            L == Len(session)
            fresh == [revoked |-> FALSE, expired |-> FALSE, era |-> revocations]
<1>1. /\ login[c].phase = "committing" /\ session' = Broker!Replace(p)
      /\ account' = "healthy"
      /\ twins' = IF Broker!LoadedCurrent(c) THEN twins ELSE twins + 1
      /\ login' = [login EXCEPT ![c] = [Broker!NoLogin EXCEPT !.phase = "confirming"]]
      /\ UNCHANGED <<oauthState, spent, revoking, user, revocations, presented, overlapped>>
  BY DEF Broker!StoreSession
<1>2. /\ session \in Seq(Broker!Session) /\ L \in Nat /\ revocations \in Nat
      /\ login[c] \in Login /\ twins \in Nat
  BY DEF BrokerInv, BrokerTypes
<1>3. /\ session' \in Seq(Broker!Session) /\ Len(session') = L + 1
      /\ session'[L + 1] = fresh
      /\ \A s \in 1..L : session'[s] = IF s = p THEN [session[s] EXCEPT !.revoked = TRUE]
                                       ELSE session[s]
  <2>. DEFINE old == [s \in DOMAIN session |->
                        IF s = p THEN [session[s] EXCEPT !.revoked = TRUE] ELSE session[s]]
  <2>1. \A s \in 1..L : session[s] \in Broker!Session BY <1>2
  <2>2. \A s \in 1..L : [session[s] EXCEPT !.revoked = TRUE] \in Broker!Session
    BY <2>1 DEF Broker!Session
  <2>3. old \in [1..L -> Broker!Session] BY <1>2, <2>1, <2>2
  <2>4. old \in Seq(Broker!Session) /\ Len(old) = L BY <1>2, <2>3
  <2>5. fresh \in Broker!Session BY <1>2 DEF Broker!Session
  <2>6. session' = Append(old, fresh) BY <1>1 DEF Broker!Replace
  <2>7. \A s \in 1..L : old[s] = IF s = p THEN [session[s] EXCEPT !.revoked = TRUE] ELSE session[s]
    <3>1. DOMAIN session = 1..L BY <1>2
    <3>. HIDE DEF p, L
    <3>. QED BY <3>1
  <2>. HIDE DEF old, fresh, p
  <2>. QED BY <1>2, <2>4, <2>5, <2>6, <2>7
<1>4. /\ login'[c] = [phase |-> "confirming", state |-> 0, previous |-> 0, seen |-> 0]
      /\ \A d \in Logins \ {c} : login'[d] = login[d]
      /\ login' = [d \in Logins |-> login'[d]]
  BY <1>1 DEF BrokerInv, BrokerTypes, Broker!NoLogin
<1>5. login'[c].phase = "confirming" BY <1>4
<1>6. login' \in [Logins -> Login']
  <2>1. Login \subseteq Login' BY <1>1, <1>2, <1>3 DEF Login
  <2>2. login'[c] \in Login' BY <1>2, <1>4, <2>1 DEF Login
  <2>3. \A d \in Logins \ {c} : login'[d] \in Login' BY <1>4, <2>1 DEF BrokerInv, BrokerTypes
  <2>. QED BY <1>4, <2>2, <2>3
<1>8. BrokerTypes'
  <2>1. user' \in [Users -> 0..Len(session')] BY <1>1, <1>2, <1>3 DEF BrokerInv, BrokerTypes
  <2>2. twins' \in Nat BY <1>1, <1>2
  <2>. QED BY <1>1, <1>3, <1>6, <2>1, <2>2 DEF BrokerInv, BrokerTypes, Broker!AccountStatus
<1>9. Newest'
  <2>. SUFFICES ASSUME twins' = 0 PROVE Newest' BY DEF Newest
  <2>1. Broker!LoadedCurrent(c) /\ twins = 0 BY <1>1, <1>2
  <2>2. login[c].seen = L BY <2>1 DEF Broker!LoadedCurrent
  <2>3. \A s \in 1..L : ~Usable(s)'
    <3>. SUFFICES ASSUME NEW s \in 1..L, Usable(s)' PROVE FALSE OBVIOUS
    <3>1. session[s] \in Broker!Session BY <1>2
    <3>2. s # p /\ Usable(s) BY <1>3, <3>1 DEF Usable, Broker!Session
    <3>3. s = L BY <2>1, <3>2, <1>2 DEF BrokerInv, Newest
    <3>4. session # <<>> BY <1>2, <3>3
    <3>. QED BY <1>1, <2>1, <2>2, <3>2, <3>3, <3>4 DEF BrokerInv, Newest
  <2>4. DOMAIN session' = 1..(L + 1) BY <1>2, <1>3
  <2>5. \A s \in DOMAIN session' : Usable(s)' => s = L + 1 /\ session'[s].era = revocations
    BY <1>2, <1>3, <2>3, <2>4
  <2>6. \A d \in Logins : login'[d].phase = "committing" => login'[d].seen # L + 1
    <3>1. \A d \in Logins : login[d].seen \in 0..L BY DEF BrokerInv, BrokerTypes, Login
    <3>. SUFFICES ASSUME NEW d \in Logins, login'[d].phase = "committing"
                  PROVE  login'[d].seen # L + 1
      OBVIOUS
    <3>2. d # c BY <1>5
    <3>3. login'[d].seen = login[d].seen BY <1>4, <3>2
    <3>4. login[d].seen \in 0..L BY <3>1
    <3>. HIDE DEF L
    <3>. QED BY <1>2, <3>3, <3>4
  <2>. QED BY <1>1, <1>3, <2>5, <2>6 DEF Newest
<1>10. OneSends'
  <2>1. ~Presents(c)' BY <1>5 DEF Presents
  <2>2. \A d \in Logins \ {c} : Presents(d)' <=> Presents(d) BY <1>4 DEF Presents
  <2>3. \A n : (Fresh(n)' <=> Fresh(n)) /\ (Consumed(n)' <=> Consumed(n))
    BY <1>1 DEF Fresh, Consumed
  <2>. QED BY <1>1, <1>4, <2>1, <2>2, <2>3, SendersRest
<1>. QED BY <1>8, <1>9, <1>10 DEF BrokerInv

\* Every step of the sessions keeps the invariant.
LEMMA BrokerStep == BrokerInv /\ [Broker!Next]_(Broker!vars) => BrokerInv'
<1>. SUFFICES ASSUME BrokerInv, [Broker!Next]_(Broker!vars) PROVE BrokerInv'
  OBVIOUS
<1>t. BrokerTypes BY DEF BrokerInv
<1>. USE SessionsAssumption DEF Broker!row, Broker!history
<1>a. Broker!Active \in 0..Len(session) /\ (Broker!Active # 0 => Usable(Broker!Active))
      /\ \A s \in DOMAIN session : Usable(s) /\ s = Len(session) => Broker!Active = s
  BY <1>t, ActiveIs DEF BrokerTypes
<1>n. Broker!NoLogin \in Login /\ Broker!NoLogin.phase = "idle"
  BY <1>t DEF Broker!NoLogin, Login, BrokerTypes
<1>f. \A n : (Fresh(n) \/ Consumed(n) \/ oauthState[n] = "expired")
      /\ (UNCHANGED oauthState => (Fresh(n)' <=> Fresh(n)) /\ (Consumed(n)' <=> Consumed(n)))
  <2>1. \A n \in DOMAIN oauthState : oauthState[n] \in {"issued", "consumed", "expired"}
    BY <1>t DEF BrokerTypes
  <2>. QED BY <2>1 DEF Fresh, Consumed
<1>l. \A c \in Logins : login[c] \in Login BY <1>t DEF BrokerTypes
\* A login that goes on to another phase with what it has, or ends.
<1>p. ASSUME NEW c \in Logins, NEW phase \in {"consuming", "exchanging", "identifying", "storing"}
      PROVE  /\ [login[c] EXCEPT !.phase = phase] \in Login
             /\ [login[c] EXCEPT !.phase = phase].phase = phase
             /\ [login[c] EXCEPT !.phase = phase].state = login[c].state
             /\ [login EXCEPT ![c].phase = phase] =
                   [login EXCEPT ![c] = [login[c] EXCEPT !.phase = phase]]
  BY <1>p, <1>l, <1>t DEF Login, BrokerTypes
<1>e. ASSUME NEW c \in Logins, login' = [login EXCEPT ![c] = Broker!NoLogin],
             account' \in Broker!AccountStatus,
             UNCHANGED <<session, oauthState, spent, revoking, user, revocations, twins, presented, overlapped>>
      PROVE  BrokerInv'
  <2>1. OneSends' BY <1>e, <1>n, LoginRests
  <2>. QED BY <1>e, <1>n, <1>t, <2>1, LoginMoves DEF BrokerTypes
<1>1. CASE UNCHANGED Broker!vars
  BY <1>1, <1>f, <1>t, AccountMoves DEF Broker!vars, BrokerTypes
<1>2. CASE Broker!Initiate
  <2>1. /\ oauthState' \in Seq({"issued", "consumed", "expired"})
        /\ Len(oauthState') = Len(oauthState) + 1 /\ Len(oauthState) \in Nat
    BY <1>2, <1>t DEF Broker!Initiate, BrokerTypes
  <2>2. account' \in Broker!AccountStatus BY <1>2 DEF Broker!Initiate, Broker!AccountStatus
  <2>3. \A n \in 1..MaxStates : (Fresh(n)' => Fresh(n)) /\ (Consumed(n) => Consumed(n)')
    <3>1. oauthState' = Append(oauthState, "issued") BY <1>2 DEF Broker!Initiate
    <3>2. \A n \in DOMAIN oauthState : n \in DOMAIN oauthState' /\ oauthState'[n] = oauthState[n]
      BY <3>1, <1>t DEF BrokerTypes
    <3>. QED BY <3>2 DEF Fresh, Consumed
  <2>. QED BY <1>2, <1>t, <2>1, <2>2, <2>3, AccountMoves DEF Broker!Initiate, BrokerTypes
<1>3. CASE Broker!RevokeSession
  <2>1. /\ session' = [s \in DOMAIN session |->
             IF s = Broker!Active THEN [session[s] EXCEPT !.revoked = TRUE] ELSE session[s]]
        /\ account' = "authentication_required" /\ revocations' = revocations + 1
        /\ revoking' = TRUE
        /\ UNCHANGED <<oauthState, spent, login, user, twins, presented, overlapped>>
    BY <1>3 DEF Broker!RevokeSession
  <2>2. \A s \in DOMAIN session : session[s] \in Broker!Session
    BY <1>t DEF BrokerTypes
  <2>3. \A s \in DOMAIN session : /\ session'[s] \in Broker!Session
                                  /\ session'[s].era = session[s].era
                                  /\ Usable(s)' => Usable(s) /\ s # Broker!Active
    BY <2>1, <2>2 DEF Broker!Session, Usable
  <2>4. session' \in Seq(Broker!Session) /\ Len(session') = Len(session)
    <3>1. DOMAIN session = 1..Len(session) /\ Len(session) \in Nat BY <1>t DEF BrokerTypes
    <3>2. DOMAIN session' = 1..Len(session) BY <2>1, <3>1
    <3>3. session' \in [1..Len(session) -> Broker!Session] BY <2>1, <2>3, <3>1
    <3>. QED BY <3>1, <3>3
  <2>5. \A s \in DOMAIN session : s = Len(session) => ~Usable(s)'
    BY <2>3, <1>a
  <2>6. account' \in Broker!AccountStatus /\ revoking' \in BOOLEAN
        /\ revocations' \in Nat
    BY <2>1, <1>t DEF Broker!AccountStatus, BrokerTypes
  <2>. QED BY <2>1, <2>3, <2>4, <2>5, <2>6, SessionMoves
<1>4. CASE Broker!MarkRevoked
  <2>1. account' \in Broker!AccountStatus BY <1>4, <1>t DEF Broker!MarkRevoked, Broker!AccountStatus, BrokerTypes
  <2>2. revoking' \in BOOLEAN /\ UNCHANGED <<session, oauthState, spent, login, user,
                                              revocations, twins, presented, overlapped>>
    BY <1>4 DEF Broker!MarkRevoked
  <2>3. Len(oauthState) \in Nat BY <1>t DEF BrokerTypes
  <2>. QED BY <1>f, <1>t, <2>1, <2>2, <2>3, AccountMoves DEF BrokerTypes
<1>5. ASSUME NEW n \in DOMAIN oauthState, Broker!StateExpires(n) PROVE BrokerInv'
  <2>1. oauthState' \in Seq({"issued", "consumed", "expired"}) /\ Len(oauthState') = Len(oauthState)
    BY <1>5, <1>t DEF Broker!StateExpires, BrokerTypes
  <2>2. \A m \in 1..MaxStates : (Fresh(m)' => Fresh(m)) /\ (Consumed(m) => Consumed(m)')
    <3>1. /\ oauthState[n] = "issued" /\ oauthState' = [oauthState EXCEPT ![n] = "expired"]
      BY <1>5 DEF Broker!StateExpires
    <3>2. DOMAIN oauthState' = DOMAIN oauthState /\ oauthState'[n] = "expired"
          /\ \A m \in DOMAIN oauthState \ {n} : oauthState'[m] = oauthState[m]
      BY <3>1
    <3>. QED BY <3>1, <3>2 DEF Fresh, Consumed
  <2>. QED BY <1>5, <1>t, <2>1, <2>2, AccountMoves DEF Broker!StateExpires, BrokerTypes
<1>6. ASSUME NEW c \in Logins, Broker!Callback(c) PROVE BrokerInv'
  <2>1. PICK n \in DOMAIN oauthState :
          /\ oauthState[n] = "issued"
          /\ login' = [login EXCEPT ![c] = [Broker!NoLogin EXCEPT !.phase = "consuming", !.state = n]]
          /\ overlapped' = IF \E o \in Logins : login[o].phase = "consuming" /\ login[o].state = n
                           THEN overlapped \cup {n} ELSE overlapped
    BY <1>6 DEF Broker!Callback
  <2>. DEFINE l == [phase |-> "consuming", state |-> n, previous |-> 0, seen |-> 0]
  <2>2. login' = [login EXCEPT ![c] = l]
    <3>1. login'[c] = l BY <2>1, <1>t DEF BrokerTypes, Broker!NoLogin
    <3>2. login' = [d \in Logins |-> IF d = c THEN login'[c] ELSE login[d]]
      BY <2>1, <1>t DEF BrokerTypes
    <3>3. login \in [Logins -> Login] BY <1>t DEF BrokerTypes
    <3>. HIDE DEF l
    <3>. QED BY <3>1, <3>2, <3>3
  <2>3. l \in Login /\ l.phase = "consuming" /\ l.state = n BY <1>t DEF Login, BrokerTypes
  <2>. HIDE DEF l
  <2>4. UNCHANGED <<account, session, oauthState, spent, revoking, user, revocations, twins,
                    presented>> /\ login[c] = Broker!NoLogin
    BY <1>6 DEF Broker!Callback
  <2>5. n \in 1..MaxStates /\ overlapped \subseteq overlapped' /\ overlapped' \subseteq 1..MaxStates
    BY <1>t, <2>1 DEF BrokerTypes
  <2>6. login'[c] = l /\ \A d \in Logins \ {c} : login'[d] = login[d]
    BY <2>2, <1>t DEF BrokerTypes
  <2>7. \A d \in Logins \ {c} : Presents(d)' <=> Presents(d) BY <2>6 DEF Presents
  <2>8. ASSUME NEW m \in (1..MaxStates) \ overlapped' PROVE Sent(m)'
    <3>1. Sent(m) BY <2>5, <2>8 DEF BrokerInv, OneSends
    <3>2. presented'[m] <= 1 /\ (Fresh(m)' => presented'[m] = 0)
      BY <3>1, <1>f, <2>4 DEF Sent
    <3>3. \A d \in Logins \ {c} : Presents(d)' /\ login'[d].state = m =>
             Presents(d) /\ login[d].state = m
      BY <2>6, <2>7
    <3>4. m = n => /\ presented'[m] = 0
                   /\ \A d \in Logins \ {c} : ~(Presents(d) /\ login[d].state = m)
      <4>. SUFFICES ASSUME m = n
                    PROVE  /\ presented'[m] = 0
                           /\ \A d \in Logins \ {c} : ~(Presents(d) /\ login[d].state = m)
        OBVIOUS
      <4>1. Fresh(n) /\ ~Consumed(n) BY <2>1 DEF Fresh, Consumed
      <4>2. \A d \in Logins : ~(login[d].phase = "consuming" /\ login[d].state = n)
        BY <2>1, <2>8
      <4>. QED BY <3>1, <2>4, <4>1, <4>2 DEF Sent, Presents
    <3>5. m # n => ~(Presents(c)' /\ login'[c].state = m) BY <2>3, <2>6
    <3>6. login'[c].phase # "exchanging" BY <2>3, <2>6
    <3>7. ASSUME NEW d \in Logins, Presents(d)', login'[d].state = m
          PROVE  /\ presented'[m] = 0
                 /\ login'[d].phase = "exchanging" => Consumed(m)'
                 /\ \A e \in Logins : Presents(e)' /\ login'[e].state = m => e = d
      <4>1. CASE m = n
        BY <3>3, <3>4, <3>6, <3>7, <4>1
      <4>2. CASE m # n
        <5>1. d # c /\ Presents(d) /\ login[d].state = m BY <3>3, <3>5, <3>7, <4>2
        <5>2. login'[d].phase = login[d].phase BY <2>6, <5>1
        <5>3. \A e \in Logins : Presents(e)' /\ login'[e].state = m =>
                Presents(e) /\ login[e].state = m
          BY <3>3, <3>5, <4>2
        <5>4. presented[m] = 0 /\ (login[d].phase = "exchanging" => Consumed(m))
              /\ \A e \in Logins : Presents(e) /\ login[e].state = m => e = d
          BY <3>1, <5>1 DEF Sent
        <5>. QED BY <1>f, <2>4, <5>2, <5>3, <5>4
      <4>. QED BY <4>1, <4>2
    <3>. QED BY <3>2, <3>7 DEF Sent
  <2>9. OneSends' BY <2>8 DEF OneSends
  <2>. QED BY <1>t, <2>2, <2>3, <2>4, <2>5, <2>9, LoginMoves DEF BrokerTypes
<1>7. ASSUME NEW c \in Logins, Broker!ConsumeState(c) PROVE BrokerInv'
  <2>1. oauthState' \in Seq({"issued", "consumed", "expired"}) /\ Len(oauthState') = Len(oauthState)
    <3>1. oauthState' = [oauthState EXCEPT ![login[c].state] = "consumed"]
      BY <1>7 DEF Broker!ConsumeState
    <3>2. /\ oauthState \in [1..Len(oauthState) -> {"issued", "consumed", "expired"}]
          /\ Len(oauthState) \in Nat
      BY <1>t DEF BrokerTypes
    <3>3. oauthState' \in [1..Len(oauthState) -> {"issued", "consumed", "expired"}]
      BY <3>1, <3>2
    <3>. QED BY <3>2, <3>3
  <2>. DEFINE l == [login[c] EXCEPT !.phase = "exchanging"]
  <2>2. login' = [login EXCEPT ![c] = l] /\ l \in Login /\ l.phase = "exchanging"
    BY <1>7, <1>p DEF Broker!ConsumeState
  <2>. HIDE DEF l
  <2>3. /\ oauthState' = [oauthState EXCEPT ![login[c].state] = "consumed"]
        /\ login[c].phase = "consuming" /\ l.state = login[c].state
        /\ UNCHANGED <<account, session, spent, revoking, user, revocations, twins,
                       presented, overlapped>>
    BY <1>7, <1>p DEF Broker!ConsumeState, l
  <2>4. OneSends'
    <3>1. login'[c] = l /\ \A d \in Logins \ {c} : login'[d] = login[d]
      BY <2>2, <1>t DEF BrokerTypes
    <3>2. \A n : (Fresh(n)' => Fresh(n)) /\ (Consumed(n) => Consumed(n)')
      <4>1. DOMAIN oauthState' = DOMAIN oauthState
            /\ \A n \in DOMAIN oauthState : oauthState'[n] = IF n = login[c].state THEN "consumed"
                                                            ELSE oauthState[n]
        BY <2>3
      <4>. QED BY <4>1 DEF Fresh, Consumed
    <3>3. login[c].state # 0 => Consumed(login[c].state)'
      <4>1. login[c].state # 0 => login[c].state \in DOMAIN oauthState
        BY <1>l, <1>t DEF Login, BrokerTypes
      <4>. QED BY <2>3, <3>1, <4>1 DEF Consumed
    <3>4. Presents(c)' => Presents(c) /\ login[c].state # 0 BY <2>3, <3>1 DEF Presents
    <3>5. \A d \in Logins \ {c} : Presents(d)' <=> Presents(d) BY <3>1 DEF Presents
    <3>. QED BY <2>3, <3>1, <3>2, <3>3, <3>4, <3>5, SendersRest
  <2>. QED BY <1>t, <2>1, <2>2, <2>3, <2>4, LoginMoves DEF BrokerTypes
<1>8. ASSUME NEW c \in Logins, Broker!ReadCredential(c) PROVE BrokerInv'
  <2>. DEFINE l == [login[c] EXCEPT !.phase = "exchanging"]
  <2>2. login' = [login EXCEPT ![c] = l] /\ l \in Login /\ l.phase = "exchanging"
    BY <1>8, <1>p DEF Broker!ReadCredential
  <2>3. l.state = 0 BY <1>8, <1>p DEF Broker!ReadCredential, Broker!NoLogin
  <2>. HIDE DEF l
  <2>4. OneSends' BY <1>8, <2>2, <2>3, LoginRests DEF Broker!ReadCredential
  <2>. QED BY <1>8, <1>t, <2>2, <2>4, LoginMoves DEF Broker!ReadCredential, BrokerTypes
<1>9. ASSUME NEW c \in Logins, Broker!Exchange(c) PROVE BrokerInv'
  <2>. DEFINE k == login[c].state
  <2>1. /\ UNCHANGED <<account, session, oauthState, revoking, user, revocations, twins, overlapped>>
        /\ login[c].phase = "exchanging"
        /\ presented' = [m \in DOMAIN presented |->
                           IF m = k THEN presented[m] + 1 ELSE presented[m]]
    BY <1>9 DEF Broker!Exchange
  <2>2. PICK l \in Login : /\ l.phase \notin {"consuming", "exchanging", "committing"}
                           /\ login' = [login EXCEPT ![c] = l]
                           /\ spent \subseteq spent' /\ spent' \subseteq DOMAIN oauthState
    <3>1. CASE login' = [login EXCEPT ![c] = Broker!NoLogin] /\ UNCHANGED spent
      BY <1>n, <1>t, <3>1 DEF BrokerTypes
    <3>2. CASE /\ spent' = spent \cup ({k} \ {0})
               /\ login' = [login EXCEPT ![c] = [Broker!NoLogin EXCEPT !.phase = "identifying"]]
      <4>. DEFINE l == [Broker!NoLogin EXCEPT !.phase = "identifying"]
      <4>1. login' = [login EXCEPT ![c] = l] /\ l \in Login /\ l.phase = "identifying"
        BY <3>2, <1>n, <1>t DEF Login, BrokerTypes, Broker!NoLogin
      <4>. HIDE DEF l
      <4>2. spent' \subseteq DOMAIN oauthState
        BY <1>t, <1>l, <3>2 DEF BrokerTypes, Login
      <4>. QED BY <3>2, <4>1, <4>2
    <3>. QED BY <1>9, <3>1, <3>2 DEF Broker!Exchange
  <2>3. presented' \in [1..MaxStates -> Nat] /\ k \in Nat
    BY <1>t, <1>l, <2>1 DEF BrokerTypes, Login
  <2>4. login'[c] = l /\ \A d \in Logins \ {c} : login'[d] = login[d]
    BY <2>2, <1>t DEF BrokerTypes
  <2>5. ~Presents(c)' /\ \A d \in Logins \ {c} : Presents(d)' <=> Presents(d)
    BY <2>2, <2>4 DEF Presents
  <2>6. ASSUME NEW m \in (1..MaxStates) \ overlapped' PROVE Sent(m)'
    <3>1. Sent(m) BY <2>1, <2>6 DEF BrokerInv, OneSends
    <3>2. \A d \in Logins : Presents(d)' /\ login'[d].state = m =>
             d # c /\ Presents(d) /\ login[d].state = m /\ login'[d].phase = login[d].phase
      BY <2>4, <2>5
    <3>3. CASE m = k
      <4>1. Presents(c) BY <2>1, <3>3, SessionsAssumption DEF Presents
      <4>2. presented[m] = 0 /\ Consumed(m) BY <2>1, <3>1, <3>3, <4>1 DEF Sent
      <4>3. presented'[m] = 1 BY <1>t, <2>1, <3>3, <4>2 DEF BrokerTypes
      <4>4. ~Fresh(m) BY <4>2 DEF Fresh, Consumed
      <4>5. \A d \in Logins : ~(Presents(d)' /\ login'[d].state = m)
        BY <3>1, <3>2, <3>3, <4>1 DEF Sent
      <4>. QED BY <1>f, <2>1, <4>3, <4>4, <4>5 DEF Sent
    <3>4. CASE m # k
      <4>1. presented'[m] = presented[m] BY <1>t, <2>1, <3>4 DEF BrokerTypes
      <4>2. (Fresh(m)' <=> Fresh(m)) /\ (Consumed(m)' <=> Consumed(m)) BY <1>f, <2>1
      <4>3. ASSUME NEW d \in Logins, Presents(d)', login'[d].state = m
            PROVE  /\ presented'[m] = 0
                   /\ login'[d].phase = "exchanging" => Consumed(m)'
                   /\ \A e \in Logins : Presents(e)' /\ login'[e].state = m => e = d
        BY <3>1, <3>2, <4>1, <4>2, <4>3 DEF Sent
      <4>4. presented'[m] <= 1 /\ (Fresh(m)' => presented'[m] = 0)
        BY <3>1, <4>1, <4>2 DEF Sent
      <4>. QED BY <4>3, <4>4 DEF Sent
    <3>. QED BY <3>3, <3>4
  <2>7. OneSends' BY <2>6 DEF OneSends
  <2>8. oauthState' \in Seq({"issued", "consumed", "expired"}) /\ Len(oauthState') = Len(oauthState)
        /\ overlapped' \subseteq 1..MaxStates /\ account' \in Broker!AccountStatus
    BY <1>t, <2>1 DEF BrokerTypes
  <2>. HIDE DEF k
  <2>. QED BY <2>1, <2>2, <2>3, <2>7, <2>8, LoginMoves
<1>10. ASSUME NEW c \in Logins, Broker!Identify(c) PROVE BrokerInv'
  <2>1. UNCHANGED <<session, oauthState, spent, revoking, user, revocations, twins, presented, overlapped>>
    BY <1>10 DEF Broker!Identify
  <2>2. CASE login' = [login EXCEPT ![c].phase = "storing"] /\ UNCHANGED account
    <3>. DEFINE l == [login[c] EXCEPT !.phase = "storing"]
    <3>1. login' = [login EXCEPT ![c] = l] /\ l \in Login /\ l.phase = "storing"
      BY <2>2, <1>p
    <3>. HIDE DEF l
    <3>2. OneSends' BY <2>1, <3>1, LoginRests
    <3>. QED BY <1>t, <2>1, <2>2, <3>1, <3>2, LoginMoves DEF BrokerTypes
  <2>3. CASE /\ login' = [login EXCEPT ![c] = Broker!NoLogin]
             /\ account' \in {account, "authentication_required"}
    BY <1>e, <1>t, <2>1, <2>3 DEF BrokerTypes, Broker!AccountStatus
  <2>. QED BY <1>10, <2>2, <2>3 DEF Broker!Identify
<1>11. ASSUME NEW c \in Logins, Broker!LoadPrevious(c) PROVE BrokerInv'
  <2>. DEFINE l == [phase |-> "committing", state |-> login[c].state,
                    previous |-> Broker!Active, seen |-> Len(session)]
  <2>1. /\ login' = [login EXCEPT ![c].phase = "committing", ![c].previous = Broker!Active,
                                  ![c].seen = Len(session)]
        /\ login[c].phase = "storing"
        /\ UNCHANGED <<account, session, oauthState, spent, revoking, user, revocations, twins, presented, overlapped>>
    BY <1>11 DEF Broker!LoadPrevious
  <2>2. login' = [login EXCEPT ![c] = l]
    <3>1. login'[c] = l BY <2>1, <1>l, <1>t DEF Login, BrokerTypes
    <3>2. login' = [d \in Logins |-> IF d = c THEN login'[c] ELSE login[d]]
      BY <2>1, <1>t DEF BrokerTypes
    <3>3. login \in [Logins -> Login] BY <1>t DEF BrokerTypes
    <3>. HIDE DEF l
    <3>. QED BY <3>1, <3>2, <3>3
  <2>3. l \in Login /\ l.phase = "committing" /\ l.state = login[c].state /\ l.previous = Broker!Active
    BY <1>l, <1>a, <1>t DEF Login, BrokerTypes
  <2>. HIDE DEF l
  <2>4. OneSends' BY <2>1, <2>2, <2>3, LoginRests
  <2>5. session # <<>> => Len(session) \in DOMAIN session BY <1>t DEF BrokerTypes
  <2>6. session # <<>> /\ Usable(Len(session)) => l.previous = Len(session)
    BY <2>3, <2>5, <1>a
  <2>. QED BY ZenonT(30), <1>t, <2>1, <2>2, <2>3, <2>4, <2>6, LoginMoves DEF BrokerTypes
<1>12. ASSUME NEW c \in Logins, Broker!StoreConflict(c) PROVE BrokerInv'
  BY <1>12, <1>e, <1>t DEF Broker!StoreConflict, BrokerTypes
<1>13. ASSUME NEW c \in Logins, Broker!Confirm(c) PROVE BrokerInv'
  BY <1>13, <1>e, <1>t DEF Broker!Confirm, BrokerTypes, Broker!AccountStatus
<1>14. ASSUME NEW c \in Logins, Broker!LoginDies(c) PROVE BrokerInv'
  BY <1>14, <1>e, <1>t DEF Broker!LoginDies, BrokerTypes
<1>15. ASSUME NEW s \in DOMAIN session, Broker!SessionExpires(s) PROVE BrokerInv'
  <2>1. /\ session' = [session EXCEPT ![s].expired = TRUE]
        /\ UNCHANGED <<account, oauthState, spent, login, revoking, user, revocations, twins, presented, overlapped>>
    BY <1>15 DEF Broker!SessionExpires
  <2>2. \A o \in DOMAIN session : session[o] \in Broker!Session
    BY <1>t DEF BrokerTypes
  <2>3. session' \in Seq(Broker!Session) /\ Len(session') = Len(session)
    <3>1. [session[s] EXCEPT !.expired = TRUE] \in Broker!Session
      BY <2>2 DEF Broker!Session
    <3>2. session' = [session EXCEPT ![s] = [session[s] EXCEPT !.expired = TRUE]] BY <2>1
    <3>. QED BY <1>t, <3>1, <3>2 DEF BrokerTypes
  <2>4. \A o \in DOMAIN session : /\ Usable(o)' => Usable(o)
                                  /\ session'[o].era = session[o].era
    BY <2>1, <2>2 DEF Usable, Broker!Session
  <2>. QED BY <1>t, <2>1, <2>3, <2>4, SessionMoves DEF BrokerTypes
<1>16. ASSUME NEW u \in Users, Broker!Acquire(u) PROVE BrokerInv'
  <2>1. user' \in [Users -> 0..Len(session)] BY <1>16, <1>a, <1>t DEF Broker!Acquire, BrokerTypes
  <2>. QED BY <1>16, <1>f, <1>t, <2>1, AccountMoves DEF Broker!Acquire, BrokerTypes
<1>17. ASSUME NEW u \in Users, Broker!OperationEnds(u) PROVE BrokerInv'
  <2>1. user' \in [Users -> 0..Len(session)] BY <1>17, <1>t DEF Broker!OperationEnds, BrokerTypes
  <2>2. account' \in Broker!AccountStatus
    BY <1>17, <1>t DEF Broker!OperationEnds, Broker!AccountStatus, BrokerTypes
  <2>. QED BY <1>17, <1>f, <1>t, <2>1, <2>2, AccountMoves DEF Broker!OperationEnds, BrokerTypes
<1>. QED BY <1>1, <1>2, <1>3, <1>4, <1>5, <1>6, <1>7, <1>8, <1>9, <1>10, <1>11, <1>12, <1>13,
         <1>14, <1>15, <1>16, <1>17, StoreStep DEF Broker!Next

\* Sessions: a revocation holds, and a login gives one session.
THEOREM RevokedForGoodHolds == Spec => []RevokedForGood
<1>1. BrokerInv => RevokedForGood
  <2>. SUFFICES ASSUME BrokerInv PROVE Broker!RevokedForGood BY DEF RevokedForGood
  <2>1. twins = 0 => \A s \in Broker!Unrevoked :
                        session[s].expired \/ session[s].era = revocations
    BY DEF BrokerInv, Newest, Broker!Unrevoked, Usable
  <2>2. \A n \in (1..MaxStates) \ overlapped : presented[n] <= 1
    BY DEF BrokerInv, OneSends, Sent
  <2>. QED BY <2>1, <2>2 DEF Broker!RevokedForGood
<1>. QED BY <1>1, BrokerSpec, BrokerInit, BrokerStep, PTL DEF Broker!Spec

\* Sessions: the account, its sessions and the states have their types.
LEMMA BrokerTypeCorrect == Spec => []Broker!TypeOK
<1>1. BrokerInv => Broker!TypeOK
  BY SessionsAssumption DEF BrokerInv, BrokerTypes, Login, Broker!TypeOK
<1>. QED BY <1>1, BrokerSpec, BrokerInit, BrokerStep, PTL DEF Broker!Spec
=============================================================================
