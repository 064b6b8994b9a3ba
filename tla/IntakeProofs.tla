---------------------------- MODULE IntakeProofs ----------------------------
(* The proofs of what the services promise of an item on its way in: research,
   review tasks, market comparables, its images and its draft.  Each service
   moves by itself (MCServices), so each has an invariant of its own, of which
   a behaviour of the services is a behaviour (XSpec), that holds at first
   (XInit) and that every step keeps (XStep); the property and the types of the
   service follow from it. *)
EXTENDS MCServices, Sequences, Integers, FiniteSetTheorems, TLAPS

-----------------------------------------------------------------------------
(* Research *)

\* The calls that loaded the record to add a source to it.
Sourcing == {c \in Researchers : researcher[c].phase = "sourcing"}

\* The record's rows have their types, and a caller that passed the limit's
\* count still has its place under the limit.
StudyTypes ==
    /\ research \in Study!Open \cup Study!Closed
    /\ sources \in Nat
    /\ identified \in 0..MaxIdentified /\ backed \in BOOLEAN /\ reworked \in Nat
    /\ researcher \in [Researchers -> [phase : {"idle", "sourcing", "closing"},
                                       seen : Study!Open, sources : Nat]]
    /\ sources + Cardinality(Sourcing) <= MaxResearchSources + Cardinality(Researchers)

\* While the record is open, each identification it already yielded is
\* accounted for by a call that reopened it; a count of sources only grows.
StudyInv ==
    /\ StudyTypes
    /\ research \in Study!Open => identified <= reworked
    /\ identified <= 1 + reworked
    /\ backed
    /\ \A c \in Researchers : researcher[c].sources <= sources

\* A behaviour of the services is a behaviour of the research record.
LEMMA StudySpec == Spec => Study!Spec
<1>1. Init => Study!Init BY DEF Init
<1>2. [Next]_vars => [Study!Next]_(Study!vars)
  BY DEF Next, vars, MediaMoves, DomainMoves, StudyMoves, QueueMoves,
         MarketMoves, SchedulerMoves, BrokerMoves, BuyerMoves, ThreadMoves,
         UpkeepMoves, DispatchMoves, ArithmeticMoves, RemoteMoves, ApiMoves,
         studyVars, Study!vars
<1>. QED BY <1>1, <1>2, PTL DEF Spec, Study!Spec

\* Before the first call there is one open record and no source.
LEMMA StudyInit == Study!Init => StudyInv
<1>. SUFFICES ASSUME Study!Init PROVE StudyInv OBVIOUS
<1>1. Sourcing = {} BY DEF Sourcing, Study!Init, Study!NoCall
<1>2. Cardinality(Sourcing) = 0 BY <1>1, FS_EmptySet
<1>3. Cardinality(Researchers) \in Nat BY ResearchAssumption, FS_CardinalityType
<1>. QED BY <1>2, <1>3, ResearchAssumption DEF StudyInv, StudyTypes, Study!Init, Study!NoCall, Study!Open

\* Every step of the research service keeps the invariant.
LEMMA StudyStep == StudyInv /\ [Study!Next]_(Study!vars) => StudyInv'
<1>. SUFFICES ASSUME StudyInv, [Study!Next]_(Study!vars) PROVE StudyInv'
  OBVIOUS
<1>. USE ResearchAssumption
<1>f. /\ IsFiniteSet(Sourcing) /\ Cardinality(Sourcing) \in Nat
      /\ Cardinality(Researchers) \in Nat
  BY FS_Subset, FS_CardinalityType DEF Sourcing
<1>1. CASE UNCHANGED Study!vars
  BY <1>1 DEF Study!vars, StudyInv, StudyTypes, Sourcing
<1>2. ASSUME NEW c \in Researchers, Study!LoadResearch(c) PROVE StudyInv'
  <2>1. CASE researcher'[c].phase = "sourcing"
    <3>1. Sourcing' = Sourcing \cup {c} /\ c \notin Sourcing
      BY <1>2, <2>1 DEF Sourcing, Study!LoadResearch, StudyInv, StudyTypes
    <3>2. Cardinality(Sourcing') = Cardinality(Sourcing) + 1
      BY <3>1, <1>f, FS_AddElement
    <3>3. Sourcing' \subseteq Researchers BY DEF Sourcing
    <3>4. Cardinality(Sourcing') <= Cardinality(Researchers)
      BY <3>3, FS_Subset
    <3>. QED BY <1>2, <2>1, <3>2, <3>4, <1>f
         DEF Study!LoadResearch, StudyInv, StudyTypes, Study!Open, Study!Closed
  <2>2. CASE researcher'[c].phase = "closing"
    <3>1. Sourcing' = Sourcing
      BY <1>2, <2>2 DEF Sourcing, Study!LoadResearch, StudyInv, StudyTypes
    <3>. QED BY <1>2, <2>2, <3>1, <1>f
         DEF Study!LoadResearch, StudyInv, StudyTypes, Study!Open, Study!Closed
  <2>. QED BY <1>2, <2>1, <2>2 DEF Study!LoadResearch, StudyInv, StudyTypes
<1>3. ASSUME NEW c \in Researchers, Study!AddResearchSource(c) PROVE StudyInv'
  <2>1. Sourcing' = Sourcing \ {c} /\ c \in Sourcing
    BY <1>3 DEF Sourcing, Study!AddResearchSource, Study!NoCall, StudyInv, StudyTypes
  <2>2. Cardinality(Sourcing') = Cardinality(Sourcing) - 1
    BY <2>1, <1>f, FS_RemoveElement
  <2>. QED BY <1>3, <2>2, <1>f
       DEF Study!AddResearchSource, Study!Write, StudyInv, StudyTypes,
           Study!Open, Study!Closed, Study!NoCall
<1>4. ASSUME NEW c \in Researchers, Study!CompleteResearch(c) PROVE StudyInv'
  <2>1. Sourcing' = Sourcing
    BY <1>4 DEF Sourcing, Study!CompleteResearch, Study!NoCall, StudyInv, StudyTypes
  <2>2. researcher[c].sources <= sources /\ researcher[c].sources \in Nat
    BY DEF StudyInv, StudyTypes
  <2>3. /\ sources' = sources
        /\ researcher' = [researcher EXCEPT ![c] = Study!NoCall]
    BY <1>4 DEF Study!CompleteResearch
  <2>4. \A x \in Researchers : researcher'[x].sources <= sources
    BY <2>3 DEF Study!NoCall, StudyInv, StudyTypes
  <2>5. researcher' \in [Researchers -> [phase : {"idle", "sourcing", "closing"},
                                         seen : Study!Open, sources : Nat]]
    BY <2>3 DEF Study!NoCall, Study!Open, StudyInv, StudyTypes
  <2>6. PICK status \in Study!Closed : Study!Write(status)
    BY <1>4 DEF Study!CompleteResearch, Study!Closed
  <2>7. /\ research' \in Study!Open \cup Study!Closed /\ research' \notin Study!Open
        /\ reworked' \in Nat
        /\ research \in Study!Open => reworked' = reworked
        /\ research \notin Study!Open => reworked' = reworked + 1
    BY <2>6 DEF Study!Write, Study!Open, Study!Closed, StudyInv, StudyTypes
  <2>8. \/ /\ identified < MaxIdentified
           /\ identified' = identified + 1 /\ (backed' <=> backed /\ sources > 0)
           /\ researcher[c].sources > 0
        \/ identified' = identified /\ (backed' <=> backed)
    BY <1>4 DEF Study!CompleteResearch
  <2>9. backed' \in BOOLEAN BY <1>4 DEF Study!CompleteResearch, StudyInv, StudyTypes
  <2>10. /\ identified' \in 0..MaxIdentified /\ backed'
         /\ identified' <= 1 + reworked'
    BY <2>2, <2>7, <2>8 DEF StudyInv, StudyTypes
  <2>11. StudyTypes'
    BY <2>1, <2>3, <2>5, <2>7, <2>9, <2>10, <1>f DEF StudyInv, StudyTypes
  <2>. QED BY <2>3, <2>4, <2>7, <2>10, <2>11 DEF StudyInv
<1>. QED BY <1>1, <1>2, <1>3, <1>4 DEF Study!Next

\* Research: one identification per record and per call that wrote it after
\* it was closed, each of them backed by a source.
THEOREM IdentifiedOnceHolds == Spec => []IdentifiedOnce
<1>1. StudyInv => IdentifiedOnce
  BY DEF StudyInv, IdentifiedOnce, Study!IdentifiedOnce
<1>. QED BY <1>1, StudySpec, StudyInit, StudyStep, PTL DEF Study!Spec

\* Research: the record, its counts and what the calls hold have their types.
LEMMA StudyTypeCorrect == Spec => []Study!TypeOK
<1>1. StudyInv => Study!TypeOK
  <2>. SUFFICES ASSUME StudyInv PROVE Study!TypeOK OBVIOUS
  <2>1. /\ Cardinality(Sourcing) \in Nat /\ Cardinality(Researchers) \in Nat
    BY ResearchAssumption, FS_Subset, FS_CardinalityType DEF Sourcing
  <2>2. sources <= MaxResearchSources + Cardinality(Researchers)
    BY <2>1, ResearchAssumption DEF StudyInv, StudyTypes
  <2>3. sources \in 0..(MaxResearchSources + Cardinality(Researchers))
    BY <2>1, <2>2, ResearchAssumption DEF StudyInv, StudyTypes
  <2>4. Study!Cardinality(Researchers) = Cardinality(Researchers)
    BY DEF Study!Cardinality, Cardinality
  <2>. QED BY <2>3, <2>4 DEF StudyInv, StudyTypes, Study!TypeOK
<1>. QED BY <1>1, StudySpec, StudyInit, StudyStep, PTL DEF Study!Spec

-----------------------------------------------------------------------------
(* Review tasks *)

\* The rows of the tasks, and what everybody holds of them.
QueueTypes ==
    /\ task \in Seq(Queue!Task)
    /\ producer \in [Producers -> {"idle", "first", "another"}]
    /\ desk \in [TaskReviewers -> [on : 0..Len(task), version : Nat]]
    /\ sweep \subseteq (1..Len(task)) \X Nat
    /\ batch \in [left : SUBSET (1..Len(task)), failed : BOOLEAN]

\* A second task is opened only over a first one that is closed, for good.
FirstIsClosed == Len(task) > 0 /\ task[1].status \in Queue!Closed

QueueInv ==
    /\ QueueTypes
    /\ Len(task) > 1 => FirstIsClosed
    /\ \A p \in Producers : producer[p] = "another" => FirstIsClosed
    /\ \A r \in TaskReviewers : desk[r] # Queue!NoDesk => desk[r].on > 0

\* A behaviour of the services is a behaviour of the review tasks.
LEMMA QueueSpec == Spec => Queue!Spec
<1>1. Init => Queue!Init BY DEF Init
<1>2. [Next]_vars => [Queue!Next]_(Queue!vars)
  BY DEF Next, vars, MediaMoves, DomainMoves, StudyMoves, QueueMoves,
         MarketMoves, SchedulerMoves, BrokerMoves, BuyerMoves, ThreadMoves,
         UpkeepMoves, DispatchMoves, ArithmeticMoves, RemoteMoves, ApiMoves,
         queueVars, Queue!vars, Queue!history
<1>. QED BY <1>1, <1>2, PTL DEF Spec, Queue!Spec

\* Before the first task there is none, and nobody holds one.
LEMMA QueueInit == Queue!Init => QueueInv
  BY DEF Queue!Init, QueueInv, QueueTypes, FirstIsClosed, Queue!NoDesk, Queue!NoBatch

\* Rows that are rewritten keep their number, and a closed first one is closed.
LEMMA QueueRest ==
  ASSUME QueueInv,
         task' \in Seq(Queue!Task), Len(task') = Len(task),
         FirstIsClosed => task'[1].status \in Queue!Closed,
         UNCHANGED producer,
         desk' \in [TaskReviewers -> [on : 0..Len(task), version : Nat]],
         \A r \in TaskReviewers : desk'[r] # Queue!NoDesk => desk'[r].on > 0,
         sweep' \subseteq (1..Len(task)) \X Nat,
         batch' \in [left : SUBSET (1..Len(task)), failed : BOOLEAN]
  PROVE  QueueInv'
<1>1. QueueTypes' BY DEF QueueInv, QueueTypes
<1>2. FirstIsClosed => FirstIsClosed' BY DEF FirstIsClosed
<1>3. Len(task') > 1 => FirstIsClosed' BY <1>2 DEF QueueInv
<1>4. \A p \in Producers : producer'[p] = "another" => FirstIsClosed' BY <1>2 DEF QueueInv
<1>5. \A r \in TaskReviewers : desk'[r] # Queue!NoDesk' => desk'[r].on > 0 BY DEF Queue!NoDesk
<1>. QED BY <1>1, <1>3, <1>4, <1>5 DEF QueueInv

\* One row rewritten leaves the rows rows.
LEMMA RowWritten ==
  ASSUME QueueInv, NEW t \in 1..Len(task), NEW row \in Queue!Task,
         task' = [task EXCEPT ![t] = row],
         task[t].status \in Queue!Closed => row.status \in Queue!Closed
  PROVE  /\ task' \in Seq(Queue!Task) /\ Len(task') = Len(task)
         /\ FirstIsClosed => task'[1].status \in Queue!Closed
<1>1. task \in Seq(Queue!Task) /\ Len(task) \in Nat BY DEF QueueInv, QueueTypes
<1>. QED BY <1>1 DEF FirstIsClosed

\* Opening a task: the first, or another one over a first that is closed.
LEMMA OpeningStep ==
  ASSUME QueueInv, NEW p \in Producers, Queue!Look(p) \/ Queue!Insert(p)
  PROVE  QueueInv'
<1>t. /\ task \in Seq(Queue!Task) /\ Len(task) \in Nat
      /\ producer \in [Producers -> {"idle", "first", "another"}]
  BY DEF QueueInv, QueueTypes
<1>1. CASE Queue!Look(p)
  <2>1. UNCHANGED <<task, desk, sweep, batch>> BY <1>1 DEF Queue!Look
  <2>2. /\ producer' \in [Producers -> {"idle", "first", "another"}]
        /\ \A q \in Producers : producer'[q] = "another" => producer[q] = "another" \/ FirstIsClosed
    BY <1>t, <1>1 DEF Queue!Look, Queue!OpensAnother, FirstIsClosed
  <2>3. QueueTypes' BY <2>1, <2>2 DEF QueueInv, QueueTypes
  <2>4. FirstIsClosed' <=> FirstIsClosed BY <2>1 DEF FirstIsClosed
  <2>. QED BY <2>1, <2>2, <2>3, <2>4 DEF QueueInv, Queue!NoDesk
<1>2. CASE Queue!Insert(p)
  <2>1. /\ UNCHANGED <<desk, sweep, batch>> /\ producer[p] # "idle"
        /\ producer' = [producer EXCEPT ![p] = "idle"]
    BY <1>2 DEF Queue!Insert
  <2>2. /\ producer' \in [Producers -> {"idle", "first", "another"}]
        /\ \A q \in Producers : producer'[q] = "another" => producer[q] = "another"
    BY <1>t, <2>1
  <2>3. CASE task' = task
    <3>1. QueueTypes' BY <2>1, <2>2, <2>3 DEF QueueInv, QueueTypes
    <3>2. FirstIsClosed' <=> FirstIsClosed BY <2>3 DEF FirstIsClosed
    <3>. QED BY <2>1, <2>2, <2>3, <3>1, <3>2 DEF QueueInv, Queue!NoDesk
  <2>4. CASE /\ task' = Append(task, [status |-> "open", version |-> 1])
             /\ task = <<>> \/ producer[p] = "another"
    <3>1. [status |-> "open", version |-> 1] \in Queue!Task
      BY DEF Queue!Task, Queue!Undone, Queue!Closed
    <3>2. /\ task' \in Seq(Queue!Task) /\ Len(task') = Len(task) + 1
          /\ Len(task) > 0 => task'[1] = task[1]
      BY <1>t, <2>4, <3>1
    <3>3. 0..Len(task) \subseteq 0..Len(task') /\ 1..Len(task) \subseteq 1..Len(task')
      BY <1>t, <3>2
    <3>4. QueueTypes'
      <4>1. desk' \in [TaskReviewers -> [on : 0..Len(task'), version : Nat]]
        BY <2>1, <3>3 DEF QueueInv, QueueTypes
      <4>2. sweep' \subseteq (1..Len(task')) \X Nat
        BY <2>1, <3>3 DEF QueueInv, QueueTypes
      <4>3. batch' \in [left : SUBSET (1..Len(task')), failed : BOOLEAN]
        BY <2>1, <3>3 DEF QueueInv, QueueTypes
      <4>. QED BY <2>2, <3>2, <4>1, <4>2, <4>3 DEF QueueTypes
    <3>5. FirstIsClosed => FirstIsClosed' BY <1>t, <3>2 DEF FirstIsClosed
    <3>6. Len(task') > 1 => FirstIsClosed'
      <4>1. task = <<>> => Len(task') = 1 BY <3>2
      <4>2. producer[p] = "another" => FirstIsClosed BY DEF QueueInv
      <4>. QED BY <2>4, <3>5, <4>1, <4>2
    <3>. QED BY <2>1, <2>2, <3>4, <3>5, <3>6 DEF QueueInv, Queue!NoDesk
  <2>5. producer[p] \in {"first", "another"} BY <1>t, <2>1
  <2>. QED BY <1>2, <2>3, <2>4, <2>5 DEF Queue!Insert
<1>. QED BY <1>1, <1>2

\* A reviewer loads a task, or writes the decision under the version it loaded.
LEMMA ReviewingStep ==
  ASSUME QueueInv, NEW r \in TaskReviewers, Queue!LoadToClose(r) \/ Queue!StoreClosed(r)
  PROVE  QueueInv'
<1>t. /\ task \in Seq(Queue!Task) /\ Len(task) \in Nat /\ DOMAIN task = 1..Len(task)
      /\ desk \in [TaskReviewers -> [on : 0..Len(task), version : Nat]]
      /\ sweep \subseteq (1..Len(task)) \X Nat
      /\ batch \in [left : SUBSET (1..Len(task)), failed : BOOLEAN]
  BY DEF QueueInv, QueueTypes
<1>1. CASE Queue!LoadToClose(r)
  <2>1. UNCHANGED <<task, producer, sweep, batch>> BY <1>1 DEF Queue!LoadToClose
  <2>2. PICK t \in 1..Len(task) : desk' = [desk EXCEPT ![r] = [on |-> t, version |-> task[t].version]]
    BY <1>t, <1>1 DEF Queue!LoadToClose
  <2>3. [on |-> t, version |-> task[t].version] \in [on : 0..Len(task), version : Nat]
    <3>1. task[t] \in Queue!Task BY <1>t
    <3>2. task[t].version \in Nat BY <3>1 DEF Queue!Task
    <3>. QED BY <1>t, <3>2
  <2>4. PICK d \in [on : 0..Len(task), version : Nat] : d.on = t /\ desk' = [desk EXCEPT ![r] = d]
    BY <2>2, <2>3
  <2>5. /\ desk' \in [TaskReviewers -> [on : 0..Len(task), version : Nat]]
        /\ desk'[r].on = t /\ \A q \in TaskReviewers \ {r} : desk'[q] = desk[q]
    BY <1>t, <2>4
  <2>6. \A q \in TaskReviewers : desk'[q] # Queue!NoDesk => desk'[q].on > 0
    BY <2>5 DEF QueueInv
  <2>7. FirstIsClosed => task'[1].status \in Queue!Closed BY <2>1 DEF FirstIsClosed
  <2>. QED BY <1>t, <2>1, <2>5, <2>6, <2>7, QueueRest
<1>2. CASE Queue!StoreClosed(r)
  <2>1. /\ UNCHANGED <<producer, sweep, batch>> /\ desk[r] # Queue!NoDesk
        /\ desk' = [desk EXCEPT ![r] = Queue!NoDesk]
    BY <1>2 DEF Queue!StoreClosed
  <2>2. PICK t \in 1..Len(task) : t = desk[r].on BY <1>t, <2>1 DEF QueueInv
  <2>3. PICK status \in {"completed", "dismissed"} :
           task' = [task EXCEPT ![t] = [status |-> status, version |-> desk[r].version + 1]]
    BY <1>2, <2>2 DEF Queue!StoreClosed, Queue!Close
  <2>4. PICK row \in Queue!Task : row.status \in Queue!Closed /\ task' = [task EXCEPT ![t] = row]
    <3>1. desk[r].version + 1 \in Nat BY <1>t
    <3>2. [status |-> status, version |-> desk[r].version + 1] \in Queue!Task
      BY <3>1 DEF Queue!Task, Queue!Closed
    <3>3. status \in Queue!Closed BY DEF Queue!Closed
    <3>. QED BY <2>3, <3>2, <3>3
  <2>5. /\ task' \in Seq(Queue!Task) /\ Len(task') = Len(task)
        /\ FirstIsClosed => task'[1].status \in Queue!Closed
    BY <2>4, RowWritten
  <2>6. Queue!NoDesk \in [on : 0..Len(task), version : Nat] BY <1>t DEF Queue!NoDesk
  <2>7. /\ desk' \in [TaskReviewers -> [on : 0..Len(task), version : Nat]]
        /\ \A q \in TaskReviewers : desk'[q] # Queue!NoDesk => desk'[q].on > 0
    BY <1>t, <2>1, <2>6 DEF QueueInv
  <2>. QED BY <1>t, <2>1, <2>5, <2>7, QueueRest
<1>. QED BY <1>1, <1>2

\* The expiry writes the tasks it swept that nobody has changed since.
LEMMA ExpireStep ==
  ASSUME QueueInv, Queue!StoreExpired
  PROVE  QueueInv'
<1>t. /\ task \in Seq(Queue!Task) /\ Len(task) \in Nat /\ DOMAIN task = 1..Len(task)
      /\ desk \in [TaskReviewers -> [on : 0..Len(task), version : Nat]]
      /\ sweep \subseteq (1..Len(task)) \X Nat
      /\ batch \in [left : SUBSET (1..Len(task)), failed : BOOLEAN]
  BY DEF QueueInv, QueueTypes
<1>. DEFINE version(t) == (CHOOSE s \in sweep : s[1] = t)[2] + 1
            row(t) == IF t \in Queue!InSweep
                      THEN [status |-> "expired", version |-> version(t)] ELSE task[t]
<1>1. /\ task' = [t \in 1..Len(task) |-> row(t)]
      /\ UNCHANGED <<producer, desk, batch>> /\ sweep' = {}
  BY <1>t DEF Queue!StoreExpired
<1>2. ASSUME NEW t \in 1..Len(task)
      PROVE  row(t) \in Queue!Task /\ (task[t].status \in Queue!Closed => row(t).status \in Queue!Closed)
  <2>1. CASE t \in Queue!InSweep
    <3>1. version(t) \in Nat
      <4>1. (CHOOSE s \in sweep : s[1] = t) \in sweep BY <2>1 DEF Queue!InSweep
      <4>2. PICK s : s = (CHOOSE x \in sweep : x[1] = t) OBVIOUS
      <4>3. s[2] \in Nat BY <1>t, <4>1, <4>2
      <4>. QED BY <4>2, <4>3
    <3>. HIDE DEF version
    <3>2. row(t) = [status |-> "expired", version |-> version(t)] BY <2>1
    <3>. HIDE DEF row
    <3>. QED BY <3>1, <3>2 DEF Queue!Task, Queue!Closed
  <2>2. CASE t \notin Queue!InSweep BY <1>t, <2>2
  <2>. QED BY <2>1, <2>2
<1>. HIDE DEF row, version
<1>3. task' \in Seq(Queue!Task) /\ Len(task') = Len(task)
  <2>1. task' \in [1..Len(task) -> Queue!Task] BY <1>1, <1>2
  <2>. QED BY <1>t, <2>1
<1>4. FirstIsClosed => task'[1].status \in Queue!Closed BY <1>t, <1>1, <1>2 DEF FirstIsClosed
<1>5. sweep' \subseteq (1..Len(task)) \X Nat BY <1>1
<1>. QED BY <1>t, <1>1, <1>3, <1>4, <1>5, QueueRest DEF QueueInv

\* Every step of the review tasks keeps the invariant.
LEMMA QueueStep ==
  ASSUME QueueInv, [Queue!Next]_(Queue!vars)
  PROVE  QueueInv'
<1>t. /\ task \in Seq(Queue!Task) /\ Len(task) \in Nat /\ DOMAIN task = 1..Len(task)
      /\ desk \in [TaskReviewers -> [on : 0..Len(task), version : Nat]]
      /\ sweep \subseteq (1..Len(task)) \X Nat
      /\ batch \in [left : SUBSET (1..Len(task)), failed : BOOLEAN]
  BY DEF QueueInv, QueueTypes
<1>d. UNCHANGED desk => /\ desk' \in [TaskReviewers -> [on : 0..Len(task), version : Nat]]
                        /\ \A q \in TaskReviewers : desk'[q] # Queue!NoDesk => desk'[q].on > 0
  BY <1>t DEF QueueInv
<1>u. UNCHANGED task => /\ task' \in Seq(Queue!Task) /\ Len(task') = Len(task)
                        /\ FirstIsClosed => task'[1].status \in Queue!Closed
  BY <1>t DEF FirstIsClosed
<1>1. CASE Queue!ClaimTask
  <2>0. PICK t \in 1..Len(task) : \E version \in 1..task[t].version :
           /\ task[t].status = "open"
           /\ task' = [task EXCEPT ![t] = [status |-> "claimed", version |-> version + 1]]
    BY <1>t, <1>1 DEF Queue!ClaimTask, Queue!Claimable
  <2>1. PICK version \in 1..task[t].version :
           /\ task[t].status = "open"
           /\ task' = [task EXCEPT ![t] = [status |-> "claimed", version |-> version + 1]]
    BY <2>0
  <2>2. PICK row \in Queue!Task : task' = [task EXCEPT ![t] = row]
    <3>1. version + 1 \in Nat BY <1>t DEF Queue!Task
    <3>2. [status |-> "claimed", version |-> version + 1] \in Queue!Task
      BY <3>1 DEF Queue!Task, Queue!Undone
    <3>. QED BY <2>1, <3>2
  <2>3. task[t].status \notin Queue!Closed BY <2>1 DEF Queue!Closed
  <2>4. /\ task' \in Seq(Queue!Task) /\ Len(task') = Len(task)
        /\ FirstIsClosed => task'[1].status \in Queue!Closed
    BY <2>2, <2>3, RowWritten
  <2>5. UNCHANGED <<producer, desk, sweep, batch>> BY <1>1 DEF Queue!ClaimTask
  <2>. QED BY <1>t, <1>d, <2>4, <2>5, QueueRest
<1>2. CASE Queue!LoadDue
  <2>1. UNCHANGED <<task, producer, desk, batch>> BY <1>2 DEF Queue!LoadDue
  <2>2. PICK due \in SUBSET {t \in DOMAIN task : task[t].status \in Queue!Undone} :
           sweep' = {<<t, task[t].version>> : t \in due}
    BY <1>2 DEF Queue!LoadDue
  <2>3. sweep' \subseteq (1..Len(task)) \X Nat
    <3>1. \A t \in 1..Len(task) : task[t] \in Queue!Task BY <1>t
    <3>2. \A t \in due : t \in 1..Len(task) /\ task[t].version \in Nat BY <1>t, <3>1 DEF Queue!Task
    <3>. QED BY <2>2, <3>2
  <2>. QED BY <1>t, <1>d, <1>u, <2>1, <2>3, QueueRest
<1>3. CASE Queue!StartBatch
  <2>1. UNCHANGED <<task, producer, desk, sweep>> BY <1>3 DEF Queue!StartBatch
  <2>2. batch' \in [left : SUBSET (1..Len(task)), failed : BOOLEAN] BY <1>t, <1>3 DEF Queue!StartBatch
  <2>. QED BY <1>t, <1>d, <1>u, <2>1, <2>2, QueueRest
<1>4. CASE Queue!BatchItem
  <2>1. UNCHANGED <<producer, desk, sweep>> BY <1>4 DEF Queue!BatchItem
  <2>2. PICK t \in batch.left :
         \/ /\ task' = [task EXCEPT ![t] = [status |-> "completed", version |-> task[t].version + 1]]
            /\ batch' = [batch EXCEPT !.left = @ \ {t}]
         \/ /\ UNCHANGED task
            /\ batch' = [batch EXCEPT !.left = @ \ {t}, !.failed = TRUE]
    BY <1>4 DEF Queue!BatchItem, Queue!Close
  <2>3. t \in 1..Len(task) BY <1>t
  <2>4. batch' \in [left : SUBSET (1..Len(task)), failed : BOOLEAN]
    <3>1. batch.left \in SUBSET (1..Len(task)) /\ batch.left \ {t} \in SUBSET (1..Len(task)) BY <1>t
    <3>. QED BY <1>t, <2>2, <3>1
  <2>5. CASE task' = [task EXCEPT ![t] = [status |-> "completed", version |-> task[t].version + 1]]
    <3>1. PICK row \in Queue!Task : row.status \in Queue!Closed /\ task' = [task EXCEPT ![t] = row]
      <4>0. task[t] \in Queue!Task BY <1>t, <2>3
      <4>1. task[t].version + 1 \in Nat BY <4>0 DEF Queue!Task
      <4>2. [status |-> "completed", version |-> task[t].version + 1] \in Queue!Task
        BY <4>1 DEF Queue!Task, Queue!Closed
      <4>3. "completed" \in Queue!Closed BY DEF Queue!Closed
      <4>. QED BY <2>5, <4>2, <4>3
    <3>2. /\ task' \in Seq(Queue!Task) /\ Len(task') = Len(task)
          /\ FirstIsClosed => task'[1].status \in Queue!Closed
      BY <2>3, <3>1, RowWritten
    <3>. QED BY <1>t, <1>d, <2>1, <2>4, <3>2, QueueRest
  <2>6. CASE UNCHANGED task BY <1>t, <1>d, <1>u, <2>1, <2>4, <2>6, QueueRest
  <2>. QED BY <2>2, <2>5, <2>6
<1>5. CASE Queue!EndBatch
  <2>1. UNCHANGED <<task, producer, desk, sweep>> BY <1>5 DEF Queue!EndBatch
  <2>2. batch' \in [left : SUBSET (1..Len(task)), failed : BOOLEAN]
    BY <1>5 DEF Queue!EndBatch, Queue!NoBatch
  <2>. QED BY <1>t, <1>d, <1>u, <2>1, <2>2, QueueRest
<1>6. CASE UNCHANGED Queue!vars
  <2>1. UNCHANGED <<task, producer, desk, sweep, batch>> BY <1>6 DEF Queue!vars
  <2>. QED BY <1>t, <1>d, <1>u, <2>1, QueueRest
<1>. QED BY <1>1, <1>2, <1>3, <1>4, <1>5, <1>6, OpeningStep, ReviewingStep, ExpireStep
         DEF Queue!Next

\* What was closed stays closed, and what was closed while nobody else had it
\* loaded is not in anybody's hands.
ClosedTrue ==
    /\ again \subseteq together /\ together \subseteq closed /\ closed \subseteq 1..Len(task)
    /\ \A t \in closed : task[t].status \in Queue!Closed
    /\ \A t \in closed \ together :
         t \notin Queue!InSweep /\ \A r \in TaskReviewers : desk[r].on # t

\* Nothing is closed, and nobody takes up what is.
LEMMA NoneCloses ==
  ASSUME ClosedTrue, UNCHANGED <<closed, again, together>>,
         1..Len(task) \subseteq 1..Len(task'),
         \A t \in closed : task'[t].status \in Queue!Closed,
         \A t \in closed \ together : t \notin Queue!InSweep',
         \A t \in closed \ together : \A r \in TaskReviewers : desk'[r].on # t
  PROVE  ClosedTrue'
BY DEF ClosedTrue

\* A closer writes the tasks it had loaded as undone, and lets go of them.
LEMMA CloserWrites ==
  ASSUME ClosedTrue, NEW tasks \in SUBSET (1..Len(task)), NEW held,
         Queue!Closes(tasks, held), Len(task') = Len(task),
         \A t \in tasks \cup closed : task'[t].status \in Queue!Closed,
         Queue!InSweep' \subseteq Queue!InSweep,
         \A r \in TaskReviewers : desk'[r].on # 0 => desk'[r] = desk[r],
         \A t \in tasks : t \in Queue!InSweep' => t \in held,
         \A t \in tasks : \A r \in TaskReviewers : desk'[r].on = t => t \in held,
         \A t \in tasks \cap closed : t \in together
  PROVE  ClosedTrue'
<1>1. /\ closed' = closed \cup tasks /\ again' = again \cup (tasks \cap closed)
      /\ together' = together \cup (tasks \cap held)
  BY DEF Queue!Closes
<1>2. /\ again' \subseteq together' /\ together' \subseteq closed' /\ closed' \subseteq 1..Len(task')
  BY <1>1 DEF ClosedTrue
<1>3. \A t \in closed' : task'[t].status \in Queue!Closed BY <1>1
<1>4. ASSUME NEW t \in closed' \ together'
      PROVE  t \notin Queue!InSweep' /\ \A r \in TaskReviewers : desk'[r].on # t
  <2>1. t \notin together /\ t # 0 BY <1>1, <1>2, <1>4
  <2>2. CASE t \in tasks
    <3>1. t \notin held BY <1>1, <1>4, <2>2
    <3>. QED BY <2>2, <3>1
  <2>3. CASE t \in closed
    <3>1. t \notin Queue!InSweep /\ \A r \in TaskReviewers : desk[r].on # t
      BY <2>1, <2>3 DEF ClosedTrue
    <3>. QED BY <2>1, <3>1
  <2>. QED BY <1>1, <1>4, <2>2, <2>3
<1>. QED BY <1>2, <1>3, <1>4 DEF ClosedTrue

\* Every step keeps what was closed closed.
LEMMA ClosedStep ==
  ASSUME QueueInv, ClosedTrue, [Queue!Next]_(Queue!vars)
  PROVE  ClosedTrue'
<1>t. /\ task \in Seq(Queue!Task) /\ Len(task) \in Nat /\ DOMAIN task = 1..Len(task)
      /\ desk \in [TaskReviewers -> [on : 0..Len(task), version : Nat]]
      /\ sweep \subseteq (1..Len(task)) \X Nat
      /\ batch \in [left : SUBSET (1..Len(task)), failed : BOOLEAN]
  BY DEF QueueInv, QueueTypes
<1>s. Queue!InSweep \subseteq 1..Len(task) BY <1>t DEF Queue!InSweep
<1>c. Queue!Undone \cap Queue!Closed = {} BY DEF Queue!Undone, Queue!Closed
<1>h. \A t \in closed \ together :
        t \notin Queue!InSweep /\ \A r \in TaskReviewers : desk[r].on # t
  BY DEF ClosedTrue
<1>w. UNCHANGED sweep => Queue!InSweep' = Queue!InSweep BY DEF Queue!InSweep
<1>. USE DEF Queue!history
<1>1. CASE UNCHANGED <<task, desk, sweep, closed, again, together>>
  BY <1>1, <1>h, <1>w, NoneCloses DEF ClosedTrue
<1>2. ASSUME NEW p \in Producers, Queue!Insert(p) PROVE ClosedTrue'
  <2>1. UNCHANGED <<desk, sweep, closed, again, together>>
        /\ (task' = task \/ task' = Append(task, [status |-> "open", version |-> 1]))
    BY <1>2 DEF Queue!Insert
  <2>2. Len(task') \in Nat /\ Len(task) <= Len(task')
        /\ \A t \in 1..Len(task) : task'[t] = task[t]
    BY <1>t, <2>1
  <2>. QED BY <1>t, <1>h, <1>w, <2>1, <2>2, NoneCloses DEF ClosedTrue
<1>3. CASE Queue!ClaimTask
  <2>1. PICK t \in 1..Len(task) : \E row : /\ task[t].status = "open"
                                           /\ task' = [task EXCEPT ![t] = row]
    BY <1>t, <1>3 DEF Queue!ClaimTask, Queue!Claimable
  <2>2. PICK row : task' = [task EXCEPT ![t] = row] BY <2>1
  <2>3. t \notin closed BY <2>1 DEF ClosedTrue, Queue!Closed
  <2>4. DOMAIN task' = DOMAIN task /\ \A u \in closed : task'[u] = task[u]
    BY <1>t, <2>2, <2>3 DEF ClosedTrue
  <2>5. Len(task') = Len(task) BY <1>t, <2>2
  <2>6. UNCHANGED <<desk, sweep, closed, again, together>> BY <1>3 DEF Queue!ClaimTask
  <2>. QED BY <1>h, <1>w, <2>4, <2>5, <2>6, NoneCloses DEF ClosedTrue
<1>4. ASSUME NEW r \in TaskReviewers, Queue!LoadToClose(r) PROVE ClosedTrue'
  <2>1. UNCHANGED <<task, sweep, closed, again, together>> BY <1>4 DEF Queue!LoadToClose
  <2>2. PICK t \in 1..Len(task) :
          /\ task[t].status \in Queue!Undone
          /\ desk' = [desk EXCEPT ![r] = [on |-> t, version |-> task[t].version]]
    BY <1>t, <1>4 DEF Queue!LoadToClose
  <2>3. t \notin closed BY <1>c, <2>2 DEF ClosedTrue
  <2>4. desk'[r].on = t /\ \A o \in TaskReviewers \ {r} : desk'[o] = desk[o] BY <1>t, <2>2
  <2>. QED BY <1>h, <1>w, <2>1, <2>3, <2>4, NoneCloses DEF ClosedTrue
<1>5. CASE Queue!LoadDue
  <2>1. UNCHANGED <<task, desk, closed, again, together>> BY <1>5 DEF Queue!LoadDue
  <2>2. PICK due \in SUBSET {t \in DOMAIN task : task[t].status \in Queue!Undone} :
           sweep' = {<<t, task[t].version>> : t \in due}
    BY <1>5 DEF Queue!LoadDue
  <2>3. Queue!InSweep' = due
    <3>1. Queue!InSweep' = {s[1] : s \in sweep'} BY DEF Queue!InSweep
    <3>2. PICK held : held = sweep' OBVIOUS
    <3>3. \A t \in due : \E s \in held : s[1] = t
      <4>. SUFFICES ASSUME NEW t \in due PROVE \E s \in held : s[1] = t OBVIOUS
      <4>1. <<t, task[t].version>> \in held BY <2>2, <3>2
      <4>2. <<t, task[t].version>>[1] = t OBVIOUS
      <4>. QED BY <4>1, <4>2
    <3>4. \A s \in held : s[1] \in due BY <2>2, <3>2
    <3>. QED BY <3>1, <3>2, <3>3, <3>4
  <2>4. due \cap closed = {} BY <1>c DEF ClosedTrue
  <2>5. \A t \in closed \ together :
           t \notin Queue!InSweep' /\ \A r \in TaskReviewers : desk'[r].on # t
    BY <1>h, <2>1, <2>3, <2>4
  <2>6. \A t \in closed : task'[t].status \in Queue!Closed BY <2>1 DEF ClosedTrue
  <2>. QED BY <2>1, <2>5, <2>6, NoneCloses
<1>6. ASSUME NEW r \in TaskReviewers, Queue!StoreClosed(r) PROVE ClosedTrue'
  <2>. DEFINE t == desk[r].on
              held == Queue!InSweep \cup Queue!AtDesk(TaskReviewers \ {r})
  <2>1. /\ Queue!Closes({t}, held) /\ UNCHANGED sweep /\ desk[r] # Queue!NoDesk
        /\ desk' = [desk EXCEPT ![r] = Queue!NoDesk]
    BY <1>6 DEF Queue!StoreClosed
  <2>2. PICK row : row.status \in Queue!Closed /\ task' = [task EXCEPT ![t] = row]
    <3>1. PICK status \in {"completed", "dismissed"} :
             task' = [task EXCEPT ![t] = [status |-> status, version |-> desk[r].version + 1]]
      BY <1>6 DEF Queue!StoreClosed, Queue!Close
    <3>2. PICK row : row = [status |-> status, version |-> desk[r].version + 1] OBVIOUS
    <3>3. row.status = status BY <3>2
    <3>4. status \in Queue!Closed BY DEF Queue!Closed
    <3>. QED BY <3>1, <3>2, <3>3, <3>4
  <2>3. t \in 1..Len(task) BY <1>t, <2>1 DEF QueueInv
  <2>4. /\ Len(task') = Len(task) /\ task'[t] = row
        /\ \A u \in DOMAIN task \ {t} : task'[u] = task[u]
    BY <1>t, <2>2, <2>3
  <2>5. \A u \in {t} \cup closed : task'[u].status \in Queue!Closed
    <3>. HIDE DEF t
    <3>. QED BY <1>t, <2>2, <2>3, <2>4 DEF ClosedTrue
  <2>6. desk'[r].on = 0 /\ \A o \in TaskReviewers \ {r} : desk'[o] = desk[o]
    BY <1>t, <2>1 DEF Queue!NoDesk
  <2>7. \A o \in TaskReviewers : desk'[o].on = t => t \in held
    BY <2>3, <2>6 DEF Queue!AtDesk
  <2>8. t \in closed => t \in together BY <1>h
  <2>9. \A o \in TaskReviewers : desk'[o].on # 0 => desk'[o] = desk[o] BY <2>6
  <2>10. {t} \in SUBSET (1..Len(task)) /\ Queue!InSweep' = Queue!InSweep BY <1>w, <2>1, <2>3
  <2>11. Queue!InSweep' \subseteq held BY <2>10
  <2>. HIDE DEF t, held
  <2>12. /\ \A u \in {t} : u \in Queue!InSweep' => u \in held
         /\ \A u \in {t} : \A o \in TaskReviewers : desk'[o].on = u => u \in held
         /\ \A u \in {t} \cap closed : u \in together
    BY <2>7, <2>8, <2>11
  <2>. QED BY <2>1, <2>4, <2>5, <2>9, <2>10, <2>12, CloserWrites
<1>7. CASE Queue!StoreExpired
  <2>1. /\ Queue!Closes(Queue!InSweep, Queue!AtDesk(TaskReviewers)) /\ sweep' = {}
        /\ UNCHANGED desk
        /\ task' = [t \in 1..Len(task) |->
             IF t \in Queue!InSweep
             THEN [status |-> "expired", version |-> (CHOOSE s \in sweep : s[1] = t)[2] + 1]
             ELSE task[t]]
    BY <1>t, <1>7 DEF Queue!StoreExpired
  <2>2. QueueInv' BY <1>7, ExpireStep
  <2>3. Len(task') = Len(task)
    <3>1. DOMAIN task' = 1..Len(task) BY <2>1
    <3>2. task' \in Seq(Queue!Task) BY <2>2 DEF QueueInv, QueueTypes
    <3>. QED BY <1>t, <3>1, <3>2
  <2>4. \A t \in Queue!InSweep \cup closed : task'[t].status \in Queue!Closed
    <3>1. "expired" \in Queue!Closed BY DEF Queue!Closed
    <3>. QED BY <1>s, <2>1, <3>1 DEF ClosedTrue
  <2>5. Queue!InSweep' = {} BY <2>1 DEF Queue!InSweep
  <2>6. \A t \in Queue!InSweep : \A r \in TaskReviewers : desk'[r].on = t => t \in Queue!AtDesk(TaskReviewers)
    BY <2>1 DEF Queue!AtDesk
  <2>7. \A t \in Queue!InSweep \cap closed : t \in together BY <1>h
  <2>8. \A r \in TaskReviewers : desk'[r] = desk[r] BY <2>1
  <2>. QED BY <1>s, <2>1, <2>3, <2>4, <2>5, <2>6, <2>7, <2>8, CloserWrites
<1>8. CASE Queue!BatchItem
  <2>. DEFINE held == Queue!InSweep \cup Queue!AtDesk(TaskReviewers)
  <2>1. UNCHANGED <<producer, desk, sweep>> BY <1>8 DEF Queue!BatchItem
  <2>2. CASE UNCHANGED <<task, closed, again, together>> BY <1>1, <2>1, <2>2
  <2>3. ASSUME NEW t \in 1..Len(task), task[t].status \in Queue!Undone, Queue!Closes({t}, held),
               task' = [task EXCEPT ![t] = [status |-> "completed", version |-> task[t].version + 1]]
        PROVE  ClosedTrue'
    <3>1. Len(task') = Len(task) /\ task'[t].status = "completed"
          /\ \A u \in DOMAIN task \ {t} : task'[u] = task[u]
      BY <1>t, <2>3
    <3>2. t \notin closed BY <1>c, <2>3 DEF ClosedTrue
    <3>3. \A u \in {t} \cup closed : task'[u].status \in Queue!Closed
      <4>1. "completed" \in Queue!Closed BY DEF Queue!Closed
      <4>. QED BY <1>t, <3>1, <4>1 DEF ClosedTrue
    <3>4. \A r \in TaskReviewers : desk'[r].on = t => t \in held BY <2>1 DEF Queue!AtDesk
    <3>5. \A r \in TaskReviewers : desk'[r] = desk[r] BY <2>1
    <3>. QED BY <1>w, <2>1, <2>3, <3>1, <3>2, <3>3, <3>4, <3>5, CloserWrites
  <2>. QED BY <1>t, <1>8, <2>2, <2>3 DEF Queue!BatchItem, Queue!Close
<1>9. UNCHANGED Queue!vars => UNCHANGED <<task, desk, sweep, closed, again, together>>
  BY DEF Queue!vars
<1>10. \A p \in Producers : Queue!Look(p) => UNCHANGED <<task, desk, sweep, closed, again, together>>
  BY DEF Queue!Look
<1>11. Queue!StartBatch \/ Queue!EndBatch => UNCHANGED <<task, desk, sweep, closed, again, together>>
  BY DEF Queue!StartBatch, Queue!EndBatch
<1>. QED BY <1>1, <1>2, <1>3, <1>4, <1>5, <1>6, <1>7, <1>8, <1>9, <1>10, <1>11 DEF Queue!Next

\* Review tasks: while the task that holds the key is undone, every other task of
\* the finding is closed; and a task is closed once, unless another closer had it
\* loaded at the time.
THEOREM ReviewedOnceHolds == Spec => []ReviewedOnce
<1>1. QueueInv /\ ClosedTrue => ReviewedOnce
  <2>1. QueueInv /\ ClosedTrue => Queue!ReviewedOnce
    <3>. SUFFICES ASSUME QueueInv, task[1].status \in Queue!Undone, NEW t \in 2..Len(task) PROVE FALSE
      BY DEF Queue!ReviewedOnce, ClosedTrue
    <3>1. Len(task) \in Nat BY DEF QueueInv, QueueTypes
    <3>2. FirstIsClosed BY <3>1 DEF QueueInv
    <3>. QED BY <3>2 DEF FirstIsClosed, Queue!Undone, Queue!Closed
  <2>. QED BY <2>1 DEF ReviewedOnce
<1>2. Queue!Init => ClosedTrue BY DEF Queue!Init, ClosedTrue
<1>3. QueueInv /\ ClosedTrue /\ [Queue!Next]_(Queue!vars) => (QueueInv /\ ClosedTrue)'
  BY QueueStep, ClosedStep
<1>. QED BY <1>1, <1>2, <1>3, QueueSpec, QueueInit, PTL DEF Queue!Spec

\* Review tasks: the tasks and what everybody holds of them have their types.
LEMMA QueueTypeCorrect == Spec => []Queue!TypeOK
<1>1. QueueInv /\ ClosedTrue => Queue!TypeOK
  <2>. SUFFICES ASSUME QueueInv, ClosedTrue PROVE Queue!TypeOK OBVIOUS
  <2>1. DOMAIN task = 1..Len(task) BY DEF QueueInv, QueueTypes
  <2>2. closed \cup again \cup together \subseteq DOMAIN task BY <2>1 DEF ClosedTrue
  <2>. QED BY <2>1, <2>2 DEF QueueInv, QueueTypes, Queue!TypeOK
<1>2. Queue!Init => ClosedTrue BY DEF Queue!Init, ClosedTrue
<1>3. QueueInv /\ ClosedTrue /\ [Queue!Next]_(Queue!vars) => (QueueInv /\ ClosedTrue)'
  BY QueueStep, ClosedStep
<1>. QED BY <1>1, <1>2, <1>3, QueueSpec, QueueInit, PTL DEF Queue!Spec

-----------------------------------------------------------------------------
(* Comparables *)

\* What an importer is about to commit: the rows it counted add up.
ImportRow(m) ==
    /\ m.status \in Market!ImportStatus /\ m.new \subseteq Identities
    /\ Market!Cardinality(m.new) + m.invalid + m.duplicates <= m.total
    /\ m.status \notin {"completed", "failed"} => m.new = {}

\* What is condemned has the time of its invalidation, and keeps it.
Barred == {i \in Market!There : comparable[i].invalidated}

MarketInv ==
    /\ comparable \in [Identities -> Market!Comparable]
    /\ tasked \subseteq Market!There /\ condemned \subseteq Barred
    /\ DOMAIN importing = Importers
    /\ \A c \in Importers : ImportRow(importing[c])
    /\ assessing \in [Assessors -> [on : Identities \cup {"none"}, decision : Market!ReviewStatus]]
    /\ \A a \in Assessors : IF assessing[a].decision = "pending" THEN assessing[a] = Market!NoAssessment
                            ELSE assessing[a].on \in Market!There
    /\ pricing \in [busy : BOOLEAN, used : SUBSET Market!There, barred : SUBSET Market!There]
    /\ pricing.used \cap pricing.barred = {}

\* A behaviour of the services is a behaviour of the comparables.
LEMMA MarketSpec == Spec => Market!Spec
<1>1. Init => Market!Init BY DEF Init
<1>2. [Next]_vars => [Market!Next]_(Market!vars)
  BY DEF Next, vars, MediaMoves, DomainMoves, StudyMoves, QueueMoves,
         MarketMoves, SchedulerMoves, BrokerMoves, BuyerMoves, ThreadMoves,
         UpkeepMoves, DispatchMoves, ArithmeticMoves, RemoteMoves, ApiMoves,
         marketVars, Market!vars
<1>. QED BY <1>1, <1>2, PTL DEF Spec, Market!Spec

\* The module's cardinality is that of the library.
LEMMA MarketSize == \A S : Market!Cardinality(S) = Cardinality(S)
  BY DEF Market!Cardinality, Cardinality

\* An importer that has read nothing is about to commit a row that adds up.
LEMMA NothingImported == ImportRow(Market!NoImport)
<1>1. Market!Cardinality({}) = 0 BY MarketSize, FS_EmptySet
<1>. QED BY <1>1 DEF ImportRow, Market!NoImport, Market!ImportStatus

\* Before the first import there is no comparable.
LEMMA MarketInit == Market!Init => MarketInv
<1>. SUFFICES ASSUME Market!Init PROVE MarketInv OBVIOUS
<1>1. comparable \in [Identities -> Market!Comparable] /\ tasked = {} /\ condemned = {}
  BY DEF Market!Init, Market!Absent, Market!Comparable, Market!ReviewStatus
<1>2. DOMAIN importing = Importers /\ \A c \in Importers : ImportRow(importing[c])
  BY NothingImported DEF Market!Init
<1>3. /\ assessing \in [Assessors -> [on : Identities \cup {"none"}, decision : Market!ReviewStatus]]
      /\ \A a \in Assessors : assessing[a] = Market!NoAssessment
  BY DEF Market!Init, Market!NoAssessment, Market!ReviewStatus
<1>4. pricing \in [busy : BOOLEAN, used : SUBSET Market!There, barred : SUBSET Market!There]
      /\ pricing.used \cap pricing.barred = {}
  BY DEF Market!Init, Market!NoPricing
<1>. QED BY <1>1, <1>2, <1>3, <1>4 DEF MarketInv, Market!NoAssessment

\* An import reads its rows: those it will insert and those that are there
\* already are at most the rows.
LEMMA ReadRowsStep ==
  ASSUME MarketInv, NEW c \in Importers, Market!ReadRows(c)
  PROVE  MarketInv'
<1>1. UNCHANGED <<comparable, tasked, assessing, pricing, condemned>> BY DEF Market!ReadRows
<1>2. PICK R \in SUBSET Identities, invalid \in 0..1, dry \in BOOLEAN, allOrNothing \in BOOLEAN :
         LET write == ~dry /\ ~(allOrNothing /\ invalid > 0)
             new == IF write THEN R \ Market!There ELSE {} IN
         importing' = [importing EXCEPT ![c] =
              [status |-> Market!StatusOf(dry, allOrNothing, invalid, new),
               total |-> Market!Cardinality(R) + invalid, new |-> new, invalid |-> invalid,
               duplicates |-> IF write THEN Market!Cardinality(R \cap Market!There) ELSE 0]]
  BY ZenonT(30) DEF Market!ReadRows
<1>. DEFINE write == ~dry /\ ~(allOrNothing /\ invalid > 0)
            new == IF write THEN R \ Market!There ELSE {}
            dup == IF write THEN Market!Cardinality(R \cap Market!There) ELSE 0
            m == [status |-> Market!StatusOf(dry, allOrNothing, invalid, new),
                  total |-> Market!Cardinality(R) + invalid, new |-> new, invalid |-> invalid,
                  duplicates |-> dup]
<1>3. /\ Market!Cardinality(R) \in Nat
      /\ Market!Cardinality(new) \in Nat /\ dup \in Nat
      /\ Market!Cardinality(new) + dup <= Market!Cardinality(R)
  <2>1. IsFiniteSet(R) BY ComparablesAssumption, FS_Subset
  <2>2. /\ IsFiniteSet(R \ Market!There) /\ IsFiniteSet(R \cap Market!There)
        /\ Cardinality(R \ Market!There) = Cardinality(R) - Cardinality(R \cap Market!There)
    BY <2>1, FS_Difference, FS_Intersection
  <2>3. /\ Cardinality(R) \in Nat /\ Cardinality(R \ Market!There) \in Nat
        /\ Cardinality(R \cap Market!There) \in Nat
    BY <2>1, <2>2, FS_CardinalityType
  <2>4. CASE write
    <3>1. new = R \ Market!There /\ dup = Cardinality(R \cap Market!There) BY <2>4, MarketSize
    <3>. QED BY <2>2, <2>3, <3>1, MarketSize
  <2>5. CASE ~write
    <3>1. new = {} /\ dup = 0 BY <2>5
    <3>. QED BY <2>3, <3>1, MarketSize, FS_EmptySet
  <2>. QED BY <2>4, <2>5
<1>4. Market!StatusOf(dry, allOrNothing, invalid, new) \in Market!ImportStatus
  BY DEF Market!StatusOf, Market!ImportStatus
<1>5. Market!StatusOf(dry, allOrNothing, invalid, new) \notin {"completed", "failed"} => new = {}
  BY DEF Market!StatusOf
<1>6. new \subseteq Identities OBVIOUS
<1>7. importing' = [importing EXCEPT ![c] = m] BY <1>2
<1>8. ImportRow(m)
  <2>1. PICK s : s = Market!StatusOf(dry, allOrNothing, invalid, new) OBVIOUS
  <2>2. PICK n : n = new OBVIOUS
  <2>3. PICK d : d = dup OBVIOUS
  <2>4. PICK k : k = Market!Cardinality(R) OBVIOUS
  <2>5. PICK w : w = Market!Cardinality(n) OBVIOUS
  <2>6. m = [status |-> s, total |-> k + invalid, new |-> n, invalid |-> invalid, duplicates |-> d]
    BY <2>1, <2>2, <2>3, <2>4
  <2>7. /\ k \in Nat /\ w \in Nat /\ d \in Nat /\ w + d <= k
        /\ s \in Market!ImportStatus /\ n \subseteq Identities
        /\ s \notin {"completed", "failed"} => n = {}
    BY <1>3, <1>4, <1>5, <1>6, <2>1, <2>2, <2>3, <2>4, <2>5
  <2>. HIDE DEF m, new, dup, write
  <2>8. w + invalid + d <= k + invalid BY <2>7
  <2>. QED BY <2>5, <2>6, <2>7, <2>8 DEF ImportRow
<1>. HIDE DEF m
<1>9. DOMAIN importing' = Importers /\ \A d \in Importers : ImportRow(importing'[d])
  BY <1>7, <1>8 DEF MarketInv
<1>10. ImportRow(importing[c])' <=> ImportRow(importing'[c]) BY DEF ImportRow, Market!ImportStatus
<1>11. Market!There' = Market!There /\ Barred' = Barred BY <1>1 DEF Market!There, Barred
<1>. QED BY <1>1, <1>9, <1>11 DEF MarketInv, Market!NoAssessment

\* New rows leave what is there, and what is barred, as it is.
LEMMA MoreRows ==
  ASSUME MarketInv,
         comparable' \in [Identities -> Market!Comparable],
         \A i \in Market!There : comparable'[i].there
             /\ (comparable[i].invalidated => comparable'[i].invalidated)
  PROVE  Market!There \subseteq Market!There' /\ Barred \subseteq Barred'
  BY DEF MarketInv, Market!There, Barred

\* The commit of an import stores its new rows and the counts of the import.
LEMMA CommitImportStep ==
  ASSUME MarketInv, NEW c \in Importers, Market!CommitImport(c)
  PROVE  MarketInv'
<1>1. /\ importing' = [importing EXCEPT ![c] = Market!NoImport]
      /\ UNCHANGED <<assessing, pricing, condemned>>
  BY DEF Market!CommitImport
<1>2. DOMAIN importing' = Importers /\ \A d \in Importers : ImportRow(importing'[d])
  BY <1>1, NothingImported DEF MarketInv
<1>3. PICK new : new = importing[c].new OBVIOUS
<1>4. new \subseteq Identities BY <1>3 DEF MarketInv, ImportRow
<1>5. CASE UNCHANGED <<comparable, tasked>>
  <2>1. Market!There' = Market!There /\ Barred' = Barred BY <1>5 DEF Market!There, Barred
  <2>. QED BY <1>1, <1>2, <1>5, <2>1 DEF MarketInv, Market!NoAssessment
<1>6. CASE /\ new \cap Market!There = {}
           /\ comparable' = [i \in Identities |->
                 IF i \in new THEN [Market!Absent EXCEPT !.there = TRUE] ELSE comparable[i]]
           /\ tasked' = tasked \cup new
  <2>1. PICK row : row = [Market!Absent EXCEPT !.there = TRUE] OBVIOUS
  <2>2. row \in Market!Comparable /\ row.there
    BY <2>1 DEF Market!Absent, Market!Comparable, Market!ReviewStatus
  <2>3. comparable' = [i \in Identities |-> IF i \in new THEN row ELSE comparable[i]]
    BY <1>6, <2>1
  <2>4. comparable' \in [Identities -> Market!Comparable] BY <2>2, <2>3 DEF MarketInv
  <2>5. /\ \A i \in Market!There : comparable'[i] = comparable[i]
        /\ \A i \in new : comparable'[i].there
    BY <1>4, <1>6, <2>2, <2>3 DEF Market!There
  <2>6. Market!There \subseteq Market!There' /\ Barred \subseteq Barred'
    BY <2>4, <2>5, MoreRows DEF Market!There
  <2>7. new \subseteq Market!There' BY <1>4, <2>5 DEF Market!There
  <2>8. tasked' \subseteq Market!There' /\ condemned' \subseteq Barred'
    BY <1>1, <1>6, <2>6, <2>7 DEF MarketInv
  <2>9. pricing' \in [busy : BOOLEAN, used : SUBSET Market!There', barred : SUBSET Market!There']
    BY <1>1, <2>6 DEF MarketInv
  <2>10. \A a \in Assessors : IF assessing'[a].decision = "pending" THEN assessing'[a] = Market!NoAssessment
                              ELSE assessing'[a].on \in Market!There'
    BY <1>1, <2>6 DEF MarketInv
  <2>. QED BY <1>1, <1>2, <2>4, <2>8, <2>9, <2>10 DEF MarketInv, Market!NoAssessment
<1>. QED BY <1>3, <1>5, <1>6 DEF Market!CommitImport

\* Adding one comparable by hand.
LEMMA AddComparableStep ==
  ASSUME MarketInv, NEW i \in Identities, Market!AddComparable(i)
  PROVE  MarketInv'
<1>1. /\ comparable' = [comparable EXCEPT ![i].there = TRUE]
      /\ UNCHANGED <<tasked, importing, assessing, pricing, condemned>>
  BY DEF Market!AddComparable
<1>2. PICK row : row = [comparable[i] EXCEPT !.there = TRUE] OBVIOUS
<1>3. row \in Market!Comparable /\ row.there /\ row.invalidated = comparable[i].invalidated
  BY <1>2 DEF MarketInv, Market!Comparable
<1>4. comparable' = [comparable EXCEPT ![i] = row] BY <1>1, <1>2
<1>5. comparable' \in [Identities -> Market!Comparable] BY <1>3, <1>4 DEF MarketInv
<1>6. \A j \in Market!There : comparable'[j].there
             /\ (comparable[j].invalidated => comparable'[j].invalidated)
  BY <1>3, <1>4 DEF MarketInv, Market!There
<1>7. Market!There \subseteq Market!There' /\ Barred \subseteq Barred' BY <1>5, <1>6, MoreRows
<1>8. \A c \in Importers : ImportRow(importing[c])'
  BY <1>1 DEF MarketInv, ImportRow, Market!ImportStatus, Market!Cardinality
<1>9. \A a \in Assessors : IF assessing'[a].decision = "pending" THEN assessing'[a] = Market!NoAssessment
                              ELSE assessing'[a].on \in Market!There'
  BY <1>1, <1>7 DEF MarketInv
<1>10. pricing' \in [busy : BOOLEAN, used : SUBSET Market!There', barred : SUBSET Market!There']
  BY <1>1, <1>7 DEF MarketInv
<1>. QED BY <1>1, <1>5, <1>7, <1>8, <1>9, <1>10 DEF MarketInv, Market!NoAssessment

\* An assessor stores its decision; a comparable it invalidates is condemned.
LEMMA StoreDecisionStep ==
  ASSUME MarketInv, NEW a \in Assessors, Market!StoreDecision(a)
  PROVE  MarketInv'
<1>1. PICK i : i = assessing[a].on OBVIOUS
<1>2. PICK decision : decision = assessing[a].decision OBVIOUS
<1>3. /\ assessing[a] # Market!NoAssessment
      /\ comparable' = [comparable EXCEPT ![i] =
              [there |-> TRUE, status |-> decision,
               invalidated |-> (decision = "invalidated") \/ comparable[i].invalidated]]
      /\ condemned' = IF decision = "invalidated" THEN condemned \cup {i} ELSE condemned
      /\ tasked' = tasked \ {i}
      /\ assessing' = [assessing EXCEPT ![a] = Market!NoAssessment]
      /\ UNCHANGED <<importing, pricing>>
  BY <1>1, <1>2 DEF Market!StoreDecision
<1>4. i \in Market!There /\ decision \in Market!ReviewStatus
  BY <1>1, <1>2, <1>3 DEF MarketInv
<1>5. PICK b \in BOOLEAN : b <=> ((decision = "invalidated") \/ comparable[i].invalidated) OBVIOUS
<1>6. PICK row : row = [there |-> TRUE, status |-> decision, invalidated |-> b] OBVIOUS
<1>7. comparable' = [comparable EXCEPT ![i] = row]
  <2>1. comparable[i].invalidated \in BOOLEAN BY <1>4 DEF MarketInv, Market!Comparable, Market!There
  <2>2. b = ((decision = "invalidated") \/ comparable[i].invalidated) BY <1>5, <2>1
  <2>. QED BY <1>3, <1>6, <2>2
<1>8. row \in Market!Comparable /\ row.there /\ (row.invalidated <=> b)
  BY <1>4, <1>6 DEF Market!Comparable
<1>9. /\ comparable' \in [Identities -> Market!Comparable]
      /\ comparable'[i] = row /\ \A j \in Identities \ {i} : comparable'[j] = comparable[j]
  BY <1>4, <1>7, <1>8 DEF MarketInv, Market!There
<1>10. \A j \in Market!There : comparable'[j].there
             /\ (comparable[j].invalidated => comparable'[j].invalidated)
  BY <1>5, <1>8, <1>9 DEF Market!There
<1>11. Market!There \subseteq Market!There' /\ Barred \subseteq Barred' BY <1>9, <1>10, MoreRows
<1>12. decision = "invalidated" => i \in Barred'
  BY <1>4, <1>5, <1>8, <1>9 DEF Barred, Market!There
<1>13. tasked' \subseteq Market!There' /\ condemned' \subseteq Barred'
  BY <1>3, <1>11, <1>12 DEF MarketInv
<1>14. \A c \in Importers : ImportRow(importing[c])'
  BY <1>3 DEF MarketInv, ImportRow, Market!ImportStatus, Market!Cardinality
<1>15. /\ assessing' \in [Assessors -> [on : Identities \cup {"none"}, decision : Market!ReviewStatus]]
       /\ \A x \in Assessors : IF assessing'[x].decision = "pending" THEN assessing'[x] = Market!NoAssessment
                               ELSE assessing'[x].on \in Market!There'
  <2>1. Market!NoAssessment \in [on : Identities \cup {"none"}, decision : Market!ReviewStatus]
    BY DEF Market!NoAssessment, Market!ReviewStatus
  <2>2. Market!NoAssessment.decision = "pending" BY DEF Market!NoAssessment
  <2>. QED BY <1>3, <1>11, <2>1, <2>2 DEF MarketInv
<1>16. pricing' \in [busy : BOOLEAN, used : SUBSET Market!There', barred : SUBSET Market!There']
  BY <1>3, <1>11 DEF MarketInv
<1>. QED BY <1>3, <1>9, <1>13, <1>14, <1>15, <1>16 DEF MarketInv, Market!NoAssessment

\* Every step of the comparables keeps the invariant.
LEMMA MarketStep ==
  ASSUME MarketInv, [Market!Next]_(Market!vars)
  PROVE  MarketInv'
<1>u. UNCHANGED comparable => Market!There' = Market!There /\ Barred' = Barred
  BY DEF Market!There, Barred
<1>i. UNCHANGED importing => \A c \in Importers : ImportRow(importing[c])'
  BY ZenonT(30) DEF MarketInv, ImportRow, Market!ImportStatus, Market!Cardinality
<1>1. ASSUME NEW a \in Assessors, Market!LoadComparable(a) PROVE MarketInv'
  <2>1. UNCHANGED <<comparable, tasked, importing, pricing, condemned>>
    BY <1>1 DEF Market!LoadComparable
  <2>2. PICK i \in Market!There, decision \in Market!ReviewStatus \ {"pending"} :
           assessing' = [assessing EXCEPT ![a] = [on |-> i, decision |-> decision]]
    BY <1>1 DEF Market!LoadComparable
  <2>3. /\ assessing' \in [Assessors -> [on : Identities \cup {"none"}, decision : Market!ReviewStatus]]
        /\ \A x \in Assessors : IF assessing'[x].decision = "pending" THEN assessing'[x] = Market!NoAssessment
                                ELSE assessing'[x].on \in Market!There
    <3>1. i \in Identities BY DEF Market!There
    <3>2. PICK q : q = [on |-> i, decision |-> decision] OBVIOUS
    <3>3. /\ q \in [on : Identities \cup {"none"}, decision : Market!ReviewStatus]
          /\ q.on = i /\ q.decision # "pending"
      BY <3>1, <3>2
    <3>4. assessing' = [assessing EXCEPT ![a] = q] BY <2>2, <3>2
    <3>. QED BY <3>3, <3>4 DEF MarketInv
  <2>. QED BY <1>u, <1>i, <2>1, <2>3 DEF MarketInv, Market!NoAssessment
<1>2. CASE Market!SelectComparables
  <2>1. UNCHANGED <<comparable, tasked, importing, assessing, condemned>>
    BY <1>2 DEF Market!SelectComparables
  <2>2. PICK used \in SUBSET {i \in Market!There : Market!Includable(i)} :
           pricing' = [busy |-> TRUE, used |-> used, barred |-> condemned]
    BY <1>2 DEF Market!SelectComparables
  <2>3. /\ pricing' \in [busy : BOOLEAN, used : SUBSET Market!There, barred : SUBSET Market!There]
        /\ pricing'.used \cap pricing'.barred = {}
    <3>1. condemned \subseteq Market!There /\ used \subseteq Market!There BY DEF MarketInv, Barred
    <3>2. used \cap condemned = {} BY DEF MarketInv, Barred, Market!Includable
    <3>. QED BY <2>2, <3>1, <3>2
  <2>. QED BY <1>u, <1>i, <2>1, <2>3 DEF MarketInv, Market!NoAssessment
<1>3. CASE Market!StoreRecommendation
  <2>1. /\ UNCHANGED <<comparable, tasked, importing, assessing, condemned>>
        /\ pricing' = Market!NoPricing
    BY <1>3 DEF Market!StoreRecommendation
  <2>2. /\ pricing' \in [busy : BOOLEAN, used : SUBSET Market!There, barred : SUBSET Market!There]
        /\ pricing'.used \cap pricing'.barred = {}
    BY <2>1 DEF Market!NoPricing
  <2>. QED BY <1>u, <1>i, <2>1, <2>2 DEF MarketInv, Market!NoAssessment
<1>4. CASE UNCHANGED Market!vars
  <2>1. UNCHANGED <<comparable, tasked, importing, assessing, pricing, condemned>>
    BY <1>4 DEF Market!vars
  <2>. QED BY <1>u, <1>i, <2>1 DEF MarketInv, Market!NoAssessment
<1>. QED BY <1>1, <1>2, <1>3, <1>4, ReadRowsStep, CommitImportStep, AddComparableStep,
            StoreDecisionStep
         DEF Market!Next

\* Comparables: no recommendation uses a comparable that was invalidated before
\* it read them, whatever decisions were stored over one another.
THEOREM InvalidatedHolds == Spec => []InvalidatedNeverPriced
<1>1. MarketInv => InvalidatedNeverPriced
  BY DEF MarketInv, InvalidatedNeverPriced, Market!InvalidatedNeverPriced
<1>. QED BY <1>1, MarketSpec, MarketInit, MarketStep, PTL DEF Market!Spec

\* Comparables: the rows, the imports and the decisions have their types.
LEMMA MarketTypeCorrect == Spec => []Market!TypeOK
<1>1. MarketInv => Market!TypeOK
  <2>. SUFFICES ASSUME MarketInv PROVE Market!TypeOK OBVIOUS
  <2>1. tasked \subseteq Market!There /\ condemned \subseteq Market!There BY DEF MarketInv, Barred
  <2>. QED BY <2>1 DEF MarketInv, Market!TypeOK, ImportRow
<1>. QED BY <1>1, MarketSpec, MarketInit, MarketStep, PTL DEF Market!Spec

-----------------------------------------------------------------------------
(* Media jobs *)

Jobs == 1..Len(mediaJob)

\* What a worker of the media jobs holds.
Processing == [phase : {"idle", "claimed", "deriving", "succeeded", "failed"},
               job : 0..Len(mediaJob), token : Nat]

MediaTypes ==
    /\ media \in Media!MediaStatus \cup {"none"} /\ root \in {"none", "media", "quarantine"}
    /\ mediaJob \in Seq(Media!MediaJob) /\ mediaTry \in Seq(Seq(Media!Attempt))
    /\ Len(mediaTry) = Len(mediaJob)
    /\ results \in BOOLEAN /\ raced \in Nat /\ mediaFaults \in 0..MaxMediaFaults
    /\ uploader \in [MediaClients -> {"idle", "adding", "enqueuing"}]
    /\ mediaWorker \in [MediaWorkers -> Processing]
    /\ mediaReap \subseteq Jobs \X Media!MediaJob

\* A job's attempts are its rows, within the limit; a queued one has one left.
Tallied(j) ==
    /\ mediaJob[j].attempts = Len(mediaTry[j])
    /\ mediaJob[j].attempts <= MediaMaxAttempts + raced
    /\ mediaJob[j].status = "queued" => mediaJob[j].attempts < MediaMaxAttempts + raced
    /\ mediaJob[j].status = "succeeded" => results

\* A worker's attempt says running until the worker itself has ended it.
Attempting(v) ==
    v.phase # "idle" =>
        /\ v.job \in Jobs /\ v.token \in 1..Len(mediaTry[v.job])
        /\ mediaTry[v.job][v.token] = "running"
        /\ v.phase = "succeeded" => results

\* No two workers have the same attempt.
Apart == \A v, w \in MediaWorkers :
    ( /\ v # w /\ mediaWorker[v].phase # "idle" /\ mediaWorker[w].phase # "idle"
      /\ mediaWorker[v].job = mediaWorker[w].job )
    => mediaWorker[v].token # mediaWorker[w].token

ImageTrue ==
    /\ media = "processed" => results
    /\ results => root = "media"
    /\ media = "none" <=> root = "none"

\* Nothing processes an image that has no row.
Begun == media = "none" => /\ Len(mediaJob) = 0
                           /\ \A c \in MediaClients : uploader[c] # "enqueuing"

\* A running attempt that no worker is about to end with a success.
Trace(j, n) ==
    /\ mediaTry[j][n] = "running"
    /\ \A w \in MediaWorkers : mediaWorker[w].phase = "succeeded" =>
          mediaWorker[w].job # j \/ mediaWorker[w].token # n

Traced == media = "processing" => \E j \in Jobs : \E n \in 1..Len(mediaTry[j]) : Trace(j, n)

\* The reaper has loaded a job once.
LoadedOnce == \A r, s \in mediaReap : r[1] = s[1] => r = s

MediaInv ==
    /\ MediaTypes /\ ImageTrue /\ Begun /\ Apart /\ Traced /\ LoadedOnce
    /\ \A j \in Jobs : Tallied(j)
    /\ \A w \in MediaWorkers : Attempting(mediaWorker[w])

\* A behaviour of the services is a behaviour of the media jobs.
LEMMA MediaSpec == Spec => Media!Spec
<1>1. Init => Media!Init BY DEF Init
<1>2. [Next]_vars => [Media!Next]_(Media!vars)
  BY DEF Next, vars, MediaMoves, DomainMoves, StudyMoves, QueueMoves,
         MarketMoves, SchedulerMoves, BrokerMoves, BuyerMoves, ThreadMoves,
         UpkeepMoves, DispatchMoves, ArithmeticMoves, RemoteMoves, ApiMoves,
         mediaVars, Media!vars, Media!client
<1>. QED BY <1>1, <1>2, PTL DEF Spec, Media!Spec

\* Before the first upload there is no image, no job and no attempt.
LEMMA MediaInit == Media!Init => MediaInv
<1>. SUFFICES ASSUME Media!Init PROVE MediaInv OBVIOUS
<1>. USE DEF Media!Init
<1>0. Jobs = {} BY DEF Jobs
<1>1. Media!Idle \in Processing /\ Media!Idle.phase = "idle" BY DEF Media!Idle, Processing
<1>2. /\ mediaWorker \in [MediaWorkers -> Processing]
      /\ \A w \in MediaWorkers : mediaWorker[w].phase = "idle"
  BY <1>1
<1>3. /\ mediaJob \in Seq(Media!MediaJob) /\ mediaTry \in Seq(Seq(Media!Attempt))
      /\ Len(mediaJob) = 0 /\ Len(mediaTry) = 0
  OBVIOUS
<1>4. mediaFaults \in 0..MaxMediaFaults BY MediaAssumption
<1>5. /\ uploader \in [MediaClients -> {"idle", "adding", "enqueuing"}]
      /\ \A c \in MediaClients : uploader[c] # "enqueuing"
  OBVIOUS
<1>6. MediaTypes BY <1>2, <1>3, <1>4, <1>5 DEF MediaTypes
<1>7. ImageTrue /\ Begun BY <1>3, <1>5 DEF ImageTrue, Begun
<1>. QED BY <1>0, <1>2, <1>6, <1>7 DEF MediaInv, Attempting, Apart, Traced, LoadedOnce

\* A step of the image alone.
LEMMA ImageRest ==
  ASSUME MediaInv, UNCHANGED <<mediaJob, mediaTry, mediaWorker, raced, mediaReap, results>>,
         media' \in Media!MediaStatus \cup {"none"}, root' \in {"none", "media", "quarantine"},
         uploader' \in [MediaClients -> {"idle", "adding", "enqueuing"}],
         mediaFaults' = mediaFaults,
         ImageTrue', Begun', media' = "processing" => media = "processing"
  PROVE  MediaInv'
<1>0. Jobs' = Jobs /\ Processing' = Processing BY DEF Jobs, Processing
<1>1. MediaTypes' BY <1>0 DEF MediaInv, MediaTypes
<1>2. Apart' BY DEF MediaInv, Apart
<1>3. Traced' BY <1>0 DEF MediaInv, Traced, Trace
<1>4. LoadedOnce' BY DEF MediaInv, LoadedOnce
<1>5. \A j \in Jobs' : Tallied(j)' BY <1>0 DEF MediaInv, Tallied
<1>6. \A w \in MediaWorkers : Attempting(mediaWorker[w])' BY <1>0 DEF MediaInv, Attempting
<1>. QED BY <1>1, <1>2, <1>3, <1>4, <1>5, <1>6 DEF MediaInv

\* A job is inserted with no attempt.
LEMMA InsertRest ==
  ASSUME MediaInv, Media!InsertJob,
         UNCHANGED <<mediaWorker, raced, mediaReap, results, mediaFaults>>,
         media' \in Media!MediaStatus \cup {"none"}, root' \in {"none", "media", "quarantine"},
         uploader' \in [MediaClients -> {"idle", "adding", "enqueuing"}],
         ImageTrue', media' # "none", media' = "processing" => media = "processing"
  PROVE  MediaInv'
<1>. DEFINE L == Len(mediaJob)
<1>t. /\ mediaJob \in Seq(Media!MediaJob) /\ mediaTry \in Seq(Seq(Media!Attempt))
      /\ Len(mediaTry) = L /\ L \in Nat /\ raced \in Nat
  BY DEF MediaInv, MediaTypes
<1>1. mediaJob' = Append(mediaJob, Media!NewJob) /\ mediaTry' = Append(mediaTry, <<>>)
  BY DEF Media!InsertJob
<1>2. /\ Media!NewJob \in Media!MediaJob /\ Media!NewJob.attempts = 0
      /\ Media!NewJob.status = "queued"
  BY DEF Media!NewJob, Media!MediaJob
<1>3. /\ mediaJob' \in Seq(Media!MediaJob) /\ Len(mediaJob') = L + 1
      /\ mediaJob'[L + 1] = Media!NewJob /\ \A j \in Jobs : mediaJob'[j] = mediaJob[j]
  BY <1>t, <1>1, <1>2 DEF Jobs
<1>4. /\ mediaTry' \in Seq(Seq(Media!Attempt)) /\ Len(mediaTry') = L + 1
      /\ mediaTry'[L + 1] = <<>> /\ \A j \in Jobs : mediaTry'[j] = mediaTry[j]
  BY <1>t, <1>1 DEF Jobs
<1>5. Jobs' = Jobs \cup {L + 1} /\ Processing \subseteq Processing'
  BY <1>t, <1>3 DEF Jobs, Processing
<1>6. MediaTypes' BY <1>3, <1>4, <1>5 DEF MediaInv, MediaTypes
<1>7. Apart' /\ Begun' BY DEF MediaInv, Apart, Begun
<1>8. Traced'
  <2>. SUFFICES ASSUME media = "processing"
                PROVE  \E j \in Jobs' : \E n \in 1..Len(mediaTry'[j]) : Trace(j, n)'
    BY DEF Traced
  <2>1. PICK j \in Jobs : \E n \in 1..Len(mediaTry[j]) : Trace(j, n) BY DEF MediaInv, Traced
  <2>2. PICK n \in 1..Len(mediaTry[j]) : Trace(j, n) BY <2>1
  <2>3. mediaTry'[j] = mediaTry[j] /\ j \in Jobs' BY <1>4, <1>5
  <2>4. Trace(j, n)' BY <2>2, <2>3 DEF Trace
  <2>. QED BY <2>3, <2>4
<1>9. LoadedOnce' BY DEF MediaInv, LoadedOnce
<1>10. ASSUME NEW j \in Jobs' PROVE Tallied(j)'
  <2>1. CASE j = L + 1 BY <1>t, <1>2, <1>3, <1>4, <2>1, MediaAssumption DEF Tallied
  <2>2. CASE j \in Jobs BY <1>3, <1>4, <2>2 DEF MediaInv, Tallied
  <2>. QED BY <1>5, <2>1, <2>2
<1>11. ASSUME NEW w \in MediaWorkers PROVE Attempting(mediaWorker[w])'
  <2>1. Attempting(mediaWorker[w]) BY DEF MediaInv
  <2>. QED BY <1>4, <1>5, <2>1 DEF Attempting
<1>. QED BY <1>6, <1>7, <1>8, <1>9, <1>10, <1>11 DEF MediaInv

\* The clients of the image.
LEMMA ClientStep ==
  ASSUME MediaInv,
         \/ \E c \in MediaClients : \/ Media!Upload(c) \/ Media!Register(c)
                                    \/ Media!Enqueue(c) \/ Media!InsertEnqueued(c)
         \/ Media!Archive
  PROVE  MediaInv'
<1>t. /\ uploader \in [MediaClients -> {"idle", "adding", "enqueuing"}]
      /\ media \in Media!MediaStatus \cup {"none"} /\ root \in {"none", "media", "quarantine"}
      /\ {"validated", "quarantined", "archived"} \subseteq Media!MediaStatus
      /\ "none" \notin Media!MediaStatus
  BY DEF MediaInv, MediaTypes, Media!MediaStatus
<1>i. ImageTrue /\ Begun BY DEF MediaInv
<1>1. CASE Media!Archive
  <2>1. /\ UNCHANGED <<mediaJob, mediaTry, mediaWorker, raced, mediaReap, results, mediaFaults,
                       root, uploader>>
        /\ media # "none" /\ media' = "archived"
    BY <1>1 DEF Media!Archive
  <2>2. ImageTrue' /\ Begun' BY <1>i, <2>1 DEF ImageTrue, Begun
  <2>. QED BY <1>t, <2>1, <2>2, ImageRest
<1>2. ASSUME NEW c \in MediaClients, Media!Upload(c) \/ Media!Enqueue(c) PROVE MediaInv'
  <2>1. /\ UNCHANGED <<mediaJob, mediaTry, mediaWorker, raced, mediaReap, results, mediaFaults,
                       root, media>>
        /\ uploader' \in [MediaClients -> {"idle", "adding", "enqueuing"}]
        /\ \A d \in MediaClients : uploader'[d] = "enqueuing" =>
              uploader[d] = "enqueuing" \/ media # "none"
    BY <1>t, <1>2 DEF Media!Upload, Media!Enqueue
  <2>2. ImageTrue' /\ Begun' BY <1>i, <2>1 DEF ImageTrue, Begun
  <2>. QED BY <1>t, <2>1, <2>2, ImageRest
<1>3. ASSUME NEW c \in MediaClients, Media!InsertEnqueued(c) PROVE MediaInv'
  <2>1. /\ UNCHANGED <<mediaWorker, raced, mediaReap, results, mediaFaults, root, media>>
        /\ uploader' \in [MediaClients -> {"idle", "adding", "enqueuing"}]
        /\ Media!InsertJob /\ uploader[c] = "enqueuing"
    BY <1>t, <1>3 DEF Media!InsertEnqueued
  <2>2. ImageTrue' /\ media' # "none" BY <1>i, <2>1 DEF ImageTrue, Begun
  <2>. QED BY <1>t, <2>1, <2>2, InsertRest
<1>4. ASSUME NEW c \in MediaClients, Media!Register(c) PROVE MediaInv'
  <2>1. /\ UNCHANGED <<mediaWorker, raced, mediaReap, results, mediaFaults>>
        /\ uploader' \in [MediaClients -> {"idle", "adding", "enqueuing"}]
        /\ \A d \in MediaClients : uploader'[d] = "enqueuing" => uploader[d] = "enqueuing"
    BY <1>t, <1>4 DEF Media!Register
  <2>2. CASE UNCHANGED <<media, root, mediaJob, mediaTry>>
    <3>1. ImageTrue' /\ Begun' BY <1>i, <2>1, <2>2 DEF ImageTrue, Begun
    <3>. QED BY <1>t, <2>1, <2>2, <3>1, ImageRest
  <2>3. CASE /\ media = "none" /\ media' = "validated" /\ root' = "media" /\ Media!InsertJob
    <3>1. ImageTrue' BY <1>i, <2>1, <2>3 DEF ImageTrue
    <3>. QED BY <1>t, <2>1, <2>3, <3>1, InsertRest
  <2>4. CASE /\ media = "none" /\ media' = "quarantined" /\ root' = "quarantine"
             /\ UNCHANGED <<mediaJob, mediaTry>>
    <3>1. ImageTrue' /\ Begun' BY <1>i, <2>1, <2>4 DEF ImageTrue, Begun
    <3>. QED BY <1>t, <2>1, <2>4, <3>1, ImageRest
  <2>. QED BY <1>4, <2>2, <2>3, <2>4 DEF Media!Register
<1>. QED BY <1>1, <1>2, <1>3, <1>4

\* A queued job is claimed: its worker gets an attempt nobody else has.
LEMMA ClaimStep ==
  ASSUME MediaInv, NEW w \in MediaWorkers, Media!Claim(w)
  PROVE  MediaInv'
<1>. DEFINE L == Len(mediaJob)
<1>t. /\ mediaJob \in Seq(Media!MediaJob) /\ mediaTry \in Seq(Seq(Media!Attempt))
      /\ Len(mediaTry) = L /\ L \in Nat /\ raced \in Nat
      /\ mediaWorker \in [MediaWorkers -> Processing]
      /\ DOMAIN mediaJob = Jobs /\ DOMAIN mediaTry = Jobs
  BY DEF MediaInv, MediaTypes, Jobs
<1>c. PICK j \in Jobs : \E n :
        /\ n = mediaJob[j].attempts + 1 /\ mediaJob[j].status = "queued"
        /\ mediaJob' = [mediaJob EXCEPT ![j] =
              [status |-> "running", attempts |-> n, token |-> n, expired |-> FALSE]]
        /\ mediaTry' = [mediaTry EXCEPT ![j] = Append(mediaTry[j], "running")]
        /\ mediaWorker' = [mediaWorker EXCEPT ![w] = [phase |-> "claimed", job |-> j, token |-> n]]
  BY <1>t DEF Media!Claim
<1>1. PICK n :
        /\ n = mediaJob[j].attempts + 1 /\ mediaJob[j].status = "queued"
        /\ mediaJob' = [mediaJob EXCEPT ![j] =
              [status |-> "running", attempts |-> n, token |-> n, expired |-> FALSE]]
        /\ mediaTry' = [mediaTry EXCEPT ![j] = Append(mediaTry[j], "running")]
        /\ mediaWorker' = [mediaWorker EXCEPT ![w] = [phase |-> "claimed", job |-> j, token |-> n]]
  BY <1>c
<1>2. /\ mediaWorker[w].phase = "idle"
      /\ UNCHANGED <<media, root, uploader, results, mediaReap, raced, mediaFaults>>
  BY DEF Media!Claim, Media!client
<1>j. mediaJob[j] \in Media!MediaJob /\ mediaTry[j] \in Seq(Media!Attempt) BY <1>t
<1>3. /\ n \in Nat /\ n = Len(mediaTry[j]) + 1 /\ n <= MediaMaxAttempts + raced
      /\ Len(mediaTry[j]) \in Nat
  <2>1. Tallied(j) BY DEF MediaInv
  <2>2. mediaJob[j].attempts \in Nat BY <1>j DEF Media!MediaJob
  <2>. QED BY <1>t, <1>j, <1>1, <2>1, <2>2, MediaAssumption DEF Tallied
<1>. PICK row : row = [status |-> "running", attempts |-> n, token |-> n, expired |-> FALSE]
  OBVIOUS
<1>4. row \in Media!MediaJob /\ row.status = "running" /\ row.attempts = n
  BY <1>3 DEF Media!MediaJob
<1>. PICK tries : tries = Append(mediaTry[j], "running") OBVIOUS
<1>5. /\ tries \in Seq(Media!Attempt) /\ Len(tries) = n /\ tries[n] = "running"
      /\ \A i \in 1..Len(mediaTry[j]) : i \in 1..Len(tries) /\ i # n /\ tries[i] = mediaTry[j][i]
  <2>1. "running" \in Media!Attempt BY DEF Media!Attempt
  <2>. QED BY <1>j, <1>3, <2>1
<1>. PICK v : v = [phase |-> "claimed", job |-> j, token |-> n] OBVIOUS
<1>6. v \in Processing /\ v.phase = "claimed" /\ v.job = j /\ v.token = n
  BY <1>t, <1>3 DEF Processing, Jobs
<1>x. /\ mediaJob' = [mediaJob EXCEPT ![j] = row]
      /\ mediaTry' = [mediaTry EXCEPT ![j] = tries]
      /\ mediaWorker' = [mediaWorker EXCEPT ![w] = v]
  BY <1>1
<1>7. /\ mediaJob' \in Seq(Media!MediaJob) /\ Len(mediaJob') = L /\ mediaJob'[j] = row
      /\ \A i \in Jobs \ {j} : mediaJob'[i] = mediaJob[i]
  BY ONLY <1>t, <1>x, <1>4, j \in Jobs
<1>8. /\ mediaTry' \in Seq(Seq(Media!Attempt)) /\ Len(mediaTry') = L /\ mediaTry'[j] = tries
      /\ \A i \in Jobs \ {j} : mediaTry'[i] = mediaTry[i]
  <2>1. tries \in Seq(Media!Attempt) BY <1>5
  <2>2. mediaTry \in Seq(Seq(Media!Attempt)) /\ Len(mediaTry) = L /\ DOMAIN mediaTry = Jobs BY <1>t
  <2>3. mediaTry' = [mediaTry EXCEPT ![j] = tries] BY <1>x
  <2>. QED BY ONLY <2>1, <2>2, <2>3, j \in Jobs
<1>9. /\ mediaWorker' \in [MediaWorkers -> Processing] /\ mediaWorker'[w] = v
      /\ \A u \in MediaWorkers \ {w} : mediaWorker'[u] = mediaWorker[u]
  BY <1>t, <1>x, <1>6
<1>10. Jobs' = Jobs /\ Processing' = Processing BY <1>7 DEF Jobs, Processing
<1>11. MediaTypes' BY <1>2, <1>7, <1>8, <1>9, <1>10 DEF MediaInv, MediaTypes
<1>12. ImageTrue' /\ LoadedOnce' /\ Begun'
  BY <1>2, <1>7 DEF MediaInv, ImageTrue, LoadedOnce, Begun
<1>13. \A u \in MediaWorkers : mediaWorker[u].phase # "idle" /\ mediaWorker[u].job = j =>
                                  mediaWorker[u].token # n
  BY <1>5 DEF MediaInv, Attempting
<1>14. Apart' BY <1>6, <1>9, <1>13 DEF MediaInv, Apart
<1>15. Traced'
  <2>. SUFFICES ASSUME media = "processing"
                PROVE  \E i \in Jobs' : \E m \in 1..Len(mediaTry'[i]) : Trace(i, m)'
    BY <1>2 DEF Traced
  <2>1. PICK i \in Jobs : \E m \in 1..Len(mediaTry[i]) : Trace(i, m) BY DEF MediaInv, Traced
  <2>2. PICK m \in 1..Len(mediaTry[i]) : Trace(i, m) BY <2>1
  <2>3. m \in 1..Len(mediaTry'[i]) /\ mediaTry'[i][m] = mediaTry[i][m]
    <3>1. CASE i = j BY <1>5, <1>8, <3>1
    <3>2. CASE i # j BY <1>8, <3>2
    <3>. QED BY <3>1, <3>2
  <2>4. Trace(i, m)' BY <1>6, <1>9, <2>2, <2>3 DEF Trace
  <2>. QED BY <1>10, <2>3, <2>4
<1>16. ASSUME NEW i \in Jobs' PROVE Tallied(i)'
  <2>1. CASE i = j BY <1>2, <1>3, <1>4, <1>5, <1>7, <1>8, <2>1 DEF Tallied
  <2>2. CASE i # j BY <1>2, <1>7, <1>8, <1>10, <2>2 DEF MediaInv, Tallied
  <2>. QED BY <2>1, <2>2
<1>17. ASSUME NEW u \in MediaWorkers PROVE Attempting(mediaWorker[u])'
  <2>1. CASE u = w BY <1>3, <1>5, <1>6, <1>8, <1>9, <1>10, <2>1 DEF Attempting
  <2>2. CASE u # w
    <3>1. PICK q : q = mediaWorker[u] OBVIOUS
    <3>2. mediaWorker'[u] = q /\ Attempting(q) BY <1>9, <2>2, <3>1 DEF MediaInv
    <3>3. CASE q.job = j BY <1>2, <1>5, <1>8, <1>10, <3>2, <3>3 DEF Attempting
    <3>4. CASE q.job # j BY <1>2, <1>8, <1>10, <3>2, <3>4 DEF Attempting
    <3>. QED BY <3>3, <3>4
  <2>. QED BY <2>1, <2>2
<1>. QED BY <1>11, <1>12, <1>14, <1>15, <1>16, <1>17 DEF MediaInv

\* A worker goes on with its attempt, or lets it go as it is.
LEMMA WorkerRest ==
  ASSUME MediaInv, NEW w \in MediaWorkers, NEW q \in Processing,
         mediaWorker' = [mediaWorker EXCEPT ![w] = q],
         UNCHANGED <<root, uploader, mediaJob, mediaTry, raced, mediaReap>>,
         mediaFaults' \in 0..MaxMediaFaults,
         q.phase = "idle" \/ (/\ mediaWorker[w].phase # "idle"
                              /\ q.job = mediaWorker[w].job /\ q.token = mediaWorker[w].token),
         media' \in Media!MediaStatus \cup {"none"}, results' \in BOOLEAN, results => results',
         ImageTrue', media' = "none" => media = "none", q.phase = "succeeded" => results' /\ media' # "processing",
         media' = "processing" =>
             \/ media = "processing"
             \/ q.phase # "idle" /\ q.phase # "succeeded"
  PROVE  MediaInv'
<1>t. mediaWorker \in [MediaWorkers -> Processing] BY DEF MediaInv, MediaTypes
<1>0. Jobs' = Jobs /\ Processing' = Processing BY DEF Jobs, Processing
<1>1. /\ mediaWorker' \in [MediaWorkers -> Processing] /\ mediaWorker'[w] = q
      /\ \A u \in MediaWorkers \ {w} : mediaWorker'[u] = mediaWorker[u]
  BY <1>t
<1>2. MediaTypes' BY <1>0, <1>1 DEF MediaInv, MediaTypes
<1>3. Apart' BY <1>1 DEF MediaInv, Apart
<1>4. LoadedOnce' /\ Begun' BY DEF MediaInv, LoadedOnce, Begun
<1>5. \A j \in Jobs' : Tallied(j)' BY <1>0 DEF MediaInv, Tallied
<1>6. ASSUME NEW u \in MediaWorkers PROVE Attempting(mediaWorker[u])'
  <2>1. Attempting(mediaWorker[u]) /\ Attempting(mediaWorker[w]) BY DEF MediaInv
  <2>2. CASE u = w BY <1>0, <1>1, <2>1, <2>2 DEF Attempting
  <2>3. CASE u # w BY <1>0, <1>1, <2>1, <2>3 DEF Attempting
  <2>. QED BY <2>2, <2>3
<1>7. Traced'
  <2>. SUFFICES ASSUME media' = "processing"
                PROVE  \E j \in Jobs : \E n \in 1..Len(mediaTry[j]) : Trace(j, n)'
    BY <1>0 DEF Traced
  <2>0. q.phase # "succeeded" OBVIOUS
  <2>1. CASE media = "processing"
    <3>1. PICK j \in Jobs : \E n \in 1..Len(mediaTry[j]) : Trace(j, n)
      BY <2>1 DEF MediaInv, Traced
    <3>2. PICK n \in 1..Len(mediaTry[j]) : Trace(j, n) BY <3>1
    <3>3. Trace(j, n)' BY <1>1, <2>0, <3>2 DEF Trace
    <3>. QED BY <3>3
  <2>2. CASE q.phase # "idle" /\ media # "processing"
    <3>1. PICK j : j = q.job OBVIOUS
    <3>2. PICK n : n = q.token OBVIOUS
    <3>3. /\ j \in Jobs /\ n \in 1..Len(mediaTry[j]) /\ mediaTry[j][n] = "running"
          /\ mediaWorker[w].phase # "idle" /\ mediaWorker[w].job = j /\ mediaWorker[w].token = n
      BY <2>2, <3>1, <3>2 DEF MediaInv, Attempting
    <3>4. ASSUME NEW u \in MediaWorkers, mediaWorker'[u].phase = "succeeded"
          PROVE  mediaWorker'[u].job # j \/ mediaWorker'[u].token # n
      <4>1. u # w BY <1>1, <2>0, <3>4
      <4>2. mediaWorker'[u] = mediaWorker[u] BY <1>1, <4>1
      <4>. QED BY <3>3, <3>4, <4>1, <4>2 DEF MediaInv, Apart
    <3>5. Trace(j, n)' BY <3>3, <3>4 DEF Trace
    <3>. QED BY <3>3, <3>5
  <2>. QED BY <2>1, <2>2
<1>. QED BY <1>2, <1>3, <1>4, <1>5, <1>6, <1>7 DEF MediaInv

\* A worker that is done has no attempt.
LEMMA WorkerIdle ==
  ASSUME Len(mediaJob) \in Nat
  PROVE  Media!Idle \in Processing /\ Media!Idle.phase = "idle"
  BY DEF Media!Idle, Processing

\* The processing of the image.
LEMMA ProcessStep ==
  ASSUME MediaInv, NEW w \in MediaWorkers,
         \/ Media!Begin(w) \/ Media!Produce(w) \/ Media!ProcessRaises(w) \/ Media!WorkerDies(w)
  PROVE  MediaInv'
<1>t. /\ mediaWorker \in [MediaWorkers -> Processing] /\ mediaWorker[w] \in Processing
      /\ media \in Media!MediaStatus \cup {"none"} /\ results \in BOOLEAN
      /\ {"processing", "processed"} \subseteq Media!MediaStatus
      /\ mediaFaults \in 0..MaxMediaFaults /\ Len(mediaJob) \in Nat
  BY DEF MediaInv, MediaTypes, Media!MediaStatus
<1>i. ImageTrue BY DEF MediaInv
<1>1. ASSUME NEW phase \in {"deriving", "succeeded", "failed"}, mediaWorker[w].phase # "idle",
             mediaWorker' = [mediaWorker EXCEPT ![w].phase = phase],
             UNCHANGED <<root, uploader, mediaJob, mediaTry, raced, mediaReap, mediaFaults>>,
             media' \in Media!MediaStatus \cup {"none"}, results' \in BOOLEAN,
             results => results', ImageTrue', media' = "none" => media = "none",
             phase = "succeeded" => results' /\ media' # "processing",
             media' = "processing" => media = "processing" \/ phase # "succeeded"
      PROVE  MediaInv'
  <2>1. PICK q : q = [mediaWorker[w] EXCEPT !.phase = phase] OBVIOUS
  <2>2. /\ q \in Processing /\ q.phase = phase /\ q.job = mediaWorker[w].job
        /\ q.token = mediaWorker[w].token
    BY <1>t, <2>1 DEF Processing
  <2>3. mediaWorker' = [mediaWorker EXCEPT ![w] = q] BY <1>t, <1>1, <2>1
  <2>4. mediaFaults' \in 0..MaxMediaFaults BY <1>t, <1>1
  <2>. QED BY <1>1, <2>2, <2>3, <2>4, WorkerRest
<1>2. CASE Media!Begin(w)
  <2>1. /\ mediaWorker[w].phase = "claimed" /\ results' = results
        /\ UNCHANGED <<root, uploader, mediaJob, mediaTry, raced, mediaReap, mediaFaults>>
    BY <1>2 DEF Media!Begin
  <2>2. CASE media = "processed"
    <3>1. /\ mediaWorker' = [mediaWorker EXCEPT ![w].phase = "succeeded"] /\ media' = media
      BY <1>2, <2>2 DEF Media!Begin
    <3>2. ImageTrue' /\ results BY <1>i, <2>1, <2>2, <3>1 DEF ImageTrue
    <3>. QED BY <1>t, <1>1, <2>1, <2>2, <3>1, <3>2
  <2>3. CASE media # "processed"
    <3>1. /\ mediaWorker' = [mediaWorker EXCEPT ![w].phase = "deriving"] /\ media' = "processing"
      BY <1>2, <2>3 DEF Media!Begin
    <3>n. media # "none"
      <4>1. mediaWorker[w].job \in 1..Len(mediaJob) BY <2>1 DEF MediaInv, Attempting, Jobs
      <4>. QED BY <1>t, <4>1 DEF MediaInv, Begun
    <3>2. ImageTrue' BY <1>i, <2>1, <2>3, <3>1, <3>n DEF ImageTrue
    <3>. QED BY <1>t, <1>1, <2>1, <2>3, <3>1, <3>2
  <2>. QED BY <2>2, <2>3
<1>3. CASE Media!Produce(w)
  <2>1. /\ mediaWorker[w].phase = "deriving" /\ results' = TRUE /\ media' = "processed"
        /\ mediaWorker' = [mediaWorker EXCEPT ![w].phase = "succeeded"] /\ root = "media"
        /\ UNCHANGED <<root, uploader, mediaJob, mediaTry, raced, mediaReap, mediaFaults>>
    BY <1>3 DEF Media!Produce, Media!Readable
  <2>2. ImageTrue' BY <2>1 DEF ImageTrue
  <2>. QED BY <1>t, <1>1, <2>1, <2>2
<1>4. CASE Media!ProcessRaises(w)
  <2>1. /\ mediaWorker[w].phase # "idle" /\ results' = results /\ media' = media
        /\ mediaWorker' = [mediaWorker EXCEPT ![w].phase = "failed"]
        /\ UNCHANGED <<root, uploader, mediaJob, mediaTry, raced, mediaReap, mediaFaults>>
    BY <1>4 DEF Media!ProcessRaises, Media!client
  <2>2. ImageTrue' BY <1>i, <2>1 DEF ImageTrue
  <2>. QED BY <1>t, <1>1, <2>1, <2>2
<1>5. CASE Media!WorkerDies(w)
  <2>1. /\ results' = results /\ media' = media
        /\ mediaWorker' = [mediaWorker EXCEPT ![w] = Media!Idle]
        /\ UNCHANGED <<root, uploader, mediaJob, mediaTry, raced, mediaReap>>
        /\ mediaFaults < MaxMediaFaults /\ mediaFaults' = mediaFaults + 1
    BY <1>5 DEF Media!WorkerDies, Media!client
  <2>2. ImageTrue' BY <1>i, <2>1 DEF ImageTrue
  <2>3. mediaFaults' \in 0..MaxMediaFaults BY <1>t, <2>1, MediaAssumption
  <2>. QED BY <1>t, <2>1, <2>2, <2>3, WorkerIdle, WorkerRest
<1>. QED BY <1>2, <1>3, <1>4, <1>5

\* A worker that holds the lease ends its attempt, and nobody else's.
LEMMA FinishRest ==
  ASSUME MediaInv, NEW w \in MediaWorkers, mediaWorker[w].phase # "idle",
         NEW status \in {"succeeded", "failed", "queued"}, NEW attempt \in {"succeeded", "failed"},
         Media!Finish(w, status, attempt), mediaWorker' = [mediaWorker EXCEPT ![w] = Media!Idle],
         UNCHANGED <<root, uploader, results, mediaReap, raced, mediaFaults>>,
         status = "succeeded" => results,
         status = "queued" => mediaJob[mediaWorker[w].job].attempts < MediaMaxAttempts,
         media' \in Media!MediaStatus \cup {"none"}, ImageTrue', media' = "none" => media = "none",
         media' = "processing" => media = "processing" /\ mediaWorker[w].phase = "succeeded"
  PROVE  MediaInv'
<1>. DEFINE L == Len(mediaJob)
<1>t. /\ mediaJob \in Seq(Media!MediaJob) /\ mediaTry \in Seq(Seq(Media!Attempt))
      /\ Len(mediaTry) = L /\ L \in Nat /\ raced \in Nat
      /\ mediaWorker \in [MediaWorkers -> Processing]
      /\ DOMAIN mediaJob = Jobs /\ DOMAIN mediaTry = Jobs
  BY DEF MediaInv, MediaTypes, Jobs
<1>1. PICK j : j = mediaWorker[w].job OBVIOUS
<1>2. PICK n : n = mediaWorker[w].token OBVIOUS
<1>3. j \in Jobs /\ n \in 1..Len(mediaTry[j]) BY <1>1, <1>2 DEF MediaInv, Attempting
<1>j. mediaJob[j] \in Media!MediaJob /\ mediaTry[j] \in Seq(Media!Attempt) BY <1>t, <1>3
<1>. PICK row : row = [mediaJob[j] EXCEPT !.status = status, !.token = 0, !.expired = FALSE]
  OBVIOUS
<1>4. row \in Media!MediaJob /\ row.status = status /\ row.attempts = mediaJob[j].attempts
  BY <1>j DEF Media!MediaJob
<1>. PICK tries : tries = [mediaTry[j] EXCEPT ![n] = attempt] OBVIOUS
<1>5. /\ tries \in Seq(Media!Attempt) /\ Len(tries) = Len(mediaTry[j])
      /\ \A i \in 1..Len(mediaTry[j]) : i # n => tries[i] = mediaTry[j][i]
  <2>1. attempt \in Media!Attempt BY DEF Media!Attempt
  <2>. QED BY <1>j, <1>3, <2>1
<1>6. mediaJob' = [mediaJob EXCEPT ![j] = row]
  <2>1. mediaJob' = [mediaJob EXCEPT ![j].status = status, ![j].token = 0, ![j].expired = FALSE]
    BY <1>1 DEF Media!Finish
  <2>2. mediaJob'[j] = row BY <1>t, <1>3, <1>j, <2>1 DEF Media!MediaJob
  <2>3. mediaJob' = [i \in Jobs |-> IF i = j THEN mediaJob'[j] ELSE mediaJob[i]]
    BY <1>t, <1>3, <2>1
  <2>. QED BY <1>t, <1>3, <2>2, <2>3
<1>7. mediaTry' = [mediaTry EXCEPT ![j] = tries]
  BY <1>t, <1>1, <1>2, <1>3 DEF Media!Finish
<1>8. /\ mediaJob' \in Seq(Media!MediaJob) /\ Len(mediaJob') = L /\ mediaJob'[j] = row
      /\ \A i \in Jobs \ {j} : mediaJob'[i] = mediaJob[i]
  BY ONLY <1>t, <1>3, <1>4, <1>6
<1>9. /\ mediaTry' \in Seq(Seq(Media!Attempt)) /\ Len(mediaTry') = L /\ mediaTry'[j] = tries
      /\ \A i \in Jobs \ {j} : mediaTry'[i] = mediaTry[i]
  BY ONLY <1>t, <1>3, <1>5, <1>7
<1>10. Jobs' = Jobs /\ Processing' = Processing BY <1>8 DEF Jobs, Processing
<1>11. /\ mediaWorker' \in [MediaWorkers -> Processing] /\ mediaWorker'[w].phase = "idle"
       /\ \A u \in MediaWorkers \ {w} : mediaWorker'[u] = mediaWorker[u]
  BY <1>t, WorkerIdle
<1>12. MediaTypes' BY <1>8, <1>9, <1>10, <1>11 DEF MediaInv, MediaTypes
<1>13. Apart' /\ LoadedOnce' BY <1>11 DEF MediaInv, Apart, LoadedOnce
<1>b. Begun' BY <1>8 DEF MediaInv, Begun
<1>14. ASSUME NEW i \in Jobs, NEW m \in 1..Len(mediaTry[i]), i # j \/ m # n
       PROVE  m \in 1..Len(mediaTry'[i]) /\ mediaTry'[i][m] = mediaTry[i][m]
  <2>1. CASE i = j BY <1>5, <1>9, <1>14, <2>1
  <2>2. CASE i # j BY <1>9, <2>2
  <2>. QED BY <2>1, <2>2
<1>15. Traced'
  <2>. SUFFICES ASSUME media' = "processing"
                PROVE  \E i \in Jobs : \E m \in 1..Len(mediaTry'[i]) : Trace(i, m)'
    BY <1>10 DEF Traced
  <2>1. PICK i \in Jobs : \E m \in 1..Len(mediaTry[i]) : Trace(i, m) BY DEF MediaInv, Traced
  <2>2. PICK m \in 1..Len(mediaTry[i]) : Trace(i, m) BY <2>1
  <2>3. i # j \/ m # n BY <1>1, <1>2, <2>2 DEF Trace
  <2>4. m \in 1..Len(mediaTry'[i]) /\ mediaTry'[i][m] = mediaTry[i][m] BY <1>14, <2>3
  <2>5. Trace(i, m)' BY <1>11, <2>2, <2>4 DEF Trace
  <2>. QED BY <2>4, <2>5
<1>16. ASSUME NEW i \in Jobs' PROVE Tallied(i)'
  <2>1. CASE i = j
    <3>1. Tallied(j) BY <1>3 DEF MediaInv
    <3>2. mediaJob[j].attempts \in Nat BY <1>j DEF Media!MediaJob
    <3>3. status = "queued" => row.attempts < MediaMaxAttempts + raced
      BY <1>t, <1>1, <1>4, <3>2, MediaAssumption
    <3>. QED BY <1>4, <1>5, <1>8, <1>9, <2>1, <3>1, <3>3 DEF Tallied
  <2>2. CASE i # j BY <1>8, <1>9, <1>10, <2>2 DEF MediaInv, Tallied
  <2>. QED BY <2>1, <2>2
<1>17. ASSUME NEW u \in MediaWorkers PROVE Attempting(mediaWorker[u])'
  <2>1. CASE u = w BY <1>11, <2>1 DEF Attempting
  <2>2. CASE u # w
    <3>1. PICK q : q = mediaWorker[u] OBVIOUS
    <3>2. mediaWorker'[u] = q /\ Attempting(q) BY <1>11, <2>2, <3>1 DEF MediaInv
    <3>3. q.phase # "idle" => q.job # j \/ q.token # n
      BY <1>1, <1>2, <2>2, <3>1 DEF MediaInv, Apart
    <3>4. q.phase # "idle" => /\ q.job \in Jobs /\ q.token \in 1..Len(mediaTry'[q.job])
                              /\ mediaTry'[q.job][q.token] = "running"
      BY <1>14, <3>2, <3>3 DEF Attempting
    <3>. QED BY <1>10, <3>2, <3>4 DEF Attempting
  <2>. QED BY <2>1, <2>2
<1>. QED BY <1>12, <1>13, <1>b, <1>15, <1>16, <1>17 DEF MediaInv

\* The outcome of an attempt is stored by a worker that still holds the lease.
LEMMA OutcomeStep ==
  ASSUME MediaInv, NEW w \in MediaWorkers, Media!StoreSuccess(w) \/ Media!StoreFailure(w)
  PROVE  MediaInv'
<1>t. /\ media \in Media!MediaStatus \cup {"none"} /\ results \in BOOLEAN
      /\ "failed" \in Media!MediaStatus /\ Len(mediaJob) \in Nat
      /\ mediaFaults \in 0..MaxMediaFaults
  BY DEF MediaInv, MediaTypes, Media!MediaStatus
<1>i. ImageTrue BY DEF MediaInv
<1>1. /\ mediaWorker[w].phase \in {"succeeded", "failed"}
      /\ mediaWorker' = [mediaWorker EXCEPT ![w] = Media!Idle]
      /\ UNCHANGED <<root, uploader, results, mediaReap, raced, mediaFaults>>
  BY DEF Media!StoreSuccess, Media!StoreFailure, Media!client
<1>2. CASE UNCHANGED <<media, mediaJob, mediaTry>>
  <2>1. ImageTrue' BY <1>i, <1>1, <1>2 DEF ImageTrue
  <2>2. mediaFaults' \in 0..MaxMediaFaults BY <1>t, <1>1
  <2>. QED BY <1>t, <1>1, <1>2, <2>1, <2>2, WorkerIdle, WorkerRest
<1>3. CASE Media!StoreSuccess(w) /\ Media!HoldsLease(w)
  <2>1. /\ Media!Finish(w, "succeeded", "succeeded") /\ media' = media
        /\ mediaWorker[w].phase = "succeeded"
    BY <1>3 DEF Media!StoreSuccess, Media!client
  <2>2. ImageTrue' BY <1>i, <1>1, <2>1 DEF ImageTrue
  <2>3. results BY <2>1 DEF MediaInv, Attempting
  <2>. QED BY <1>t, <1>1, <2>1, <2>2, <2>3, FinishRest
<1>4. CASE Media!StoreFailure(w) /\ Media!HoldsLease(w)
  <2>1. PICK status : status = Media!AfterFailure(mediaJob[mediaWorker[w].job].attempts) OBVIOUS
  <2>2. /\ Media!Finish(w, status, "failed")
        /\ media' = IF media = "processing" THEN "failed" ELSE media
        /\ mediaWorker[w].phase # "idle"
    BY <1>4, <2>1 DEF Media!StoreFailure
  <2>3. ImageTrue' BY <1>i, <1>1, <2>2 DEF ImageTrue
  <2>4. /\ status \in {"failed", "queued"}
        /\ status = "queued" => ~(mediaJob[mediaWorker[w].job].attempts >= MediaMaxAttempts)
    BY <2>1 DEF Media!AfterFailure
  <2>5. mediaJob[mediaWorker[w].job].attempts \in Nat
    <3>1. mediaWorker[w].job \in Jobs BY <2>2 DEF MediaInv, Attempting
    <3>2. mediaJob[mediaWorker[w].job] \in Media!MediaJob BY <3>1 DEF MediaInv, MediaTypes, Jobs
    <3>. QED BY <3>2 DEF Media!MediaJob
  <2>6. status = "queued" => mediaJob[mediaWorker[w].job].attempts < MediaMaxAttempts
    BY <2>4, <2>5, MediaAssumption
  <2>. QED BY <1>t, <1>1, <2>2, <2>3, <2>4, <2>6, FinishRest
<1>. QED BY <1>2, <1>3, <1>4 DEF Media!StoreSuccess, Media!StoreFailure, Media!client

\* The rows of the jobs change, none of them to a success, and with them the
\* reaper: the attempts stay.
LEMMA RowsRest ==
  ASSUME MediaInv,
         UNCHANGED <<media, root, uploader, mediaTry, results, mediaWorker>>,
         mediaJob' \in Seq(Media!MediaJob), Len(mediaJob') = Len(mediaJob),
         \A j \in Jobs :
            /\ mediaJob'[j].attempts = mediaJob[j].attempts
            /\ mediaJob'[j].status = "queued" => mediaJob'[j].attempts < MediaMaxAttempts + raced'
            /\ mediaJob'[j].status = "succeeded" => mediaJob[j].status = "succeeded",
         raced' \in Nat, raced <= raced', mediaFaults' \in 0..MaxMediaFaults,
         mediaReap' \subseteq Jobs \X Media!MediaJob, LoadedOnce'
  PROVE  MediaInv'
<1>t. /\ mediaJob \in Seq(Media!MediaJob) /\ raced \in Nat BY DEF MediaInv, MediaTypes
<1>0. Jobs' = Jobs /\ Processing' = Processing BY DEF Jobs, Processing
<1>1. MediaTypes' BY <1>0 DEF MediaInv, MediaTypes
<1>2. Apart' /\ ImageTrue' /\ Begun' BY DEF MediaInv, Apart, ImageTrue, Begun
<1>3. Traced' BY <1>0 DEF MediaInv, Traced, Trace
<1>4. ASSUME NEW j \in Jobs' PROVE Tallied(j)'
  <2>1. Tallied(j) /\ j \in Jobs BY <1>0 DEF MediaInv
  <2>2. mediaJob[j] \in Media!MediaJob BY <1>t, <2>1 DEF Jobs
  <2>3. mediaJob[j].attempts \in Nat BY <2>2 DEF Media!MediaJob
  <2>4. mediaJob'[j].attempts <= MediaMaxAttempts + raced'
    BY <1>t, <2>1, <2>3, MediaAssumption DEF Tallied
  <2>. QED BY <2>1, <2>4 DEF Tallied
<1>5. \A w \in MediaWorkers : Attempting(mediaWorker[w])' BY <1>0 DEF MediaInv, Attempting
<1>. QED BY <1>1, <1>2, <1>3, <1>4, <1>5 DEF MediaInv

\* A lease expires, and the reaper loads the jobs and writes them back.
LEMMA ReaperStep ==
  ASSUME MediaInv,
         \/ \E j \in DOMAIN mediaJob : Media!LeaseExpires(j)
         \/ Media!ReapLoad \/ Media!ReapWrite
  PROVE  MediaInv'
<1>t. /\ mediaJob \in Seq(Media!MediaJob) /\ DOMAIN mediaJob = Jobs /\ raced \in Nat
      /\ \A j \in Jobs : mediaJob[j] \in Media!MediaJob
      /\ mediaReap \subseteq Jobs \X Media!MediaJob /\ mediaFaults \in 0..MaxMediaFaults
      /\ Len(mediaJob) \in Nat
  BY DEF MediaInv, MediaTypes, Jobs
<1>a. ASSUME NEW j \in Jobs
      PROVE  /\ mediaJob[j].attempts \in Nat /\ mediaJob[j].attempts <= MediaMaxAttempts + raced
             /\ mediaJob[j].status = "queued" => mediaJob[j].attempts < MediaMaxAttempts + raced
  BY <1>t DEF MediaInv, Tallied, Media!MediaJob
<1>1. ASSUME NEW j \in Jobs, Media!LeaseExpires(j) PROVE MediaInv'
  <2>1. /\ mediaJob' = [mediaJob EXCEPT ![j].expired = TRUE] /\ mediaJob[j].status = "running"
        /\ UNCHANGED <<media, root, uploader, mediaTry, results, mediaWorker, mediaReap, raced,
                       mediaFaults>>
    BY <1>1 DEF Media!LeaseExpires, Media!client
  <2>2. PICK row : row = [mediaJob[j] EXCEPT !.expired = TRUE] OBVIOUS
  <2>3. /\ row \in Media!MediaJob /\ row.status = "running"
        /\ row.attempts = mediaJob[j].attempts
    BY <1>t, <2>1, <2>2 DEF Media!MediaJob
  <2>4. mediaJob' = [mediaJob EXCEPT ![j] = row] BY <1>t, <2>1, <2>2
  <2>5. /\ mediaJob' \in Seq(Media!MediaJob) /\ Len(mediaJob') = Len(mediaJob)
        /\ mediaJob'[j] = row /\ \A i \in Jobs \ {j} : mediaJob'[i] = mediaJob[i]
    BY <1>t, <2>3, <2>4
  <2>6. LoadedOnce' BY <2>1 DEF MediaInv, LoadedOnce
  <2>7. raced' \in Nat /\ raced <= raced' /\ mediaFaults' \in 0..MaxMediaFaults
    BY <1>t, <2>1
  <2>8. ASSUME NEW i \in Jobs
        PROVE  /\ mediaJob'[i].attempts = mediaJob[i].attempts
               /\ mediaJob'[i].status = "queued" => mediaJob'[i].attempts < MediaMaxAttempts + raced'
               /\ mediaJob'[i].status = "succeeded" => mediaJob[i].status = "succeeded"
    <3>1. CASE i = j BY <2>3, <2>5, <3>1
    <3>2. CASE i # j BY <1>a, <2>1, <2>5, <3>2
    <3>. QED BY <3>1, <3>2
  <2>. QED BY <1>t, <2>1, <2>5, <2>6, <2>7, <2>8, RowsRest
<1>2. CASE Media!ReapLoad
  <2>1. /\ UNCHANGED <<media, root, uploader, mediaJob, mediaTry, results, mediaWorker, raced>>
        /\ mediaFaults < MaxMediaFaults /\ mediaFaults' = mediaFaults + 1
        /\ \A r \in mediaReap' : \E j \in Jobs : r = <<j, mediaJob[j]>>
    BY <1>t, <1>2 DEF Media!ReapLoad, Media!client
  <2>2. mediaReap' \subseteq Jobs \X Media!MediaJob BY <1>t, <2>1
  <2>3. LoadedOnce' BY <2>1 DEF LoadedOnce
  <2>4. mediaFaults' \in 0..MaxMediaFaults BY <1>t, <2>1, MediaAssumption
  <2>5. raced' \in Nat /\ raced <= raced' BY <1>t, <2>1
  <2>6. ASSUME NEW i \in Jobs
        PROVE  /\ mediaJob'[i].attempts = mediaJob[i].attempts
               /\ mediaJob'[i].status = "queued" => mediaJob'[i].attempts < MediaMaxAttempts + raced'
               /\ mediaJob'[i].status = "succeeded" => mediaJob[i].status = "succeeded"
    BY <1>a, <2>1
  <2>. QED BY <1>t, <2>1, <2>2, <2>3, <2>4, <2>5, <2>6, RowsRest
<1>3. CASE Media!ReapWrite
  <2>. DEFINE loaded(j) == CHOOSE r \in mediaReap : r[1] = j
              Reaped(j) == [mediaJob[j] EXCEPT !.status = Media!AfterFailure(loaded(j)[2].attempts),
                                               !.token = 0, !.expired = FALSE]
  <2>1. /\ mediaJob' = [j \in Jobs |->
                          IF \E r \in mediaReap : r[1] = j THEN Reaped(j) ELSE mediaJob[j]]
        /\ raced' = IF \E r \in mediaReap : mediaJob[r[1]] # r[2] THEN raced + 1 ELSE raced
        /\ mediaReap' = {}
        /\ UNCHANGED <<media, root, uploader, mediaTry, results, mediaWorker, mediaFaults>>
    BY <1>t, <1>3 DEF Media!ReapWrite, Media!client
  <2>2. raced' \in Nat /\ raced <= raced' /\ mediaFaults' \in 0..MaxMediaFaults
    <3>1. raced' = raced + 1 \/ raced' = raced BY <2>1
    <3>2. mediaFaults' = mediaFaults BY <2>1
    <3>. QED BY ONLY <1>t, <3>1, <3>2
  <2>3. ASSUME NEW j \in Jobs, \E r \in mediaReap : r[1] = j
        PROVE  /\ Reaped(j) \in Media!MediaJob /\ Reaped(j).attempts = mediaJob[j].attempts
               /\ Reaped(j).status \in {"failed", "queued"}
               /\ Reaped(j).status = "queued" =>
                     Reaped(j).attempts < MediaMaxAttempts + raced'
    <3>1. loaded(j) \in mediaReap /\ loaded(j)[1] = j BY <2>3
    <3>. PICK old : old = loaded(j)[2] OBVIOUS
    <3>2. old \in Media!MediaJob BY <1>t, <3>1
    <3>3. old.attempts \in Nat BY <3>2 DEF Media!MediaJob
    <3>. PICK status : status = Media!AfterFailure(old.attempts) OBVIOUS
    <3>4. /\ status \in {"failed", "queued"}
          /\ status = "queued" => old.attempts < MediaMaxAttempts
      BY <3>3, MediaAssumption DEF Media!AfterFailure
    <3>. PICK row : row = [mediaJob[j] EXCEPT !.status = status, !.token = 0, !.expired = FALSE]
      OBVIOUS
    <3>5. Reaped(j) = row OBVIOUS
    <3>6. /\ row \in Media!MediaJob /\ row.attempts = mediaJob[j].attempts
          /\ row.status = status
      BY <1>t, <3>4 DEF Media!MediaJob
    <3>7. status = "queued" => row.attempts < MediaMaxAttempts + raced'
      <4>1. CASE mediaJob[j] = old
        BY <1>a, <2>2, <3>3, <3>4, <3>6, <4>1, MediaAssumption
      <4>2. CASE mediaJob[j] # old
        <5>1. raced' = raced + 1 BY <2>1, <3>1, <4>2
        <5>. QED BY <1>t, <1>a, <3>6, <5>1, MediaAssumption
      <4>. QED BY <4>1, <4>2
    <3>. HIDE DEF Reaped, loaded
    <3>. QED BY <3>4, <3>5, <3>6, <3>7
  <2>. HIDE DEF Reaped, loaded
  <2>4. ASSUME NEW j \in Jobs
        PROVE  /\ mediaJob'[j] \in Media!MediaJob /\ mediaJob'[j].attempts = mediaJob[j].attempts
               /\ mediaJob'[j].status = "queued" => mediaJob'[j].attempts < MediaMaxAttempts + raced'
               /\ mediaJob'[j].status = "succeeded" => mediaJob[j].status = "succeeded"
    <3>1. CASE \E r \in mediaReap : r[1] = j
      <4>1. mediaJob'[j] = Reaped(j) BY <2>1, <3>1
      <4>. QED BY <2>3, <3>1, <4>1
    <3>2. CASE ~(\E r \in mediaReap : r[1] = j)
      <4>1. mediaJob'[j] = mediaJob[j] BY <2>1, <3>2
      <4>. QED BY <1>t, <1>a, <2>2, <4>1, MediaAssumption
    <3>. QED BY <3>1, <3>2
  <2>5. mediaJob' \in Seq(Media!MediaJob) /\ Len(mediaJob') = Len(mediaJob)
    <3>1. mediaJob' \in [1..Len(mediaJob) -> Media!MediaJob] BY <2>1, <2>4 DEF Jobs
    <3>. QED BY <1>t, <3>1
  <2>6. LoadedOnce' /\ mediaReap' \subseteq Jobs \X Media!MediaJob BY <2>1 DEF LoadedOnce
  <2>. QED BY <2>1, <2>2, <2>4, <2>5, <2>6, RowsRest
<1>. QED BY <1>t, <1>1, <1>2, <1>3

\* Every step of the image's processing keeps the invariant.
LEMMA MediaStep == MediaInv /\ [Media!Next]_(Media!vars) => MediaInv'
<1>. SUFFICES ASSUME MediaInv, [Media!Next]_(Media!vars) PROVE MediaInv' OBVIOUS
<1>1. CASE UNCHANGED Media!vars
  <2>1. UNCHANGED <<mediaJob, mediaTry, mediaWorker, raced, mediaReap, results, media, root,
                    uploader, mediaFaults>>
    BY <1>1 DEF Media!vars, Media!client
  <2>2. ImageTrue' /\ Begun' BY <2>1 DEF MediaInv, ImageTrue, Begun
  <2>. QED BY <2>1, <2>2, ImageRest DEF MediaInv, MediaTypes
<1>2. CASE Media!Next
  BY <1>2, ClientStep, ClaimStep, ProcessStep, OutcomeStep, ReaperStep DEF Media!Next
<1>. QED BY <1>1, <1>2

\* Media: retries are bounded, an image left behind has left a trace, and a
\* success is one.
THEOREM MediaHolds == Spec => []MediaAccounted
<1>1. MediaInv => MediaAccounted
  <2>. SUFFICES ASSUME MediaInv PROVE Media!MediaAccounted BY DEF MediaAccounted
  <2>1. DOMAIN mediaJob = Jobs /\ DOMAIN mediaTry = Jobs BY DEF MediaInv, MediaTypes, Jobs
  <2>2. Media!RetryOverrun BY <2>1 DEF MediaInv, Tallied, Media!RetryOverrun
  <2>3. Media!StrandedLeavesTrace
    <3>. SUFFICES ASSUME media = "processing"
                  PROVE  \E j \in DOMAIN mediaTry : \E n \in DOMAIN mediaTry[j] : mediaTry[j][n] = "running"
      BY DEF Media!StrandedLeavesTrace
    <3>1. PICK j \in Jobs : \E n \in 1..Len(mediaTry[j]) : Trace(j, n) BY DEF MediaInv, Traced
    <3>2. PICK n \in 1..Len(mediaTry[j]) : mediaTry[j][n] = "running" BY <3>1 DEF Trace
    <3>3. mediaTry[j] \in Seq(Media!Attempt) BY <2>1 DEF MediaInv, MediaTypes
    <3>4. n \in DOMAIN mediaTry[j] BY <3>2, <3>3
    <3>. QED BY <2>1, <3>2, <3>4
  <2>4. Media!SucceededIsDerived BY <2>1 DEF MediaInv, Tallied, ImageTrue, Media!SucceededIsDerived
  <2>. QED BY <2>2, <2>3, <2>4 DEF Media!MediaAccounted
<1>. QED BY <1>1, MediaSpec, MediaInit, MediaStep, PTL DEF Media!Spec

\* Media: the image, its jobs, their attempts and the workers have their types.
LEMMA MediaTypeCorrect == Spec => []Media!TypeOK
<1>1. MediaInv => Media!TypeOK
  <2>. SUFFICES ASSUME MediaInv PROVE Media!TypeOK OBVIOUS
  <2>1. DOMAIN mediaJob = Jobs BY DEF MediaInv, MediaTypes, Jobs
  <2>. QED BY <2>1 DEF MediaInv, MediaTypes, Tallied, Media!TypeOK, Processing
<1>. QED BY <1>1, MediaSpec, MediaInit, MediaStep, PTL DEF Media!Spec

-----------------------------------------------------------------------------
(* Drafts and approval proposals *)

Rows == 1..Len(proposal)

DomainTypes ==
    /\ itemVersion \in Nat \ {0} /\ draft \in [status : Domain!DraftStatus, version : Nat]
    /\ snaps = 1..draft.version
    /\ proposal \in Seq(Domain!Proposal) /\ Len(proposal) <= MaxProposals
    /\ applied \in Seq(Nat) /\ Len(applied) = Len(proposal)
    /\ contested \subseteq Rows
    /\ author \in [Authors -> [phase : {"idle", "listing"}, version : Nat]]
    /\ review \in [Reviewers -> [phase : {"idle", "deciding", "executing"},
                                 on : 0..Len(proposal), approve : BOOLEAN, version : Nat]]

\* The draft's version is bounded while it is not approved, and an author who
\* loaded an older version cannot take back an approval.
DraftBounded ==
    /\ draft.status = "none" <=> draft.version = 0
    /\ draft.version <= MaxDraftVersion + 1
    /\ draft.status # "approved" => draft.version <= MaxDraftVersion
    /\ \A a \in Authors : author[a].version <= MaxDraftVersion
    /\ \A a \in Authors : author[a].phase = "listing" =>
         /\ author[a].version < MaxDraftVersion /\ author[a].version <= draft.version
         /\ author[a].version = draft.version => draft.status # "approved"

Executes(r) == review[r].phase = "executing"

\* Who executes a proposal does it alone, with the version it was made for.
ReviewsHold ==
    /\ \A r \in Reviewers : review[r].phase # "idle" => review[r].on > 0
    /\ \A r \in Reviewers : Executes(r) /\ proposal[review[r].on].kind = "listing" =>
         /\ review[r].version = proposal[review[r].on].at
         /\ review[r].version <= draft.version /\ review[r].version <= MaxDraftVersion
    /\ \A r, s \in Reviewers : Executes(r) /\ Executes(s) /\ review[r].on = review[s].on => r = s

\* A change that was made has moved its target past the version it was made for.
MadeOnce ==
    \A p \in Rows :
        /\ applied[p] <= 1
        /\ applied[p] # 0 => /\ proposal[p].kind # "other"
                             /\ Domain!VersionOf(proposal[p].kind) > proposal[p].at

Made == {p \in Rows : applied[p] # 0}

\* Beyond the versions of the authors there is one for each change made.
ItemBounded == itemVersion <= MaxItemVersion + Cardinality(Made)

Reviewed ==
    draft.status = "approved" =>
        \E p \in Rows : /\ proposal[p].kind = "listing" /\ applied[p] = 1
                        /\ draft.version = proposal[p].at + 1

Held(r, p) == review[r].phase # "idle" /\ review[r].on = p

MadeKnown(p) == (applied[p] = 1) <=> (proposal[p].status = "executed" /\ proposal[p].kind # "other")

\* A proposal found pending by one reviewer at a time stays pending until that
\* one has decided it.
Uncontested ==
    \A p \in Rows \ contested :
        /\ MadeKnown(p)
        /\ \A r \in Reviewers : Held(r, p) => proposal[p].status = "pending"
        /\ \A r, s \in Reviewers : Held(r, p) /\ Held(s, p) => r = s

DomainInv == /\ DomainTypes /\ DraftBounded /\ ReviewsHold /\ MadeOnce /\ ItemBounded
             /\ Reviewed /\ Uncontested

\* A behaviour of the services is a behaviour of the proposals.
LEMMA DomainSpec == Spec => Domain!Spec
<1>1. Init => Domain!Init BY DEF Init
<1>2. [Next]_vars => [Domain!Next]_(Domain!vars)
  BY DEF Next, vars, MediaMoves, DomainMoves, StudyMoves, QueueMoves,
         MarketMoves, SchedulerMoves, BrokerMoves, BuyerMoves, ThreadMoves,
         UpkeepMoves, DispatchMoves, ArithmeticMoves, RemoteMoves, ApiMoves,
         domainVars, Domain!vars, Domain!target
<1>. QED BY <1>1, <1>2, PTL DEF Spec, Domain!Spec

\* Before the first proposal there is a draft, its item and no approval.
LEMMA DomainInit == Domain!Init => DomainInv
<1>. SUFFICES ASSUME Domain!Init PROVE DomainInv OBVIOUS
<1>. USE DEF Domain!Init
<1>1. Rows = {} /\ Made = {} /\ Cardinality(Made) = 0 BY FS_EmptySet DEF Rows, Made
<1>2. DomainTypes
  BY ProposalsAssumption DEF DomainTypes, Domain!DraftStatus, Domain!NoAuthor, Domain!NoReview, Rows
<1>3. DraftBounded BY ProposalsAssumption DEF DraftBounded, Domain!NoAuthor
<1>4. ReviewsHold BY DEF ReviewsHold, Executes, Domain!NoReview
<1>5. MadeOnce /\ Reviewed /\ Uncontested BY <1>1 DEF MadeOnce, Reviewed, Uncontested
<1>6. ItemBounded BY <1>1, ProposalsAssumption DEF ItemBounded
<1>. QED BY <1>2, <1>3, <1>4, <1>5, <1>6 DEF DomainInv

\* Rows keep what was proposed; versions only grow.
Onwards ==
    /\ Len(proposal) <= Len(proposal')
    /\ \A p \in Rows : proposal'[p].kind = proposal[p].kind /\ proposal'[p].at = proposal[p].at
    /\ itemVersion <= itemVersion' /\ draft.version <= draft'.version

\* With no change made, what was made stays made.
LEMMA NothingMade ==
  ASSUME DomainInv, DomainTypes', Onwards,
         \A p \in Rows : applied'[p] = applied[p],
         \A p \in Rows' \ Rows : applied'[p] = 0,
         itemVersion' = itemVersion \/ itemVersion' <= MaxItemVersion
  PROVE  /\ MadeOnce' /\ ItemBounded'
         /\ (draft'.status = "approved" => UNCHANGED draft) => Reviewed'
<1>t. /\ Len(proposal) \in Nat /\ Len(proposal') \in Nat /\ Rows \subseteq Rows'
      /\ itemVersion \in Nat /\ itemVersion' \in Nat /\ draft.version \in Nat /\ draft'.version \in Nat
      /\ \A p \in Rows : proposal[p].at \in Nat
  <2>1. /\ proposal \in Seq(Domain!Proposal) /\ proposal' \in Seq(Domain!Proposal)
        /\ draft \in [status : Domain!DraftStatus, version : Nat]
        /\ draft' \in [status : Domain!DraftStatus', version : Nat]
        /\ itemVersion \in Nat /\ itemVersion' \in Nat
    BY DEF DomainInv, DomainTypes
  <2>2. \A p \in Rows : proposal[p] \in Domain!Proposal BY <2>1 DEF Rows
  <2>. QED BY <2>1, <2>2 DEF Rows, Onwards, Domain!Proposal
<1>1. MadeOnce'
  <2>. SUFFICES ASSUME NEW p \in Rows'
                PROVE  /\ applied'[p] <= 1
                       /\ applied'[p] # 0 => /\ proposal'[p].kind # "other"
                                             /\ Domain!VersionOf(proposal[p].kind)' > proposal'[p].at
    BY DEF MadeOnce
  <2>1. CASE p \in Rows
    <3>1. CASE applied[p] = 0 BY <2>1, <3>1
    <3>2. CASE applied[p] # 0
      <4>1. /\ applied[p] <= 1 /\ proposal[p].kind # "other"
            /\ Domain!VersionOf(proposal[p].kind) > proposal[p].at
        BY <2>1, <3>2 DEF DomainInv, MadeOnce
      <4>. QED BY <1>t, <2>1, <4>1 DEF Onwards, Domain!VersionOf
    <3>. QED BY <3>1, <3>2
  <2>2. CASE p \notin Rows BY <2>2
  <2>. QED BY <2>1, <2>2
<1>2. ItemBounded'
  <2>1. Made' = Made BY <1>t DEF Made
  <2>2. Cardinality(Made) \in Nat
    <3>1. IsFiniteSet(Rows)
      <4>1. 1 \in Int /\ Len(proposal) \in Int BY <1>t
      <4>. QED BY <4>1, FS_Interval DEF Rows
    <3>2. IsFiniteSet(Made) BY <3>1, FS_Subset DEF Made
    <3>. QED BY <3>2, FS_CardinalityType
  <2>. QED BY <1>t, <2>1, <2>2, ProposalsAssumption DEF DomainInv, ItemBounded
<1>3. ASSUME draft'.status = "approved" => UNCHANGED draft PROVE Reviewed'
  <2>. SUFFICES ASSUME draft'.status = "approved" PROVE Reviewed' BY DEF Reviewed
  <2>1. PICK p \in Rows : /\ proposal[p].kind = "listing" /\ applied[p] = 1
                          /\ draft.version = proposal[p].at + 1
    BY <1>3 DEF DomainInv, Reviewed
  <2>2. /\ p \in Rows' /\ proposal'[p].kind = "listing" /\ applied'[p] = 1
        /\ draft'.version = proposal'[p].at + 1
    BY <1>t, <1>3, <2>1 DEF Onwards
  <2>. QED BY <2>2 DEF Reviewed
<1>. QED BY <1>1, <1>2, <1>3

\* Reviewers who go on as they were or give up leave the reviews alone.
LEMMA ReviewsRest ==
  ASSUME DomainInv, DomainTypes', Onwards,
         \A r \in Reviewers : review'[r] = review[r] \/ review'[r].phase = "idle"
  PROVE  ReviewsHold'
<1>1. \A r \in Reviewers : review[r].phase # "idle" => review[r].on \in Rows
  BY DEF DomainInv, DomainTypes, ReviewsHold, Rows
<1>2. \A r \in Reviewers : review'[r].phase # "idle" => review'[r].on > 0
  BY DEF DomainInv, ReviewsHold
<1>3. ASSUME NEW r \in Reviewers, Executes(r)', proposal'[review'[r].on].kind = "listing"
      PROVE  /\ review'[r].version = proposal'[review'[r].on].at
             /\ review'[r].version <= draft'.version /\ review'[r].version <= MaxDraftVersion
  <2>1. review'[r] = review[r] /\ Executes(r) BY <1>3 DEF Executes
  <2>2. review[r].on \in Rows BY <1>1, <2>1 DEF Executes
  <2>3. proposal[review[r].on].kind = "listing" BY <1>3, <2>1, <2>2 DEF Onwards
  <2>4. /\ review[r].version = proposal[review[r].on].at
        /\ review[r].version <= draft.version /\ review[r].version <= MaxDraftVersion
    BY <2>1, <2>3 DEF DomainInv, ReviewsHold
  <2>5. review[r].version \in Nat /\ draft.version \in Nat /\ draft'.version \in Nat
    BY DEF DomainInv, DomainTypes
  <2>. QED BY <2>1, <2>2, <2>4, <2>5 DEF Onwards
<1>4. \A r, s \in Reviewers : Executes(r)' /\ Executes(s)' /\ review'[r].on = review'[s].on => r = s
  BY DEF DomainInv, ReviewsHold, Executes
<1>. QED BY <1>2, <1>3, <1>4 DEF ReviewsHold

\* A row keeps its status, or its holder has let go of it and it tells what
\* was done.
LEMMA OutcomesKept ==
  ASSUME DomainInv, DomainTypes', Onwards, contested' = contested,
         \A r \in Reviewers, p \in Rows' : Held(r, p)' => Held(r, p),
         \A p \in Rows : \/ proposal'[p].status = proposal[p].status /\ applied'[p] = applied[p]
                         \/ \E r \in Reviewers : /\ Held(r, p) /\ ~Held(r, p)'
                                                 /\ p \notin contested => MadeKnown(p)',
         \A p \in Rows' \ Rows : applied'[p] = 0 /\ proposal'[p].status = "pending"
  PROVE  Uncontested'
<1>1. SUFFICES ASSUME NEW p \in Rows', p \notin contested
               PROVE  /\ MadeKnown(p)'
                      /\ \A r \in Reviewers : Held(r, p)' => proposal'[p].status = "pending"
                      /\ \A r, s \in Reviewers : Held(r, p)' /\ Held(s, p)' => r = s
  BY DEF Uncontested
<1>2. CASE p \in Rows
  <2>1. /\ MadeKnown(p)
        /\ \A r \in Reviewers : Held(r, p) => proposal[p].status = "pending"
        /\ \A r, s \in Reviewers : Held(r, p) /\ Held(s, p) => r = s
    BY <1>1, <1>2 DEF DomainInv, Uncontested
  <2>2. CASE proposal'[p].status = proposal[p].status /\ applied'[p] = applied[p]
    <3>1. MadeKnown(p)' BY <1>2, <2>1, <2>2 DEF MadeKnown, Onwards
    <3>. QED BY <2>1, <2>2, <3>1
  <2>3. ASSUME NEW r \in Reviewers, Held(r, p), ~Held(r, p)', MadeKnown(p)'
        PROVE  /\ MadeKnown(p)' /\ \A s \in Reviewers : ~Held(s, p)'
    BY <2>1, <2>3
  <2>. QED BY <1>1, <1>2, <2>1, <2>2, <2>3
<1>3. CASE p \notin Rows
  <2>1. applied'[p] = 0 /\ proposal'[p].status = "pending" BY <1>3
  <2>2. \A r \in Reviewers : ~Held(r, p)
    <3>1. \A r \in Reviewers : review[r].phase # "idle" => review[r].on \in Rows
      BY DEF DomainInv, DomainTypes, ReviewsHold, Rows
    <3>. QED BY <1>3, <3>1 DEF Held
  <2>. QED BY <2>1, <2>2 DEF MadeKnown
<1>. QED BY <1>2, <1>3

\* A new proposal is a row of its own, and nothing was made of it.
LEMMA Proposed ==
  ASSUME DomainInv, NEW kind \in Domain!Kind, NEW at \in Nat, NEW valid \in BOOLEAN,
         Domain!Propose(kind, at, valid), UNCHANGED <<review, contested>>
  PROVE  /\ proposal' \in Seq(Domain!Proposal) /\ Len(proposal') <= MaxProposals
         /\ applied' \in Seq(Nat) /\ Len(applied') = Len(proposal')
         /\ Len(proposal) <= Len(proposal')
         /\ \A p \in Rows : proposal'[p] = proposal[p] /\ applied'[p] = applied[p]
         /\ \A p \in Rows' \ Rows : applied'[p] = 0 /\ proposal'[p].status = "pending"
         /\ contested' \subseteq Rows'
         /\ review' \in [Reviewers -> [phase : {"idle", "deciding", "executing"},
                                on : 0..Len(proposal'), approve : BOOLEAN, version : Nat]]
<1>. DEFINE L == Len(proposal)
            new == [kind |-> kind, at |-> at, valid |-> valid, due |-> FALSE, status |-> "pending"]
<1>t. /\ proposal \in Seq(Domain!Proposal) /\ L \in Nat /\ applied \in Seq(Nat) /\ Len(applied) = L
      /\ contested \subseteq 1..L
      /\ review \in [Reviewers -> [phase : {"idle", "deciding", "executing"},
                                on : 0..L, approve : BOOLEAN, version : Nat]]
  BY DEF DomainInv, DomainTypes, Rows
<1>1. /\ L < MaxProposals /\ proposal' = Append(proposal, new) /\ applied' = Append(applied, 0)
  BY DEF Domain!Propose
<1>2. new \in Domain!Proposal /\ new.status = "pending" BY DEF Domain!Proposal, Domain!ProposalStatus
<1>. HIDE DEF new
<1>3. /\ proposal' \in Seq(Domain!Proposal) /\ Len(proposal') = L + 1 /\ proposal'[L + 1] = new
      /\ \A p \in 1..L : proposal'[p] = proposal[p]
  BY <1>t, <1>1, <1>2
<1>4. /\ applied' \in Seq(Nat) /\ Len(applied') = L + 1 /\ applied'[L + 1] = 0
      /\ \A p \in 1..L : applied'[p] = applied[p]
  BY <1>t, <1>1
<1>5. L + 1 <= MaxProposals BY <1>t, <1>1, ProposalsAssumption
<1>6. Rows = 1..L /\ Rows' = 1..(L + 1) BY <1>3 DEF Rows
<1>7. \A p \in Rows' \ Rows : p = L + 1 BY <1>t, <1>6
<1>8. 0..L \subseteq 0..Len(proposal') /\ 1..L \subseteq Rows' BY <1>t, <1>3, <1>6
<1>9. review' \in [Reviewers -> [phase : {"idle", "deciding", "executing"},
                                on : 0..Len(proposal'), approve : BOOLEAN, version : Nat]]
  BY <1>t, <1>8
<1>. HIDE DEF L
<1>10. Len(proposal') <= MaxProposals /\ Len(applied') = Len(proposal') /\ Len(proposal) <= Len(proposal')
  BY <1>t, <1>3, <1>4, <1>5 DEF L
<1>. QED BY <1>t, <1>2, <1>3, <1>4, <1>6, <1>7, <1>8, <1>9, <1>10

\* A decision that is stored is stored in the one row, and its reviewer is free.
LEMMA Stored ==
  ASSUME DomainInv, NEW r \in Reviewers, NEW status \in Domain!ProposalStatus,
         review[r].phase # "idle", Domain!Store(r, status)
  PROVE  /\ review[r].on \in Rows
         /\ proposal' \in Seq(Domain!Proposal) /\ Len(proposal') = Len(proposal)
         /\ proposal'[review[r].on].status = status
         /\ \A p \in Rows : /\ proposal'[p].kind = proposal[p].kind /\ proposal'[p].at = proposal[p].at
                            /\ p # review[r].on => proposal'[p].status = proposal[p].status
         /\ review' \in [Reviewers -> [phase : {"idle", "deciding", "executing"},
                                on : 0..Len(proposal'), approve : BOOLEAN, version : Nat]]
         /\ review'[r].phase = "idle" /\ \A s \in Reviewers \ {r} : review'[s] = review[s]
<1>1. PICK p : p = review[r].on OBVIOUS
<1>t. /\ proposal \in Seq(Domain!Proposal) /\ Len(proposal) \in Nat
      /\ review \in [Reviewers -> [phase : {"idle", "deciding", "executing"},
                                on : 0..Len(proposal), approve : BOOLEAN, version : Nat]]
  BY DEF DomainInv, DomainTypes
<1>2. p \in Rows BY <1>t, <1>1 DEF DomainInv, ReviewsHold, Rows
<1>3. /\ proposal' = [proposal EXCEPT ![p].status = status]
      /\ review' = [review EXCEPT ![r] = Domain!NoReview]
  BY <1>1 DEF Domain!Store
<1>4. PICK row : row = [proposal[p] EXCEPT !.status = status] OBVIOUS
<1>5. /\ row \in Domain!Proposal /\ row.kind = proposal[p].kind /\ row.at = proposal[p].at
      /\ row.status = status
  <2>1. proposal[p] \in Domain!Proposal BY <1>t, <1>2 DEF Rows
  <2>. QED BY <1>4, <2>1 DEF Domain!Proposal
<1>6. proposal' = [proposal EXCEPT ![p] = row] BY <1>3, <1>4
<1>7. /\ proposal' \in Seq(Domain!Proposal) /\ Len(proposal') = Len(proposal) /\ proposal'[p] = row
      /\ \A q \in Rows : q # p => proposal'[q] = proposal[q]
  BY <1>t, <1>2, <1>5, <1>6 DEF Rows
<1>8. Domain!NoReview \in [phase : {"idle", "deciding", "executing"},
                          on : 0..Len(proposal), approve : BOOLEAN, version : Nat]
      /\ Domain!NoReview.phase = "idle"
  BY <1>t DEF Domain!NoReview
<1>. QED BY <1>t, <1>1, <1>2, <1>3, <1>5, <1>7, <1>8

\* Authors change the item and the draft, and ask for no approval.
LEMMA AuthorsStep ==
  ASSUME DomainInv,
         \/ Domain!EditItem \/ Domain!CreateMasterDraft \/ Domain!SubmitProposal
         \/ \E a \in Authors : Domain!LoadDraft(a)
  PROVE  DomainInv'
<1>t. /\ itemVersion \in Nat \ {0} /\ draft \in [status : Domain!DraftStatus, version : Nat]
      /\ proposal \in Seq(Domain!Proposal) /\ Len(proposal) \in Nat
      /\ author \in [Authors -> [phase : {"idle", "listing"}, version : Nat]]
      /\ \A p \in Rows : proposal[p] \in Domain!Proposal
  BY DEF DomainInv, DomainTypes, Rows
<1>1. CASE Domain!EditItem
  <2>1. /\ itemVersion < MaxItemVersion /\ itemVersion' = itemVersion + 1
        /\ UNCHANGED <<draft, snaps, proposal, author, review, applied, contested>>
    BY <1>1 DEF Domain!EditItem
  <2>2. DomainTypes' BY <1>t, <2>1 DEF DomainInv, DomainTypes, Rows
  <2>3. Onwards /\ Rows' = Rows BY <1>t, <2>1 DEF Onwards, Rows
  <2>4. itemVersion' <= MaxItemVersion BY <1>t, <2>1, ProposalsAssumption
  <2>5. MadeOnce' /\ ItemBounded' /\ Reviewed' BY <2>1, <2>2, <2>3, <2>4, NothingMade
  <2>6. ReviewsHold' BY <2>1, <2>2, <2>3, ReviewsRest
  <2>7. Uncontested' BY <2>1, <2>2, <2>3, OutcomesKept DEF Held
  <2>8. DraftBounded' BY <2>1 DEF DomainInv, DraftBounded
  <2>. QED BY <2>2, <2>5, <2>6, <2>7, <2>8 DEF DomainInv
<1>2. CASE Domain!CreateMasterDraft
  <2>1. /\ draft.status = "none" /\ draft' = [status |-> "draft", version |-> 1] /\ snaps' = {1}
        /\ UNCHANGED <<itemVersion, proposal, author, review, applied, contested>>
    BY <1>2 DEF Domain!CreateMasterDraft
  <2>2. draft.version = 0 BY <2>1 DEF DomainInv, DraftBounded
  <2>3. /\ draft' \in [status : Domain!DraftStatus, version : Nat] /\ snaps' = 1..draft'.version
        /\ draft'.version = 1 /\ draft'.status = "draft"
    BY <2>1 DEF Domain!DraftStatus
  <2>4. DomainTypes' BY <1>t, <2>1, <2>3 DEF DomainInv, DomainTypes, Rows
  <2>5. Onwards /\ Rows' = Rows BY <1>t, <2>1, <2>2, <2>3 DEF Onwards, Rows
  <2>6. MadeOnce' /\ ItemBounded' /\ Reviewed' BY <2>1, <2>3, <2>4, <2>5, NothingMade
  <2>7. ReviewsHold' BY <2>1, <2>4, <2>5, ReviewsRest
  <2>8. Uncontested' BY <2>1, <2>4, <2>5, OutcomesKept DEF Held
  <2>9. DraftBounded'
    <3>1. \A a \in Authors : author[a].phase = "listing" => author[a].version <= 0
      BY <2>2 DEF DomainInv, DraftBounded
    <3>. QED BY <1>t, <2>1, <2>3, <3>1, ProposalsAssumption DEF DomainInv, DraftBounded
  <2>. QED BY <2>4, <2>6, <2>7, <2>8, <2>9 DEF DomainInv
<1>3. CASE Domain!SubmitProposal
  <2>1. UNCHANGED <<itemVersion, draft, snaps, author, review, contested>>
    BY <1>3 DEF Domain!SubmitProposal, Domain!target
  <2>2. PICK kind \in Domain!Kind, at \in Nat, valid \in BOOLEAN : Domain!Propose(kind, at, valid)
    <3>1. ASSUME NEW at \in 1..itemVersion, NEW valid \in BOOLEAN, Domain!Propose("inventory", at, valid)
          PROVE  \E k \in Domain!Kind, n \in Nat, v \in BOOLEAN : Domain!Propose(k, n, v)
      BY <1>t, <3>1 DEF Domain!Kind
    <3>2. ASSUME NEW at \in 1..draft.version, Domain!Propose("listing", at, TRUE)
          PROVE  \E k \in Domain!Kind, n \in Nat, v \in BOOLEAN : Domain!Propose(k, n, v)
      <4>1. /\ at \in Nat /\ "listing" \in Domain!Kind /\ TRUE \in BOOLEAN
        BY <1>t DEF Domain!Kind
      <4>. QED BY <3>2, <4>1
    <3>3. CASE Domain!Propose("other", itemVersion, TRUE)
      <4>1. /\ itemVersion \in Nat /\ "other" \in Domain!Kind /\ TRUE \in BOOLEAN
        BY <1>t DEF Domain!Kind
      <4>. QED BY <3>3, <4>1
    <3>. QED BY <1>3, <3>1, <3>2, <3>3 DEF Domain!SubmitProposal
  <2>3. /\ proposal' \in Seq(Domain!Proposal) /\ Len(proposal') <= MaxProposals
        /\ applied' \in Seq(Nat) /\ Len(applied') = Len(proposal')
        /\ Len(proposal) <= Len(proposal')
        /\ \A p \in Rows : proposal'[p] = proposal[p] /\ applied'[p] = applied[p]
        /\ \A p \in Rows' \ Rows : applied'[p] = 0 /\ proposal'[p].status = "pending"
        /\ contested' \subseteq Rows'
        /\ review' \in [Reviewers -> [phase : {"idle", "deciding", "executing"},
                                on : 0..Len(proposal'), approve : BOOLEAN, version : Nat]]
    BY <2>1, <2>2, Proposed
  <2>4. DomainTypes' BY <2>1, <2>3 DEF DomainInv, DomainTypes
  <2>5. Onwards BY <1>t, <2>1, <2>3 DEF Onwards
  <2>6. MadeOnce' /\ ItemBounded' /\ Reviewed' BY <2>1, <2>3, <2>4, <2>5, NothingMade
  <2>7. ReviewsHold' BY <2>1, <2>4, <2>5, ReviewsRest
  <2>8. Uncontested' BY <2>1, <2>3, <2>4, <2>5, OutcomesKept DEF Held
  <2>9. DraftBounded' BY <2>1 DEF DomainInv, DraftBounded
  <2>. QED BY <2>4, <2>6, <2>7, <2>8, <2>9 DEF DomainInv
<1>4. ASSUME NEW a \in Authors, Domain!LoadDraft(a) PROVE DomainInv'
  <2>1. /\ draft.status \in {"draft", "needs_review"} /\ draft.version < MaxDraftVersion
        /\ author' = [author EXCEPT ![a] = [phase |-> "listing", version |-> draft.version]]
        /\ UNCHANGED <<itemVersion, draft, snaps, proposal, review, applied, contested>>
    BY <1>4 DEF Domain!LoadDraft, Domain!target
  <2>2. PICK n : n = [phase |-> "listing", version |-> draft.version] OBVIOUS
  <2>3. n \in [phase : {"idle", "listing"}, version : Nat] /\ n.version = draft.version
    BY <1>t, <2>2
  <2>4. /\ author' \in [Authors -> [phase : {"idle", "listing"}, version : Nat]]
        /\ author'[a] = n /\ \A b \in Authors \ {a} : author'[b] = author[b]
    BY <1>t, <2>1, <2>2, <2>3
  <2>5. DomainTypes' BY <2>1, <2>4 DEF DomainInv, DomainTypes, Rows
  <2>6. Onwards /\ Rows' = Rows BY <1>t, <2>1 DEF Onwards, Rows
  <2>7. MadeOnce' /\ ItemBounded' /\ Reviewed' BY <2>1, <2>5, <2>6, NothingMade
  <2>8. ReviewsHold' BY <2>1, <2>5, <2>6, ReviewsRest
  <2>9. Uncontested' BY <2>1, <2>5, <2>6, OutcomesKept DEF Held
  <2>10. DraftBounded' BY <1>t, <2>1, <2>3, <2>4, ProposalsAssumption DEF DomainInv, DraftBounded
  <2>. QED BY <2>5, <2>7, <2>8, <2>9, <2>10 DEF DomainInv
<1>. QED BY <1>1, <1>2, <1>3, <1>4

\* Asking for an approval of the draft as it is.
LEMMA RequestStep ==
  ASSUME DomainInv, NEW a \in Authors, Domain!RequestListingApproval(a)
  PROVE  DomainInv'
<1>t. /\ draft \in [status : Domain!DraftStatus, version : Nat] /\ snaps = 1..draft.version
      /\ proposal \in Seq(Domain!Proposal) /\ Len(proposal) \in Nat /\ itemVersion \in Nat
      /\ author \in [Authors -> [phase : {"idle", "listing"}, version : Nat]]
  BY DEF DomainInv, DomainTypes
<1>1. PICK version : version = author[a].version + 1 OBVIOUS
<1>2. /\ author[a].phase = "listing" /\ author' = [author EXCEPT ![a] = Domain!NoAuthor]
      /\ UNCHANGED <<itemVersion, review, contested>>
  BY DEF Domain!RequestListingApproval
<1>3. /\ author[a].version \in Nat /\ author[a].version < MaxDraftVersion
      /\ author[a].version <= draft.version
      /\ author[a].version = draft.version => draft.status # "approved"
  BY <1>t, <1>2 DEF DomainInv, DraftBounded
<1>4. /\ author' \in [Authors -> [phase : {"idle", "listing"}, version : Nat]]
      /\ author'[a].phase = "idle" /\ author'[a].version = 0
      /\ \A b \in Authors \ {a} : author'[b] = author[b]
  <2>1. /\ Domain!NoAuthor \in [phase : {"idle", "listing"}, version : Nat]
        /\ Domain!NoAuthor.phase = "idle" /\ Domain!NoAuthor.version = 0
    BY DEF Domain!NoAuthor
  <2>. QED BY <1>t, <1>2, <2>1
<1>5. CASE UNCHANGED <<draft, snaps, proposal, applied>>
  <2>1. DomainTypes' BY <1>2, <1>4, <1>5 DEF DomainInv, DomainTypes, Rows
  <2>2. Onwards /\ Rows' = Rows BY <1>t, <1>2, <1>5 DEF Onwards, Rows
  <2>3. MadeOnce' /\ ItemBounded' /\ Reviewed' BY <1>2, <1>5, <2>1, <2>2, NothingMade
  <2>4. ReviewsHold' BY <1>2, <1>5, <2>1, <2>2, ReviewsRest
  <2>5. Uncontested' BY <1>2, <1>5, <2>1, <2>2, OutcomesKept DEF Held
  <2>6. DraftBounded' BY <1>4, <1>5, ProposalsAssumption DEF DomainInv, DraftBounded
  <2>. QED BY <2>1, <2>3, <2>4, <2>5, <2>6 DEF DomainInv
<1>6. CASE /\ version \notin snaps /\ snaps' = snaps \cup {version}
           /\ Domain!Propose("listing", version, TRUE)
           /\ draft' = [status |-> "needs_review", version |-> version]
  <2>1. version \in Nat \ {0} /\ version <= MaxDraftVersion /\ version = draft.version + 1
    BY <1>t, <1>1, <1>3, <1>6, ProposalsAssumption
  <2>2. /\ draft' \in [status : Domain!DraftStatus, version : Nat] /\ draft'.version = version
        /\ draft'.status = "needs_review"
    BY <1>6, <2>1 DEF Domain!DraftStatus
  <2>3. snaps' = 1..draft'.version BY <1>t, <1>6, <2>1, <2>2
  <2>4. /\ proposal' \in Seq(Domain!Proposal) /\ Len(proposal') <= MaxProposals
        /\ applied' \in Seq(Nat) /\ Len(applied') = Len(proposal')
        /\ Len(proposal) <= Len(proposal')
        /\ \A p \in Rows : proposal'[p] = proposal[p] /\ applied'[p] = applied[p]
        /\ \A p \in Rows' \ Rows : applied'[p] = 0 /\ proposal'[p].status = "pending"
        /\ contested' \subseteq Rows'
        /\ review' \in [Reviewers -> [phase : {"idle", "deciding", "executing"},
                                on : 0..Len(proposal'), approve : BOOLEAN, version : Nat]]
    <3>1. "listing" \in Domain!Kind BY DEF Domain!Kind
    <3>. QED BY <1>2, <1>6, <2>1, <3>1, Proposed
  <2>5. DomainTypes' BY <1>2, <1>4, <2>2, <2>3, <2>4 DEF DomainInv, DomainTypes
  <2>6. Onwards BY <1>t, <1>2, <2>1, <2>2, <2>4 DEF Onwards
  <2>7. MadeOnce' /\ ItemBounded' /\ Reviewed' BY <1>2, <2>2, <2>4, <2>5, <2>6, NothingMade
  <2>8. ReviewsHold' BY <1>2, <2>5, <2>6, ReviewsRest
  <2>9. Uncontested' BY <1>2, <2>4, <2>5, <2>6, OutcomesKept DEF Held
  <2>10. DraftBounded'
    <3>1. /\ draft'.version <= MaxDraftVersion + 1 /\ draft'.version # 0
          /\ draft'.status # "none" /\ draft'.status # "approved" /\ draft'.version <= MaxDraftVersion
      BY <2>1, <2>2, ProposalsAssumption
    <3>2. \A b \in Authors : author'[b].version <= MaxDraftVersion
      BY <1>4, ProposalsAssumption DEF DomainInv, DraftBounded
    <3>3. \A b \in Authors : author'[b].phase = "listing" =>
            author'[b].version < MaxDraftVersion /\ author'[b].version <= draft'.version
      <4>. SUFFICES ASSUME NEW b \in Authors, author'[b].phase = "listing"
                    PROVE  author'[b].version < MaxDraftVersion /\ author'[b].version <= draft'.version
        OBVIOUS
      <4>1. b # a /\ author'[b] = author[b] BY <1>4
      <4>2. author[b].version < MaxDraftVersion /\ author[b].version <= draft.version
        BY <4>1 DEF DomainInv, DraftBounded
      <4>3. author[b].version \in Nat /\ draft.version \in Nat BY <1>t
      <4>. QED BY <2>1, <2>2, <4>1, <4>2, <4>3
    <3>. QED BY <3>1, <3>2, <3>3 DEF DraftBounded
  <2>. QED BY <2>5, <2>7, <2>8, <2>9, <2>10 DEF DomainInv
<1>. QED BY <1>1, <1>5, <1>6 DEF Domain!RequestListingApproval, Domain!Snapshot

\* The expiry of a proposal whose time is over.
LEMMA ExpireDueStep ==
  ASSUME DomainInv, NEW p \in DOMAIN proposal, Domain!Expire(p)
  PROVE  DomainInv'
<1>t. /\ draft \in [status : Domain!DraftStatus, version : Nat] /\ itemVersion \in Nat
      /\ proposal \in Seq(Domain!Proposal) /\ Len(proposal) \in Nat /\ p \in Rows
  BY DEF DomainInv, DomainTypes, Rows
<1>1. /\ proposal' = [proposal EXCEPT ![p].due = TRUE]
      /\ UNCHANGED <<itemVersion, draft, snaps, author, review, applied, contested>>
  BY DEF Domain!Expire, Domain!target
<1>2. PICK row : row = [proposal[p] EXCEPT !.due = TRUE] OBVIOUS
<1>3. /\ row \in Domain!Proposal /\ row.kind = proposal[p].kind /\ row.at = proposal[p].at
      /\ row.status = proposal[p].status
  <2>1. proposal[p] \in Domain!Proposal BY <1>t DEF Rows
  <2>. QED BY <1>2, <2>1 DEF Domain!Proposal
<1>4. proposal' = [proposal EXCEPT ![p] = row] BY <1>1, <1>2
<1>5. /\ proposal' \in Seq(Domain!Proposal) /\ Len(proposal') = Len(proposal)
      /\ \A q \in Rows : /\ proposal'[q].kind = proposal[q].kind /\ proposal'[q].at = proposal[q].at
                         /\ proposal'[q].status = proposal[q].status
  BY <1>t, <1>3, <1>4 DEF Rows
<1>6. Onwards /\ Rows' = Rows BY <1>t, <1>1, <1>5 DEF Onwards, Rows
<1>7. DomainTypes' BY <1>1, <1>5, <1>6 DEF DomainInv, DomainTypes
<1>8. MadeOnce' /\ ItemBounded' /\ Reviewed' BY <1>1, <1>6, <1>7, NothingMade
<1>9. ReviewsHold' BY <1>1, <1>6, <1>7, ReviewsRest
<1>10. Uncontested' BY <1>1, <1>5, <1>6, <1>7, OutcomesKept DEF Held
<1>11. DraftBounded' BY <1>1 DEF DomainInv, DraftBounded
<1>. QED BY <1>7, <1>8, <1>9, <1>10, <1>11 DEF DomainInv

\* A decision loads the proposal, to find it open or refuse.
LEMMA LoadProposalStep ==
  ASSUME DomainInv, NEW r \in Reviewers, Domain!LoadProposal(r)
  PROVE  DomainInv'
<1>t. /\ draft \in [status : Domain!DraftStatus, version : Nat] /\ itemVersion \in Nat
      /\ proposal \in Seq(Domain!Proposal) /\ Len(proposal) \in Nat /\ DOMAIN proposal = Rows
      /\ contested \subseteq Rows
      /\ review \in [Reviewers -> [phase : {"idle", "deciding", "executing"},
                                on : 0..Len(proposal), approve : BOOLEAN, version : Nat]]
  BY DEF DomainInv, DomainTypes, Rows
<1>1. /\ review[r].phase = "idle"
      /\ UNCHANGED <<itemVersion, draft, snaps, proposal, author, applied>>
  BY DEF Domain!LoadProposal, Domain!target
<1>2. PICK p \in Rows, approve \in BOOLEAN :
         /\ proposal[p].status = "pending"
         /\ review' = [review EXCEPT ![r] =
              [phase |-> "deciding", on |-> p, approve |-> approve, version |-> 0]]
         /\ contested' = IF \E o \in Reviewers : Held(o, p) THEN contested \cup {p} ELSE contested
  BY <1>t DEF Domain!LoadProposal, Domain!Decidable, Domain!Holds, Held
<1>3. PICK q : q = [phase |-> "deciding", on |-> p, approve |-> approve, version |-> 0] OBVIOUS
<1>4. /\ q \in [phase : {"idle", "deciding", "executing"},
                on : 0..Len(proposal), approve : BOOLEAN, version : Nat]
      /\ q.phase = "deciding" /\ q.on = p /\ p > 0
  BY <1>t, <1>3 DEF Rows
<1>5. /\ review' \in [Reviewers -> [phase : {"idle", "deciding", "executing"},
                                on : 0..Len(proposal), approve : BOOLEAN, version : Nat]]
      /\ review'[r] = q /\ \A s \in Reviewers \ {r} : review'[s] = review[s]
  BY <1>t, <1>2, <1>3, <1>4
<1>6. contested' \subseteq Rows BY <1>t, <1>2
<1>7. Onwards /\ Rows' = Rows BY <1>t, <1>1 DEF Onwards, Rows
<1>8. DomainTypes' BY <1>1, <1>5, <1>6, <1>7 DEF DomainInv, DomainTypes
<1>9. MadeOnce' /\ ItemBounded' /\ Reviewed' BY <1>1, <1>7, <1>8, NothingMade
<1>10. DraftBounded' BY <1>1 DEF DomainInv, DraftBounded
<1>11. ReviewsHold'
  <2>1. \A s \in Reviewers : review'[s].phase # "idle" => review'[s].on > 0
    BY <1>4, <1>5 DEF DomainInv, ReviewsHold
  <2>2. \A s \in Reviewers : Executes(s)' => s # r /\ Executes(s) /\ review'[s] = review[s]
    BY <1>4, <1>5 DEF Executes
  <2>. QED BY <1>1, <2>1, <2>2 DEF DomainInv, ReviewsHold
<1>12. Uncontested'
  <2>1. SUFFICES ASSUME NEW x \in Rows, x \notin contested'
                 PROVE  /\ MadeKnown(x)'
                        /\ \A s \in Reviewers : Held(s, x)' => proposal'[x].status = "pending"
                        /\ \A s, o \in Reviewers : Held(s, x)' /\ Held(o, x)' => s = o
    BY <1>7 DEF Uncontested
  <2>2. /\ x \notin contested
        /\ x = p => \A o \in Reviewers : ~Held(o, x)
    BY <1>2, <2>1
  <2>3. /\ MadeKnown(x)
        /\ \A s \in Reviewers : Held(s, x) => proposal[x].status = "pending"
        /\ \A s, o \in Reviewers : Held(s, x) /\ Held(o, x) => s = o
    BY <2>2 DEF DomainInv, Uncontested
  <2>4. MadeKnown(x)' BY <1>1, <2>3 DEF MadeKnown
  <2>5. \A s \in Reviewers : Held(s, x)' => (s = r /\ x = p) \/ Held(s, x)
    BY <1>4, <1>5 DEF Held
  <2>. QED BY <1>1, <1>2, <2>2, <2>3, <2>4, <2>5
<1>. QED BY <1>8, <1>9, <1>10, <1>11, <1>12 DEF DomainInv

\* A decision stored with nothing made.
LEMMA RefusedStep ==
  ASSUME DomainInv, NEW r \in Reviewers, NEW status \in Domain!ProposalStatus,
         review[r].phase # "idle", Domain!Store(r, status),
         status # "executed" \/ proposal[review[r].on].kind = "other",
         UNCHANGED <<itemVersion, draft, snaps, author, applied, contested>>
  PROVE  DomainInv'
<1>1. PICK p : p = review[r].on OBVIOUS
<1>2. /\ p \in Rows
      /\ proposal' \in Seq(Domain!Proposal) /\ Len(proposal') = Len(proposal)
      /\ proposal'[p].status = status
      /\ \A q \in Rows : /\ proposal'[q].kind = proposal[q].kind /\ proposal'[q].at = proposal[q].at
                         /\ q # p => proposal'[q].status = proposal[q].status
      /\ review' \in [Reviewers -> [phase : {"idle", "deciding", "executing"},
                             on : 0..Len(proposal'), approve : BOOLEAN, version : Nat]]
      /\ review'[r].phase = "idle" /\ \A s \in Reviewers \ {r} : review'[s] = review[s]
  BY <1>1, Stored
<1>3. Rows' = Rows BY <1>2 DEF Rows
<1>4. Onwards
  <2>1. Len(proposal) \in Nat /\ itemVersion \in Nat /\ draft.version \in Nat
    BY DEF DomainInv, DomainTypes
  <2>. QED BY <1>2, <2>1 DEF Onwards
<1>5. DomainTypes' BY <1>2, <1>3 DEF DomainInv, DomainTypes
<1>6. MadeOnce' /\ ItemBounded' /\ Reviewed' BY <1>3, <1>4, <1>5, NothingMade
<1>7. DraftBounded' BY DEF DomainInv, DraftBounded
<1>8. ReviewsHold' BY <1>2, <1>4, <1>5, ReviewsRest
<1>9. Held(r, p) /\ ~Held(r, p)' BY <1>1, <1>2 DEF Held
<1>10. p \notin contested => MadeKnown(p)'
  <2>. SUFFICES ASSUME p \notin contested PROVE MadeKnown(p)' OBVIOUS
  <2>1. MadeKnown(p) /\ proposal[p].status = "pending"
    BY <1>2, <1>9 DEF DomainInv, Uncontested
  <2>. QED BY <1>1, <1>2, <2>1 DEF MadeKnown
<1>11. \A s \in Reviewers, q \in Rows' : Held(s, q)' => Held(s, q) BY <1>2 DEF Held
<1>12. Uncontested' BY <1>2, <1>3, <1>4, <1>5, <1>9, <1>10, <1>11, OutcomesKept
<1>. QED BY <1>5, <1>6, <1>7, <1>8, <1>12 DEF DomainInv

\* A decision undone.
LEMMA RolledBackStep ==
  ASSUME DomainInv, NEW r \in Reviewers, Domain!RollBack(r),
         UNCHANGED <<itemVersion, draft, snaps, author, applied, contested>>
  PROVE  DomainInv'
<1>t. /\ Len(proposal) \in Nat /\ itemVersion \in Nat /\ draft.version \in Nat
      /\ review \in [Reviewers -> [phase : {"idle", "deciding", "executing"},
                                on : 0..Len(proposal), approve : BOOLEAN, version : Nat]]
  BY DEF DomainInv, DomainTypes
<1>1. review' = [review EXCEPT ![r] = Domain!NoReview] /\ UNCHANGED proposal
  BY DEF Domain!RollBack
<1>2. Domain!NoReview \in [phase : {"idle", "deciding", "executing"},
                           on : 0..Len(proposal), approve : BOOLEAN, version : Nat]
      /\ Domain!NoReview.phase = "idle"
  BY <1>t DEF Domain!NoReview
<1>3. /\ review' \in [Reviewers -> [phase : {"idle", "deciding", "executing"},
                                on : 0..Len(proposal), approve : BOOLEAN, version : Nat]]
      /\ review'[r].phase = "idle" /\ \A s \in Reviewers \ {r} : review'[s] = review[s]
  BY <1>t, <1>1, <1>2
<1>4. Onwards /\ Rows' = Rows BY <1>t, <1>1 DEF Onwards, Rows
<1>5. DomainTypes' BY <1>1, <1>3, <1>4 DEF DomainInv, DomainTypes
<1>6. MadeOnce' /\ ItemBounded' /\ Reviewed' BY <1>4, <1>5, NothingMade
<1>7. DraftBounded' BY DEF DomainInv, DraftBounded
<1>8. ReviewsHold' BY <1>3, <1>4, <1>5, ReviewsRest
<1>9. \A s \in Reviewers, q \in Rows' : Held(s, q)' => Held(s, q) BY <1>3 DEF Held
<1>10. Uncontested' BY <1>1, <1>4, <1>5, <1>9, OutcomesKept
<1>. QED BY <1>5, <1>6, <1>7, <1>8, <1>10 DEF DomainInv

\* A decision loads the draft and the item it is about.
LEMMA LoadTargetStep ==
  ASSUME DomainInv, NEW r \in Reviewers, Domain!LoadTarget(r)
  PROVE  DomainInv'
<1>1. PICK p : p = review[r].on OBVIOUS
<1>t. /\ Len(proposal) \in Nat /\ itemVersion \in Nat /\ draft.version \in Nat
      /\ draft \in [status : Domain!DraftStatus, version : Nat]
      /\ review \in [Reviewers -> [phase : {"idle", "deciding", "executing"},
                                on : 0..Len(proposal), approve : BOOLEAN, version : Nat]]
      /\ proposal \in Seq(Domain!Proposal)
  BY DEF DomainInv, DomainTypes
<1>2. /\ review[r].phase = "deciding"
      /\ \A s \in Reviewers : Executes(s) => review[s].on # p
      /\ UNCHANGED <<itemVersion, draft, snaps, author, applied, contested>>
      /\ p \in Rows
  <2>1. p \in Rows BY <1>t, <1>1 DEF Domain!LoadTarget, DomainInv, ReviewsHold, Rows
  <2>. QED BY <1>1, <2>1 DEF Domain!LoadTarget, Domain!target, Domain!Locked, Domain!Holds, Executes
<1>3. CASE Domain!Store(r, "execution_failed")
  <2>1. "execution_failed" \in Domain!ProposalStatus BY DEF Domain!ProposalStatus
  <2>. QED BY <1>2, <1>3, <2>1, RefusedStep
<1>4. CASE Domain!RollBack(r) BY <1>2, <1>4, RolledBackStep
<1>5. CASE /\ Domain!IsCurrent(p) /\ ~(proposal[p].kind = "listing" /\ draft.status = "approved")
           /\ review' = [review EXCEPT ![r].phase = "executing",
                                       ![r].version = Domain!VersionOf(proposal[p].kind)]
           /\ UNCHANGED proposal
  <2>1. PICK v : v = Domain!VersionOf(proposal[p].kind) OBVIOUS
  <2>2. v \in Nat BY <1>t, <2>1 DEF Domain!VersionOf
  <2>3. PICK m : m = [review[r] EXCEPT !.phase = "executing"] OBVIOUS
  <2>4. PICK q : q = [m EXCEPT !.version = v] OBVIOUS
  <2>5. /\ q \in [phase : {"idle", "deciding", "executing"},
                  on : 0..Len(proposal), approve : BOOLEAN, version : Nat]
        /\ q.phase = "executing" /\ q.on = p /\ q.version = v
    <3>1. /\ m \in [phase : {"idle", "deciding", "executing"},
                  on : 0..Len(proposal), approve : BOOLEAN, version : Nat]
          /\ m.phase = "executing" /\ m.on = p
      BY <1>t, <1>1, <2>3
    <3>. QED BY <2>2, <2>4, <3>1
  <2>6. review' = [review EXCEPT ![r] = q]
    <3>1. review'[r] = q BY <1>t, <1>5, <2>1, <2>3, <2>4
    <3>2. review' = [s \in Reviewers |-> IF s = r THEN review'[r] ELSE review[s]] BY <1>t, <1>5
    <3>. QED BY <1>t, <3>1, <3>2
  <2>7. /\ review' \in [Reviewers -> [phase : {"idle", "deciding", "executing"},
                                on : 0..Len(proposal), approve : BOOLEAN, version : Nat]]
        /\ review'[r] = q /\ \A s \in Reviewers \ {r} : review'[s] = review[s]
    BY <1>t, <2>5, <2>6
  <2>8. Onwards /\ Rows' = Rows BY <1>t, <1>2, <1>5 DEF Onwards, Rows
  <2>9. DomainTypes' BY <1>2, <1>5, <2>7, <2>8 DEF DomainInv, DomainTypes
  <2>10. MadeOnce' /\ ItemBounded' /\ Reviewed' BY <1>2, <2>8, <2>9, NothingMade
  <2>11. DraftBounded' BY <1>2 DEF DomainInv, DraftBounded
  <2>12. ReviewsHold'
    <3>1. \A s \in Reviewers : review'[s].phase # "idle" => review'[s].on > 0
      BY <1>2, <2>5, <2>7 DEF DomainInv, ReviewsHold, Rows
    <3>2. proposal[p].kind = "listing" =>
            /\ v = proposal[p].at /\ v <= draft.version /\ v <= MaxDraftVersion
      BY <1>t, <1>5, <2>1 DEF Domain!IsCurrent, Domain!VersionOf, DomainInv, DraftBounded
    <3>3. \A s \in Reviewers \ {r} : Executes(s)' => Executes(s) /\ review[s].on # p
      BY <1>2, <2>7 DEF Executes
    <3>4. ASSUME NEW s \in Reviewers, Executes(s)', proposal'[review'[s].on].kind = "listing"
          PROVE  /\ review'[s].version = proposal'[review'[s].on].at
                 /\ review'[s].version <= draft'.version /\ review'[s].version <= MaxDraftVersion
      <4>1. CASE s = r BY <1>2, <1>5, <2>5, <2>7, <3>2, <3>4, <4>1
      <4>2. CASE s # r BY <1>2, <1>5, <2>7, <3>3, <3>4, <4>2 DEF DomainInv, ReviewsHold
      <4>. QED BY <4>1, <4>2
    <3>5. ASSUME NEW s \in Reviewers, NEW o \in Reviewers, Executes(s)', Executes(o)',
                 review'[s].on = review'[o].on
          PROVE  s = o
      <4>1. CASE s = r \/ o = r BY <2>5, <2>7, <3>3, <3>5, <4>1
      <4>2. CASE s # r /\ o # r BY <2>7, <3>3, <3>5, <4>2 DEF DomainInv, ReviewsHold
      <4>. QED BY <4>1, <4>2
    <3>. QED BY <3>1, <3>4, <3>5 DEF ReviewsHold
  <2>13. \A s \in Reviewers, x \in Rows' : Held(s, x)' => Held(s, x)
    BY <1>1, <1>2, <2>5, <2>7 DEF Held
  <2>14. Uncontested' BY <1>2, <1>5, <2>8, <2>9, <2>13, OutcomesKept
  <2>. QED BY <2>9, <2>10, <2>11, <2>12, <2>14 DEF DomainInv
<1>. QED BY <1>1, <1>3, <1>4, <1>5 DEF Domain!LoadTarget

\* A change that is made: no change of this proposal was made before, its
\* target is past its version now, and its status tells it.
LEMMA ExecutedStep ==
  ASSUME DomainInv, NEW r \in Reviewers, review[r].phase # "idle", Domain!Store(r, "executed"),
         Domain!Apply(review[r].on), proposal[review[r].on].kind # "other",
         Domain!VersionOf(proposal[review[r].on].kind) = proposal[review[r].on].at,
         UNCHANGED <<author, contested>>,
         \/ /\ proposal[review[r].on].kind = "inventory"
            /\ UNCHANGED <<draft, snaps>> /\ itemVersion' = itemVersion + 1
         \/ /\ proposal[review[r].on].kind = "listing" /\ UNCHANGED itemVersion
            /\ draft' = [status |-> "approved", version |-> draft.version + 1]
            /\ snaps' = snaps \cup {draft.version + 1} /\ draft.version <= MaxDraftVersion
  PROVE  DomainInv'
<1>1. PICK p : p = review[r].on OBVIOUS
<1>2. /\ p \in Rows
      /\ proposal' \in Seq(Domain!Proposal) /\ Len(proposal') = Len(proposal)
      /\ proposal'[p].status = "executed"
      /\ \A q \in Rows : /\ proposal'[q].kind = proposal[q].kind /\ proposal'[q].at = proposal[q].at
                         /\ q # p => proposal'[q].status = proposal[q].status
      /\ review' \in [Reviewers -> [phase : {"idle", "deciding", "executing"},
                             on : 0..Len(proposal'), approve : BOOLEAN, version : Nat]]
      /\ review'[r].phase = "idle" /\ \A s \in Reviewers \ {r} : review'[s] = review[s]
  <2>1. "executed" \in Domain!ProposalStatus BY DEF Domain!ProposalStatus
  <2>. QED BY <1>1, <2>1, Stored
<1>t. /\ Len(proposal) \in Nat /\ itemVersion \in Nat \ {0} /\ draft.version \in Nat
      /\ draft \in [status : Domain!DraftStatus, version : Nat] /\ snaps = 1..draft.version
      /\ proposal \in Seq(Domain!Proposal) /\ applied \in Seq(Nat) /\ Len(applied) = Len(proposal)
      /\ \A q \in Rows : proposal[q].at \in Nat
  <2>1. proposal \in Seq(Domain!Proposal) BY DEF DomainInv, DomainTypes
  <2>2. \A q \in Rows : proposal[q] \in Domain!Proposal BY <2>1 DEF Rows
  <2>3. \A q \in Rows : proposal[q].at \in Nat BY <2>2 DEF Domain!Proposal
  <2>. QED BY <2>3 DEF DomainInv, DomainTypes
<1>3. applied[p] = 0
  <2>1. ~(Domain!VersionOf(proposal[p].kind) > proposal[p].at) BY <1>t, <1>1, <1>2
  <2>2. applied[p] # 0 => Domain!VersionOf(proposal[p].kind) > proposal[p].at
    BY <1>2 DEF DomainInv, MadeOnce
  <2>. QED BY <2>1, <2>2
<1>4. /\ applied' \in Seq(Nat) /\ Len(applied') = Len(applied) /\ applied'[p] = 1
      /\ \A q \in Rows : q # p => applied'[q] = applied[q]
  <2>1. applied' = [applied EXCEPT ![p] = applied[p] + 1] BY <1>1 DEF Domain!Apply
  <2>2. applied' = [applied EXCEPT ![p] = 1] BY <1>3, <2>1
  <2>. QED BY <1>t, <1>2, <2>2 DEF Rows
<1>5. /\ draft' \in [status : Domain!DraftStatus, version : Nat] /\ snaps' = 1..draft'.version
      /\ itemVersion' \in Nat \ {0} /\ itemVersion <= itemVersion' /\ draft.version <= draft'.version
      /\ Domain!VersionOf(proposal[p].kind)' > proposal[p].at
      /\ proposal[p].kind = "listing" =>
            draft'.status = "approved" /\ draft'.version = draft.version + 1
      /\ proposal[p].kind = "inventory" => UNCHANGED draft
  <2>1. PICK k : k = proposal[p].kind OBVIOUS
  <2>2. CASE k = "inventory"
    <3>1. /\ UNCHANGED <<draft, snaps>> /\ itemVersion' = itemVersion + 1
          /\ itemVersion = proposal[p].at
      BY <1>1, <2>1, <2>2 DEF Domain!VersionOf
    <3>2. proposal'[p].kind = "inventory" BY <1>2, <2>1, <2>2
    <3>3. Domain!VersionOf(proposal[p].kind)' = itemVersion' BY <3>2 DEF Domain!VersionOf
    <3>4. itemVersion' > proposal[p].at /\ itemVersion' \in Nat \ {0} /\ itemVersion <= itemVersion'
      BY SMTT(30), <1>t, <3>1
    <3>5. draft.version <= draft'.version /\ snaps' = 1..draft'.version BY <1>t, <3>1
    <3>. QED BY <1>t, <2>1, <2>2, <3>1, <3>3, <3>4, <3>5
  <2>3. CASE k = "listing"
    <3>1. /\ UNCHANGED itemVersion
          /\ draft' = [status |-> "approved", version |-> draft.version + 1]
          /\ snaps' = snaps \cup {draft.version + 1} /\ draft.version = proposal[p].at
      BY <1>1, <2>1, <2>3 DEF Domain!VersionOf
    <3>2. /\ draft' \in [status : Domain!DraftStatus, version : Nat]
          /\ draft'.version = draft.version + 1 /\ draft'.status = "approved"
      BY <1>t, <3>1 DEF Domain!DraftStatus
    <3>3. snaps' = 1..draft'.version BY <1>t, <3>1, <3>2
    <3>4. proposal'[p].kind = "listing" BY <1>2, <2>1, <2>3
    <3>5. Domain!VersionOf(proposal[p].kind)' = draft'.version BY <3>4 DEF Domain!VersionOf
    <3>6. /\ draft'.version > proposal[p].at /\ draft.version <= draft'.version
          /\ itemVersion' \in Nat \ {0} /\ itemVersion <= itemVersion'
      BY <1>t, <3>1, <3>2
    <3>. QED BY <2>1, <2>3, <3>2, <3>3, <3>5, <3>6
  <2>. QED BY <1>1, <2>1, <2>2, <2>3
<1>6. Rows' = Rows /\ Onwards BY <1>t, <1>2, <1>5 DEF Rows, Onwards
<1>7. DomainTypes' BY <1>t, <1>2, <1>4, <1>5, <1>6 DEF DomainInv, DomainTypes
<1>8. DraftBounded'
  <2>1. CASE UNCHANGED draft BY <2>1 DEF DomainInv, DraftBounded
  <2>2. CASE /\ draft'.status = "approved" /\ draft'.version = draft.version + 1
             /\ draft.version <= MaxDraftVersion
    <3>1. /\ draft'.version <= MaxDraftVersion + 1 /\ draft'.version # 0
      BY <1>t, <2>2, ProposalsAssumption
    <3>2. \A a \in Authors : author[a].phase = "listing" =>
             /\ author[a].version <= draft'.version /\ author[a].version # draft'.version
      <4>. SUFFICES ASSUME NEW a \in Authors, author[a].phase = "listing"
                    PROVE  author[a].version <= draft'.version /\ author[a].version # draft'.version
        OBVIOUS
      <4>1. author[a].version \in Nat /\ author[a].version <= draft.version
        BY DEF DomainInv, DomainTypes, DraftBounded
      <4>. QED BY <1>t, <2>2, <4>1
    <3>. QED BY <2>2, <3>1, <3>2 DEF DomainInv, DraftBounded
  <2>. QED BY <1>1, <1>5, <2>1, <2>2
<1>9. ReviewsHold' BY <1>2, <1>6, <1>7, ReviewsRest
<1>10. MadeOnce'
  <2>. SUFFICES ASSUME NEW q \in Rows
                PROVE  /\ applied'[q] <= 1
                       /\ applied'[q] # 0 => /\ proposal'[q].kind # "other"
                                             /\ Domain!VersionOf(proposal[q].kind)' > proposal'[q].at
    BY <1>6 DEF MadeOnce
  <2>1. CASE q = p
    BY <1>1, <1>2, <1>4, <1>5, <2>1
  <2>2. CASE q # p /\ applied[q] # 0
    <3>1. /\ applied[q] <= 1 /\ proposal[q].kind # "other"
          /\ Domain!VersionOf(proposal[q].kind) > proposal[q].at
      BY <2>2 DEF DomainInv, MadeOnce
    <3>2. proposal'[q].kind = proposal[q].kind /\ proposal'[q].at = proposal[q].at BY <1>2
    <3>. QED BY <1>t, <1>4, <1>5, <2>2, <3>1, <3>2 DEF Domain!VersionOf
  <2>3. CASE q # p /\ applied[q] = 0 BY <1>4, <2>3
  <2>. QED BY <2>1, <2>2, <2>3
<1>11. ItemBounded'
  <2>1. Made' = Made \cup {p} /\ p \notin Made BY <1>2, <1>3, <1>4, <1>6 DEF Made
  <2>2. IsFiniteSet(Made)
    <3>1. 1 \in Int /\ Len(proposal) \in Int BY <1>t
    <3>. QED BY <3>1, FS_Interval, FS_Subset DEF Rows, Made
  <2>3. Cardinality(Made') = Cardinality(Made) + 1 /\ Cardinality(Made) \in Nat
    BY <2>1, <2>2, FS_AddElement, FS_CardinalityType
  <2>4. itemVersion' <= itemVersion + 1 BY <1>t
  <2>. QED BY <1>t, <1>5, <2>3, <2>4, ProposalsAssumption DEF DomainInv, ItemBounded
<1>12. Reviewed'
  <2>1. CASE proposal[p].kind = "listing"
    <3>1. draft'.version = proposal'[p].at + 1
      BY <1>1, <1>2, <1>5, <2>1 DEF Domain!VersionOf
    <3>. QED BY <1>2, <1>4, <1>6, <2>1, <3>1 DEF Reviewed
  <2>2. CASE proposal[p].kind = "inventory"
    <3>. SUFFICES ASSUME draft.status = "approved" PROVE Reviewed' BY <1>5, <2>2 DEF Reviewed
    <3>1. PICK q \in Rows : /\ proposal[q].kind = "listing" /\ applied[q] = 1
                            /\ draft.version = proposal[q].at + 1
      BY DEF DomainInv, Reviewed
    <3>2. q # p BY <2>2, <3>1
    <3>. QED BY ZenonT(30), <1>2, <1>4, <1>5, <1>6, <2>2, <3>1, <3>2 DEF Reviewed
  <2>. QED BY <1>1, <2>1, <2>2
<1>13. Held(r, p) /\ ~Held(r, p)' /\ MadeKnown(p)'
  BY <1>1, <1>2, <1>4 DEF Held, MadeKnown
<1>14. \A s \in Reviewers, q \in Rows' : Held(s, q)' => Held(s, q) BY <1>2 DEF Held
<1>15. Uncontested' BY <1>2, <1>4, <1>6, <1>7, <1>13, <1>14, OutcomesKept
<1>. QED BY <1>7, <1>8, <1>9, <1>10, <1>11, <1>12, <1>15 DEF DomainInv

\* The transaction that executes a decision, or rolls it back.
LEMMA ExecuteStep ==
  ASSUME DomainInv, NEW r \in Reviewers, Domain!ExecuteProposal(r)
  PROVE  DomainInv'
<1>1. PICK p : p = review[r].on OBVIOUS
<1>2. /\ review[r].phase = "executing" /\ UNCHANGED <<author, contested>>
      /\ p \in Rows
  <2>1. review[r].on \in 0..Len(proposal) /\ Len(proposal) \in Nat BY DEF DomainInv, DomainTypes
  <2>. QED BY <1>1, <2>1 DEF Domain!ExecuteProposal, DomainInv, ReviewsHold, Rows
<1>s. {"executed", "execution_failed"} \subseteq Domain!ProposalStatus BY DEF Domain!ProposalStatus
<1>3. CASE Domain!ExecuteInventory(r, p)
  <2>1. CASE Domain!RollBack(r) /\ UNCHANGED <<itemVersion, draft, snaps, applied>>
    BY <1>2, <2>1, RolledBackStep
  <2>2. CASE Domain!Store(r, "execution_failed") /\ UNCHANGED <<itemVersion, draft, snaps, applied>>
    BY <1>2, <1>s, <2>2, RefusedStep
  <2>3. CASE /\ itemVersion = proposal[p].at /\ itemVersion' = itemVersion + 1
             /\ Domain!Store(r, "executed") /\ Domain!Apply(p) /\ UNCHANGED <<draft, snaps>>
             /\ proposal[p].kind = "inventory"
    <3>1. Domain!VersionOf(proposal[p].kind) = proposal[p].at BY <2>3 DEF Domain!VersionOf
    <3>. QED BY <1>1, <1>2, <2>3, <3>1, ExecutedStep
  <2>. QED BY <1>3, <2>1, <2>2, <2>3 DEF Domain!ExecuteInventory
<1>4. CASE Domain!ExecuteListing(r, p)
  <2>1. PICK version : version = review[r].version + 1 OBVIOUS
  <2>2. proposal[p].kind = "listing" /\ UNCHANGED itemVersion BY <1>4 DEF Domain!ExecuteListing
  <2>3. CASE Domain!RollBack(r) /\ UNCHANGED <<draft, snaps, applied>>
    BY <1>2, <2>2, <2>3, RolledBackStep
  <2>4. CASE /\ version \notin snaps /\ snaps' = snaps \cup {version}
             /\ draft' = [status |-> "approved", version |-> version]
             /\ Domain!Store(r, "executed") /\ Domain!Apply(p)
    <3>1. /\ review[r].version = proposal[p].at /\ review[r].version <= draft.version
          /\ review[r].version <= MaxDraftVersion
      BY <1>1, <1>2, <2>2 DEF DomainInv, ReviewsHold, Executes
    <3>2. review[r].version \in Nat /\ draft.version \in Nat /\ snaps = 1..draft.version
      BY DEF DomainInv, DomainTypes
    <3>3. review[r].version = draft.version BY <2>1, <2>4, <3>1, <3>2
    <3>4. Domain!VersionOf(proposal[p].kind) = proposal[p].at
      BY <2>2, <3>1, <3>3 DEF Domain!VersionOf
    <3>5. version = draft.version + 1 /\ draft.version <= MaxDraftVersion BY <2>1, <3>1, <3>3
    <3>. QED BY <1>1, <1>2, <2>2, <2>4, <3>4, <3>5, ExecutedStep
  <2>. QED BY <1>4, <2>1, <2>3, <2>4 DEF Domain!ExecuteListing, Domain!Snapshot
<1>5. CASE Domain!ExecuteOther(r, p)
  BY <1>1, <1>2, <1>s, <1>5, RefusedStep DEF Domain!ExecuteOther, Domain!target
<1>. QED BY <1>1, <1>3, <1>4, <1>5 DEF Domain!ExecuteProposal

\* Every step of drafts and proposals keeps the invariant.
LEMMA DomainStep ==
  ASSUME DomainInv, [Domain!Next]_(Domain!vars)
  PROVE  DomainInv'
<1>1. ASSUME NEW r \in Reviewers, Domain!RejectProposal(r) PROVE DomainInv'
  <2>1. /\ review[r].phase # "idle" /\ Domain!Store(r, "rejected")
        /\ UNCHANGED <<itemVersion, draft, snaps, author, applied, contested>>
    BY <1>1 DEF Domain!RejectProposal, Domain!target
  <2>2. "rejected" \in Domain!ProposalStatus BY DEF Domain!ProposalStatus
  <2>. QED BY <2>1, <2>2, RefusedStep
<1>2. CASE UNCHANGED Domain!vars
  <2>1. UNCHANGED <<itemVersion, draft, snaps, proposal, author, review, applied, contested>>
    BY <1>2 DEF Domain!vars, Domain!target
  <2>2. Rows' = Rows BY <2>1 DEF Rows
  <2>3. DomainTypes' /\ DraftBounded' BY <2>1, <2>2 DEF DomainInv, DomainTypes, DraftBounded
  <2>4. Onwards
    <3>1. Len(proposal) \in Nat /\ itemVersion \in Nat /\ draft.version \in Nat
      BY DEF DomainInv, DomainTypes
    <3>. QED BY <2>1, <3>1 DEF Onwards
  <2>5. MadeOnce' /\ ItemBounded' /\ Reviewed' BY <2>1, <2>2, <2>3, <2>4, NothingMade
  <2>6. ReviewsHold' BY <2>1, <2>3, <2>4, ReviewsRest
  <2>7. Uncontested' BY <2>1, <2>2, <2>3, <2>4, OutcomesKept DEF Held
  <2>. QED BY <2>3, <2>5, <2>6, <2>7 DEF DomainInv
<1>. QED BY <1>1, <1>2, AuthorsStep, RequestStep, ExpireDueStep, LoadProposalStep,
            LoadTargetStep, ExecuteStep
         DEF Domain!Next

\* Proposals: an approved draft is the one that was reviewed, and the status of a
\* proposal tells whether its change was made.
THEOREM DecisionsAlwaysHold == Spec => []DecisionsHold
<1>1. DomainInv => DecisionsHold
  <2>. SUFFICES ASSUME DomainInv PROVE Domain!DecisionsHold BY DEF DecisionsHold
  <2>1. DOMAIN proposal = Rows BY DEF DomainInv, DomainTypes, Rows
  <2>2. Domain!ApprovedAsReviewed
    BY <2>1 DEF DomainInv, Reviewed, MadeOnce, Domain!ApprovedAsReviewed
  <2>3. Domain!OutcomeTold BY <2>1 DEF DomainInv, Uncontested, MadeKnown, Domain!OutcomeTold
  <2>. QED BY <2>2, <2>3 DEF Domain!DecisionsHold
<1>. QED BY <1>1, DomainSpec, DomainInit, DomainStep, PTL DEF Domain!Spec

\* Proposals: the draft, its proposals and the decisions have their types.
LEMMA DomainTypeCorrect == Spec => []Domain!TypeOK
<1>1. DomainInv => Domain!TypeOK
  <2>. SUFFICES ASSUME DomainInv PROVE Domain!TypeOK OBVIOUS
  <2>1. DOMAIN proposal = Rows /\ DOMAIN applied = Rows BY DEF DomainInv, DomainTypes, Rows
  <2>2. itemVersion \in 1..(MaxItemVersion + MaxProposals)
    <3>1. Len(proposal) \in Nat /\ itemVersion \in Nat \ {0} /\ Len(proposal) <= MaxProposals
      BY DEF DomainInv, DomainTypes
    <3>2. IsFiniteSet(Rows) /\ Cardinality(Rows) = Len(proposal)
      <4>1. 1 \in Int /\ Len(proposal) \in Int BY <3>1
      <4>2. Len(proposal) - 1 + 1 = Len(proposal) /\ (1 > Len(proposal) => Len(proposal) = 0) BY <3>1
      <4>. QED BY <3>1, <4>1, <4>2, FS_Interval DEF Rows
    <3>3. Cardinality(Made) <= Len(proposal) /\ Cardinality(Made) \in Nat
      <4>1. Made \subseteq Rows BY DEF Made
      <4>. QED BY <3>2, <4>1, FS_Subset, FS_CardinalityType
    <3>. QED BY <3>1, <3>3, ProposalsAssumption DEF DomainInv, ItemBounded
  <2>3. draft \in [status : Domain!DraftStatus, version : 0..(MaxDraftVersion + 1)]
    BY ProposalsAssumption DEF DomainInv, DomainTypes, DraftBounded
  <2>4. applied \in [DOMAIN proposal -> Nat] BY <2>1 DEF DomainInv, DomainTypes
  <2>5. author \in [Authors -> [phase : {"idle", "listing"}, version : 0..MaxDraftVersion]]
    BY ProposalsAssumption DEF DomainInv, DomainTypes, DraftBounded
  <2>. QED BY <2>1, <2>2, <2>3, <2>4, <2>5 DEF DomainInv, DomainTypes, Domain!TypeOK
<1>. QED BY <1>1, DomainSpec, DomainInit, DomainStep, PTL DEF Domain!Spec
=============================================================================
