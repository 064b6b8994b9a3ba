------------------------ MODULE CircuitBreakerProofs ------------------------
(***************************************************************************)
(* Proofs about CircuitBreaker: while no update has been lost the rows     *)
(* count every failure, and from that, that a failure while half-open      *)
(* opens the row again.  The inductive invariant is TypeOK with            *)
(* CountsEveryFailure: a commit that is not lost computed from the rows as *)
(* they are, so each row keeps the relation Exact to its streak.  Last,    *)
(* action by action, which commits can let writes through an open row.     *)
(***************************************************************************)
EXTENDS CircuitBreaker, TLAPS

USE ThresholdAssumption

\* What CountsEveryFailure says of one row.
Exact(row, n) ==
    /\ row.count = n
    /\ n < Threshold <=> row.state \in {"absent", "closed"}

Same(cur, seen) == seen.state = cur.state /\ seen.count = cur.count

\* record_failure, record_success, is_open and reset keep the row's type.
LEMMA RowTypes ==
    ASSUME NEW cur \in Row, NEW seen \in Row
    PROVE  /\ Failed(cur, seen) \in Row
           /\ Succeeded(cur, seen) \in Row
           /\ Flipped(cur, seen) \in Row
           /\ ClosedRow(cur, seen) \in Row
  <1>1. Failed(cur, seen) \in Row
    <2>1. (IF Opens(seen) THEN "open"
           ELSE IF cur.state = "absent" THEN "closed" ELSE cur.state) \in State
      BY DEF State, Row
    <2>2. seen.count + 1 \in Nat
      BY DEF Row
    <2>3. (IF Opens(seen) THEN FALSE ELSE cur.due) \in BOOLEAN
      BY DEF Row
    <2> QED
      BY <2>1, <2>2, <2>3 DEF Failed, Row
  <1>2. ClosedRow(cur, seen) \in Row
    BY DEF Row, State, ClosedRow
  <1>3. Flipped(cur, seen) \in Row
    BY DEF Row, State, Flipped
  <1> QED
    BY <1>1, <1>2, <1>3 DEF Succeeded

\* A failure counted on the row as it is keeps the relation, one further.
LEMMA FailedExact ==
    ASSUME NEW cur \in Row, NEW seen \in Row, NEW n \in Nat, Exact(cur, n), Same(cur, seen)
    PROVE  Exact(Failed(cur, seen), n + 1)
  BY DEF Exact, Same, Failed, Opens, Row, State

\* Moving a due row to half-open keeps the relation.
LEMMA FlippedExact ==
    ASSUME NEW cur \in Row, NEW seen \in Row, NEW n \in Nat, Exact(cur, n), Same(cur, seen)
    PROVE  Exact(Flipped(cur, seen), n)
  BY DEF Exact, Same, Flipped, Flips, Row, State

\* Closing the row as it is starts the relation again from zero.
LEMMA ClosedExact ==
    ASSUME NEW cur \in Row, NEW seen \in Row, NEW n \in Nat, Exact(cur, n), Same(cur, seen)
    PROVE  Exact(ClosedRow(cur, seen), 0)
  BY DEF Exact, Same, ClosedRow, Row, State

\* Which updates change the row they were computed from, and so are written.
LEMMA Writes ==
    ASSUME NEW seen \in Row
    PROVE  /\ Failed(seen, seen) # seen
           /\ seen.state = "half_open" => Succeeded(seen, seen) # seen
           /\ seen.state # "half_open" => Succeeded(seen, seen) = seen
  <1>1. Failed(seen, seen).count # seen.count
    BY DEF Failed, Row
  <1>2. seen.state = "half_open" => Succeeded(seen, seen).state # seen.state
    BY DEF Succeeded, ClosedRow, Row
  <1>3. seen.state # "half_open" => Succeeded(seen, seen) = seen
    BY DEF Succeeded
  <1> QED
    BY <1>1, <1>2, <1>3

\* The rows a transaction computes from are rows.
LEMMA SeenType ==
    ASSUME TypeOK, NEW p \in Actors, tx[p].kind # "none"
    PROVE  SeenBy(p) \in [Scopes -> Row]
  <1>1. IsTx(tx[p])
    BY DEF TypeOK, NoTx
  <1>2. PICK D \in SUBSET Scopes : tx[p].seen \in [D -> Row]
    BY <1>1 DEF IsTx
  <1>3. rows \in [Scopes -> Row]
    BY DEF TypeOK
  <1> QED
    BY <1>2, <1>3 DEF SeenBy

\* A commit of failures of the rows of D, when nothing is lost.
LEMMA WriteFailed ==
    ASSUME TypeOK, NEW seen \in [Scopes -> Row], NEW D \in SUBSET Scopes,
           \A s \in Scopes : Exact(rows[s], streak[s]),
           Write(D, Failed, seen), ~lost', Tally(D, {})
    PROVE  \A s \in Scopes : Exact(rows'[s], streak'[s])
  <1> SUFFICES ASSUME NEW s \in Scopes
               PROVE  Exact(rows'[s], streak'[s])
    OBVIOUS
  <1>1. rows[s] \in Row /\ seen[s] \in Row /\ streak[s] \in Nat
    BY DEF TypeOK
  <1>2. CASE s \in D
    <2>1. Failed(seen[s], seen[s]) # seen[s]
      BY <1>1, Writes
    <2>2. Same(rows[s], seen[s])
      BY <1>2, <2>1 DEF Write, Same
    <2>3. rows'[s] = Failed(rows[s], seen[s]) /\ streak'[s] = streak[s] + 1
      BY <1>2, <2>1 DEF Write, Tally
    <2> QED
      BY <1>1, <2>2, <2>3, FailedExact
  <1>3. CASE s \notin D
    BY <1>3 DEF Write, Tally
  <1> QED
    BY <1>2, <1>3

\* A commit of successes, when nothing is lost.
LEMMA WriteSucceeded ==
    ASSUME TypeOK, NEW seen \in [Scopes -> Row], NEW D \in SUBSET Scopes,
           \A s \in Scopes : Exact(rows[s], streak[s]),
           Write(D, Succeeded, seen), ~lost', Tally({}, D \cap HalfOpen(seen))
    PROVE  \A s \in Scopes : Exact(rows'[s], streak'[s])
  <1> SUFFICES ASSUME NEW s \in Scopes
               PROVE  Exact(rows'[s], streak'[s])
    OBVIOUS
  <1>1. rows[s] \in Row /\ seen[s] \in Row /\ streak[s] \in Nat
    BY DEF TypeOK
  <1>2. CASE s \in D /\ seen[s].state = "half_open"
    <2>1. Succeeded(seen[s], seen[s]) # seen[s]
      BY <1>1, <1>2, Writes
    <2>2. Same(rows[s], seen[s])
      BY <1>2, <2>1 DEF Write, Same
    <2>3. rows'[s] = ClosedRow(rows[s], seen[s]) /\ streak'[s] = 0
      BY <1>2, <2>1 DEF Write, Tally, Succeeded, HalfOpen
    <2> QED
      BY <1>1, <2>2, <2>3, ClosedExact
  <1>3. CASE ~(s \in D /\ seen[s].state = "half_open")
    <2>1. ~(s \in D /\ Succeeded(seen[s], seen[s]) # seen[s])
      BY <1>1, <1>3, Writes
    <2> QED
      BY <1>3, <2>1 DEF Write, Tally, HalfOpen
  <1> QED
    BY <1>2, <1>3

\* A commit of half-open marks, when nothing is lost.
LEMMA WriteFlipped ==
    ASSUME TypeOK, NEW seen \in [Scopes -> Row], NEW D \in SUBSET Scopes,
           \A s \in Scopes : Exact(rows[s], streak[s]),
           Write(D, Flipped, seen), ~lost', UNCHANGED streak
    PROVE  \A s \in Scopes : Exact(rows'[s], streak'[s])
  <1> SUFFICES ASSUME NEW s \in Scopes
               PROVE  Exact(rows'[s], streak'[s])
    OBVIOUS
  <1>1. rows[s] \in Row /\ seen[s] \in Row /\ streak[s] \in Nat
    BY DEF TypeOK
  <1>2. CASE s \in D /\ Flipped(seen[s], seen[s]) # seen[s]
    <2>1. Same(rows[s], seen[s]) /\ rows'[s] = Flipped(rows[s], seen[s])
      BY <1>2 DEF Write, Same
    <2> QED
      BY <1>1, <2>1, FlippedExact
  <1>3. CASE ~(s \in D /\ Flipped(seen[s], seen[s]) # seen[s])
    BY <1>3 DEF Write
  <1> QED
    BY <1>2, <1>3

\* A reset, when nothing is lost.
LEMMA WriteClosed ==
    ASSUME TypeOK, NEW seen \in [Scopes -> Row], NEW r \in Scopes,
           \A s \in Scopes : Exact(rows[s], streak[s]),
           Write({r}, ClosedRow, seen), ~lost',
           Tally({}, {t \in {r} : ClosedRow(seen[t], seen[t]) # seen[t]})
    PROVE  \A s \in Scopes : Exact(rows'[s], streak'[s])
  <1> SUFFICES ASSUME NEW s \in Scopes
               PROVE  Exact(rows'[s], streak'[s])
    OBVIOUS
  <1>1. rows[s] \in Row /\ seen[s] \in Row /\ streak[s] \in Nat
    BY DEF TypeOK
  <1>2. CASE s = r /\ ClosedRow(seen[s], seen[s]) # seen[s]
    <2>1. /\ Same(rows[s], seen[s])
          /\ rows'[s] = ClosedRow(rows[s], seen[s])
          /\ streak'[s] = 0
      BY <1>2 DEF Write, Same, Tally
    <2> QED
      BY <1>1, <2>1, ClosedExact
  <1>3. CASE ~(s = r /\ ClosedRow(seen[s], seen[s]) # seen[s])
    BY <1>3 DEF Write, Tally
  <1> QED
    BY <1>2, <1>3

-----------------------------------------------------------------------------
(* Type correctness *)

\* Beginning or ending a transaction, and writing rows, keep the types.
LEMMA BeginType ==
    ASSUME TypeOK, NEW p \in Actors, NEW kind \in TxKind, NEW D \in SUBSET Scopes,
           Begin(p, kind, D)
    PROVE  DOMAIN tx' = Actors /\ \A q \in Actors : tx'[q] = NoTx \/ IsTx(tx'[q])
  <1>1. [s \in D |-> rows[s]] \in [D -> Row]
    BY DEF TypeOK
  <1>2. IsTx([kind |-> kind, seen |-> [s \in D |-> rows[s]]])
    BY <1>1 DEF IsTx
  <1> QED
    BY <1>2 DEF Begin, TypeOK

\* Ending a transaction.
LEMMA EndType ==
    ASSUME TypeOK, NEW p \in Actors, End(p)
    PROVE  DOMAIN tx' = Actors /\ \A q \in Actors : tx'[q] = NoTx \/ IsTx(tx'[q])
  BY DEF End, TypeOK

\* Each kind of commit leaves rows in the table.
LEMMA WriteTypes ==
    ASSUME TypeOK, NEW seen \in [Scopes -> Row], NEW D \in SUBSET Scopes,
           \/ Write(D, Failed, seen)
           \/ Write(D, Succeeded, seen)
           \/ Write(D, Flipped, seen)
           \/ Write(D, ClosedRow, seen)
    PROVE  rows' \in [Scopes -> Row] /\ lost' \in BOOLEAN
  <1>1. \A s \in Scopes : rows[s] \in Row /\ seen[s] \in Row
    BY DEF TypeOK
  <1>2. \A s \in Scopes : /\ Failed(rows[s], seen[s]) \in Row
                          /\ Succeeded(rows[s], seen[s]) \in Row
                          /\ Flipped(rows[s], seen[s]) \in Row
                          /\ ClosedRow(rows[s], seen[s]) \in Row
    BY <1>1, RowTypes
  <1>3. lost' \in BOOLEAN
    BY DEF Write, TypeOK
  <1>4. CASE Write(D, Failed, seen)
    BY <1>1, <1>2, <1>3, <1>4 DEF Write
  <1>5. CASE Write(D, Succeeded, seen)
    BY <1>1, <1>2, <1>3, <1>5 DEF Write
  <1>6. CASE Write(D, Flipped, seen)
    BY <1>1, <1>2, <1>3, <1>6 DEF Write
  <1>7. CASE Write(D, ClosedRow, seen)
    BY <1>1, <1>2, <1>3, <1>7 DEF Write
  <1> QED
    BY <1>4, <1>5, <1>6, <1>7

\* The history of failures stays a count.
LEMMA TallyType ==
    ASSUME TypeOK, NEW F, NEW C, Tally(F, C)
    PROVE  streak' \in [Scopes -> Nat]
  BY DEF Tally, TypeOK

\* Every step of a gateway call keeps the types.
LEMMA UserType ==
    ASSUME TypeOK, NEW u \in Users,
           \/ CheckPasses(u) \/ CheckFindsDue(u) \/ CommitCheck(u) \/ NoReport(u)
           \/ ReadFailure(u) \/ CommitFailure(u) \/ ReadSuccess(u) \/ CommitSuccess(u)
    PROVE  TypeOK'
  <1>0. u \in Actors /\ \A lock : LoadedFirst(lock) \in SUBSET Scopes
    BY DEF Actors, LoadedFirst, Scopes
  <1>1. CASE CheckPasses(u)
    BY <1>1 DEF TypeOK, CheckPasses
  <1>2. CASE CheckFindsDue(u)
    <2>1. DOMAIN tx' = Actors /\ \A q \in Actors : tx'[q] = NoTx \/ IsTx(tx'[q])
      BY <1>0, <1>2, BeginType DEF CheckFindsDue, TxKind
    <2> QED
      BY <1>2, <2>1 DEF TypeOK, CheckFindsDue
  <1>3. CASE CommitCheck(u)
    <2>1. SeenBy(u) \in [Scopes -> Row]
      BY <1>0, <1>3, SeenType DEF CommitCheck, Running
    <2>2. rows' \in [Scopes -> Row] /\ lost' \in BOOLEAN
      BY <1>3, <2>1, WriteTypes DEF CommitCheck
    <2>3. DOMAIN tx' = Actors /\ \A q \in Actors : tx'[q] = NoTx \/ IsTx(tx'[q])
      BY <1>0, <1>3, EndType DEF CommitCheck
    <2>4. inflight' \in SUBSET Users
      BY <1>3 DEF CommitCheck, TypeOK
    <2> QED
      BY <1>3, <2>2, <2>3, <2>4 DEF TypeOK, CommitCheck
  <1>4. CASE NoReport(u)
    BY <1>4 DEF TypeOK, NoReport
  <1>5. CASE ReadFailure(u)
    <2>1. DOMAIN tx' = Actors /\ \A q \in Actors : tx'[q] = NoTx \/ IsTx(tx'[q])
      BY <1>0, <1>5, BeginType DEF ReadFailure, TxKind
    <2>2. failures' \in 0 .. MaxFailures
      BY <1>5, BoundsAssumption DEF ReadFailure, TypeOK
    <2> QED
      BY <1>5, <2>1, <2>2 DEF TypeOK, ReadFailure
  <1>6. CASE CommitFailure(u)
    <2>1. SeenBy(u) \in [Scopes -> Row]
      BY <1>0, <1>6, SeenType DEF CommitFailure, Running
    <2>2. rows' \in [Scopes -> Row] /\ lost' \in BOOLEAN
      BY <1>6, <2>1, WriteTypes DEF CommitFailure, TypeOK
    <2>3. DOMAIN tx' = Actors /\ \A q \in Actors : tx'[q] = NoTx \/ IsTx(tx'[q])
      BY <1>0, <1>6, EndType DEF CommitFailure
    <2>4. streak' \in [Scopes -> Nat]
      BY <1>6, TallyType DEF CommitFailure
    <2> QED
      BY <1>6, <2>2, <2>3, <2>4 DEF TypeOK, CommitFailure
  <1>7. CASE ReadSuccess(u)
    <2>1. DOMAIN tx' = Actors /\ \A q \in Actors : tx'[q] = NoTx \/ IsTx(tx'[q])
      BY <1>0, <1>7, BeginType DEF ReadSuccess, TxKind
    <2> QED
      BY <1>7, <2>1 DEF TypeOK, ReadSuccess
  <1>8. CASE CommitSuccess(u)
    <2>1. SeenBy(u) \in [Scopes -> Row]
      BY <1>0, <1>8, SeenType DEF CommitSuccess, Running
    <2>2. rows' \in [Scopes -> Row] /\ lost' \in BOOLEAN
      BY <1>8, <2>1, WriteTypes DEF CommitSuccess
    <2>3. DOMAIN tx' = Actors /\ \A q \in Actors : tx'[q] = NoTx \/ IsTx(tx'[q])
      BY <1>0, <1>8, EndType DEF CommitSuccess
    <2>4. streak' \in [Scopes -> Nat]
      BY <1>8, TallyType DEF CommitSuccess
    <2> QED
      BY <1>8, <2>2, <2>3, <2>4 DEF TypeOK, CommitSuccess
  <1> QED
    BY <1>1, <1>2, <1>3, <1>4, <1>5, <1>6, <1>7, <1>8

\* Every step of a probe keeps the types.
LEMMA ProbeType ==
    ASSUME TypeOK, NEW p \in Probers,
           \/ ProbeRead(p) \/ ProbeMark(p) \/ ProbeCommit(p) \/ ProbeRaises(p)
           \/ \E ok \in BOOLEAN : ProbeAnswers(p, ok)
    PROVE  TypeOK'
  <1>0. p \in Actors /\ probing[p] \in SUBSET Scopes
    BY DEF Actors, TypeOK
  <1>1. CASE ProbeRead(p)
    <2>1. Candidates(rows) \in SUBSET Scopes
      BY DEF Candidates
    <2>2. DOMAIN tx' = Actors /\ \A q \in Actors : tx'[q] = NoTx \/ IsTx(tx'[q])
      BY <1>0, <1>1, <2>1, BeginType DEF ProbeRead, TxKind
    <2> QED
      BY <1>1, <2>2 DEF TypeOK, ProbeRead
  <1>2. CASE ProbeMark(p)
    <2>1. SeenBy(p) \in [Scopes -> Row]
      BY <1>0, <1>2, SeenType DEF ProbeMark, Running
    <2>2. IsTx(tx[p])
      BY <1>0, <1>2 DEF ProbeMark, Running, TypeOK, NoTx
    <2>3. DOMAIN tx[p].seen \in SUBSET Scopes
      BY <2>2 DEF IsTx
    <2>4. rows' \in [Scopes -> Row] /\ lost' \in BOOLEAN
      BY <1>2, <2>1, <2>3, WriteTypes DEF ProbeMark
    <2>5. DOMAIN tx' = Actors /\ \A q \in Actors : tx'[q] = NoTx \/ IsTx(tx'[q])
      BY <1>0, <1>2, EndType DEF ProbeMark
    <2>6. probing' \in [Probers -> SUBSET Scopes]
      BY <1>2, <2>3 DEF ProbeMark, TypeOK
    <2> QED
      BY <1>2, <2>4, <2>5, <2>6 DEF TypeOK, ProbeMark
  <1>3. CASE ProbeCommit(p)
    <2>1. SeenBy(p) \in [Scopes -> Row]
      BY <1>0, <1>3, SeenType DEF ProbeCommit
    <2>2. rows' \in [Scopes -> Row] /\ lost' \in BOOLEAN
      BY <1>0, <1>3, <2>1, WriteTypes DEF ProbeCommit
    <2>3. DOMAIN tx' = Actors /\ \A q \in Actors : tx'[q] = NoTx \/ IsTx(tx'[q])
      BY <1>0, <1>3, EndType DEF ProbeCommit
    <2>4. streak' \in [Scopes -> Nat]
      BY <1>3, TallyType DEF ProbeCommit
    <2>5. probing' \in [Probers -> SUBSET Scopes]
      BY <1>3 DEF ProbeCommit, TypeOK
    <2> QED
      BY <1>3, <2>2, <2>3, <2>4, <2>5 DEF TypeOK, ProbeCommit
  <1>4. CASE ProbeRaises(p)
    <2>1. crashes' \in 0 .. MaxCrashes
      BY <1>4, BoundsAssumption DEF ProbeRaises, TypeOK
    <2>2. probing' \in [Probers -> SUBSET Scopes]
      BY <1>4 DEF ProbeRaises, TypeOK
    <2> QED
      BY <1>4, <2>1, <2>2 DEF TypeOK, ProbeRaises
  <1>5. ASSUME NEW ok \in BOOLEAN, ProbeAnswers(p, ok)
        PROVE  TypeOK'
    <2>1. DOMAIN tx' = Actors /\ \A q \in Actors : tx'[q] = NoTx \/ IsTx(tx'[q])
      <3>1. CASE ok
        BY <1>0, <1>5, <3>1, BeginType DEF ProbeAnswers, TxKind
      <3>2. CASE ~ok
        BY <1>0, <1>5, <3>2, BeginType DEF ProbeAnswers, TxKind
      <3> QED
        BY <3>1, <3>2
    <2>2. failures' \in 0 .. MaxFailures
      BY <1>5, BoundsAssumption DEF ProbeAnswers, TypeOK
    <2> QED
      BY <1>5, <2>1, <2>2 DEF TypeOK, ProbeAnswers
  <1> QED
    BY <1>1, <1>2, <1>3, <1>4, <1>5

\* Resets, crashes and the passing of time keep the types.
LEMMA OtherType ==
    ASSUME TypeOK,
           \/ \E p \in Operators, s \in Scopes : ReadReset(p, s) \/ CommitReset(p, s)
           \/ \E p \in Actors : Rollback(p)
           \/ \E s \in Scopes : CooldownEnds(s)
    PROVE  TypeOK'
  <1>1. ASSUME NEW p \in Operators, NEW s \in Scopes, ReadReset(p, s)
        PROVE  TypeOK'
    <2>1. p \in Actors /\ {s} \in SUBSET Scopes /\ ResetOf(s) \in TxKind
      BY DEF Actors, ResetOf, TxKind
    <2>2. DOMAIN tx' = Actors /\ \A q \in Actors : tx'[q] = NoTx \/ IsTx(tx'[q])
      BY <1>1, <2>1, BeginType DEF ReadReset
    <2>3. resets' \in 0 .. MaxResets
      BY <1>1, BoundsAssumption DEF ReadReset, TypeOK
    <2> QED
      BY <1>1, <2>2, <2>3 DEF TypeOK, ReadReset
  <1>2. ASSUME NEW p \in Operators, NEW s \in Scopes, CommitReset(p, s)
        PROVE  TypeOK'
    <2>1. p \in Actors /\ {s} \in SUBSET Scopes
      BY DEF Actors
    <2>2. SeenBy(p) \in [Scopes -> Row]
      BY <1>2, <2>1, SeenType DEF CommitReset, Running, ResetOf
    <2>3. rows' \in [Scopes -> Row] /\ lost' \in BOOLEAN
      BY <1>2, <2>1, <2>2, WriteTypes DEF CommitReset
    <2>4. DOMAIN tx' = Actors /\ \A q \in Actors : tx'[q] = NoTx \/ IsTx(tx'[q])
      BY <1>2, <2>1, EndType DEF CommitReset
    <2>5. streak' \in [Scopes -> Nat]
      BY <1>2, TallyType DEF CommitReset
    <2> QED
      BY <1>2, <2>3, <2>4, <2>5 DEF TypeOK, CommitReset
  <1>3. ASSUME NEW p \in Actors, Rollback(p)
        PROVE  TypeOK'
    <2>1. DOMAIN tx' = Actors /\ \A q \in Actors : tx'[q] = NoTx \/ IsTx(tx'[q])
      BY <1>3, EndType DEF Rollback
    <2>2. crashes' \in 0 .. MaxCrashes
      BY <1>3, BoundsAssumption DEF Rollback, TypeOK
    <2>3. probing' \in [Probers -> SUBSET Scopes]
      BY <1>3 DEF Rollback, TypeOK
    <2> QED
      BY <1>3, <2>1, <2>2, <2>3 DEF TypeOK, Rollback
  <1>4. ASSUME NEW s \in Scopes, CooldownEnds(s)
        PROVE  TypeOK'
    <2>1. [rows[s] EXCEPT !.due = TRUE] \in Row
      BY DEF TypeOK, Row
    <2>2. rows' = [rows EXCEPT ![s] = [rows[s] EXCEPT !.due = TRUE]]
      BY <1>4 DEF CooldownEnds
    <2>3. rows' \in [Scopes -> Row]
      BY <2>1, <2>2 DEF TypeOK
    <2> QED
      BY <1>4, <2>3 DEF TypeOK, CooldownEnds
  <1> QED
    BY <1>1, <1>2, <1>3, <1>4

\* Type correctness is inductive.
LEMMA TypeStep ==
    TypeOK /\ [Next]_vars => TypeOK'
  <1>1. ASSUME TypeOK, UNCHANGED vars
        PROVE  TypeOK'
    BY <1>1 DEF TypeOK, vars, IsTx
  <1>2. ASSUME TypeOK, Next
        PROVE  TypeOK'
    <2>1. ASSUME NEW u \in Users,
                 \/ CheckPasses(u) \/ CheckFindsDue(u) \/ CommitCheck(u) \/ NoReport(u)
                 \/ ReadFailure(u) \/ CommitFailure(u) \/ ReadSuccess(u) \/ CommitSuccess(u)
          PROVE  TypeOK'
      BY <1>2, <2>1, UserType
    <2>2. ASSUME NEW p \in Probers,
                 \/ ProbeRead(p) \/ ProbeMark(p) \/ ProbeCommit(p) \/ ProbeRaises(p)
                 \/ \E ok \in BOOLEAN : ProbeAnswers(p, ok)
          PROVE  TypeOK'
      BY <1>2, <2>2, ProbeType
    <2> QED
      BY <1>2, <2>1, <2>2, OtherType DEF Next
  <1> QED
    BY <1>1, <1>2

\* Every variable keeps its type (CircuitBreaker), for any number of calls,
\* probes and operators.
THEOREM TypeCorrect == Spec => []TypeOK
  <1>1. Init => TypeOK
    <2>1. NoRow \in Row
      BY DEF NoRow, Row, State
    <2> QED
      <3>1. Init => rows \in [Scopes -> Row] /\ streak \in [Scopes -> Nat]
        BY <2>1 DEF Init
      <3>2. Init => failures \in 0 .. MaxFailures /\ crashes \in 0 .. MaxCrashes
                    /\ resets \in 0 .. MaxResets
        BY BoundsAssumption DEF Init
      <3>3. Init => /\ DOMAIN tx = Actors
                    /\ \A p \in Actors : tx[p] = NoTx \/ IsTx(tx[p])
        BY DEF Init
      <3>4. Init => inflight \in SUBSET Users /\ probing \in [Probers -> SUBSET Scopes]
                    /\ lost \in BOOLEAN
        BY DEF Init
      <3> QED
        BY <3>1, <3>2, <3>3, <3>4 DEF TypeOK
  <1> QED
    BY <1>1, TypeStep, PTL DEF Spec

-----------------------------------------------------------------------------
(* The count of failures *)

\* Every step of a gateway call keeps the counts exact, or loses an update.
LEMMA UserCounts ==
    ASSUME TypeOK, NEW u \in Users, \A s \in Scopes : Exact(rows[s], streak[s]), ~lost',
           \/ CheckPasses(u) \/ CheckFindsDue(u) \/ CommitCheck(u) \/ NoReport(u)
           \/ ReadFailure(u) \/ CommitFailure(u) \/ ReadSuccess(u) \/ CommitSuccess(u)
    PROVE  \A s \in Scopes : Exact(rows'[s], streak'[s])
  <1>0. u \in Actors
    BY DEF Actors
  <1>1. CASE CheckPasses(u) \/ CheckFindsDue(u) \/ NoReport(u) \/ ReadFailure(u) \/ ReadSuccess(u)
    BY <1>1 DEF CheckPasses, CheckFindsDue, NoReport, ReadFailure, ReadSuccess
  <1>2. CASE CommitCheck(u)
    <2>1. SeenBy(u) \in [Scopes -> Row]
      BY <1>0, <1>2, SeenType DEF CommitCheck, Running
    <2> QED
      BY <1>2, <2>1, WriteFlipped DEF CommitCheck
  <1>3. CASE CommitFailure(u)
    <2>1. SeenBy(u) \in [Scopes -> Row]
      BY <1>0, <1>3, SeenType DEF CommitFailure, Running
    <2>2. Write(Scopes, Failed, SeenBy(u)) /\ Tally(Scopes, {})
      BY <1>3 DEF CommitFailure
    <2> QED
      BY <2>1, <2>2, WriteFailed
  <1>4. CASE CommitSuccess(u)
    <2>1. SeenBy(u) \in [Scopes -> Row]
      BY <1>0, <1>4, SeenType DEF CommitSuccess, Running
    <2>2. Scopes \cap HalfOpen(SeenBy(u)) = HalfOpen(SeenBy(u))
      BY DEF HalfOpen
    <2> QED
      BY <1>4, <2>1, <2>2, WriteSucceeded DEF CommitSuccess
  <1> QED
    BY <1>1, <1>2, <1>3, <1>4

\* The same of a probe.
LEMMA ProbeCounts ==
    ASSUME TypeOK, NEW p \in Probers, \A s \in Scopes : Exact(rows[s], streak[s]), ~lost',
           \/ ProbeRead(p) \/ ProbeMark(p) \/ ProbeCommit(p) \/ ProbeRaises(p)
           \/ \E ok \in BOOLEAN : ProbeAnswers(p, ok)
    PROVE  \A s \in Scopes : Exact(rows'[s], streak'[s])
  <1>0. p \in Actors /\ probing[p] \in SUBSET Scopes
    BY DEF Actors, TypeOK
  <1>1. CASE ProbeRead(p) \/ ProbeRaises(p) \/ \E ok \in BOOLEAN : ProbeAnswers(p, ok)
    BY <1>1 DEF ProbeRead, ProbeRaises, ProbeAnswers
  <1>2. CASE ProbeMark(p)
    <2>1. SeenBy(p) \in [Scopes -> Row]
      BY <1>0, <1>2, SeenType DEF ProbeMark, Running
    <2>2. IsTx(tx[p])
      BY <1>0, <1>2 DEF ProbeMark, Running, TypeOK, NoTx
    <2>3. DOMAIN tx[p].seen \in SUBSET Scopes
      BY <2>2 DEF IsTx
    <2> QED
      BY <1>2, <2>1, <2>3, WriteFlipped DEF ProbeMark
  <1>3. CASE ProbeCommit(p)
    <2>1. SeenBy(p) \in [Scopes -> Row]
      BY <1>0, <1>3, SeenType DEF ProbeCommit
    <2>2. CASE Running(p, "probe_ok")
      BY <1>0, <1>3, <2>1, <2>2, WriteSucceeded DEF ProbeCommit
    <2>3. CASE ~Running(p, "probe_ok")
      BY <1>0, <1>3, <2>1, <2>3, WriteFailed DEF ProbeCommit
    <2> QED
      BY <2>2, <2>3
  <1> QED
    BY <1>1, <1>2, <1>3

\* The same of resets, crashes and time.
LEMMA OtherCounts ==
    ASSUME TypeOK, \A s \in Scopes : Exact(rows[s], streak[s]), ~lost',
           \/ \E p \in Operators, s \in Scopes : ReadReset(p, s) \/ CommitReset(p, s)
           \/ \E p \in Actors : Rollback(p)
           \/ \E s \in Scopes : CooldownEnds(s)
    PROVE  \A s \in Scopes : Exact(rows'[s], streak'[s])
  <1>1. ASSUME NEW p \in Operators, NEW r \in Scopes, ReadReset(p, r)
        PROVE  \A s \in Scopes : Exact(rows'[s], streak'[s])
    BY <1>1 DEF ReadReset
  <1>2. ASSUME NEW p \in Operators, NEW r \in Scopes, CommitReset(p, r)
        PROVE  \A s \in Scopes : Exact(rows'[s], streak'[s])
    <2>1. SeenBy(p) \in [Scopes -> Row]
      BY <1>2, SeenType DEF CommitReset, Running, ResetOf, Actors
    <2> QED
      BY <1>2, <2>1, WriteClosed DEF CommitReset
  <1>3. ASSUME NEW p \in Actors, Rollback(p)
        PROVE  \A s \in Scopes : Exact(rows'[s], streak'[s])
    BY <1>3 DEF Rollback
  <1>4. ASSUME NEW r \in Scopes, CooldownEnds(r)
        PROVE  \A s \in Scopes : Exact(rows'[s], streak'[s])
    <2> SUFFICES ASSUME NEW s \in Scopes
                 PROVE  Exact(rows'[s], streak'[s])
      OBVIOUS
    <2>1. rows[s] \in Row
      BY DEF TypeOK
    <2>2. rows'[s].state = rows[s].state /\ rows'[s].count = rows[s].count
      BY <1>4, <2>1 DEF CooldownEnds, TypeOK, Row
    <2> QED
      BY <1>4, <2>2 DEF CooldownEnds, Exact
  <1> QED
    BY <1>1, <1>2, <1>3, <1>4

\* No step forgets that an update was lost.
LEMMA LostStays ==
    ASSUME [Next]_vars, lost
    PROVE  lost'
  BY DEF Next, vars, CheckPasses, CheckFindsDue, CommitCheck, NoReport, ReadFailure,
         CommitFailure, ReadSuccess, CommitSuccess, ProbeRead, ProbeMark, ProbeCommit,
         ProbeRaises, ProbeAnswers, ReadReset, CommitReset, Rollback, CooldownEnds, Write

\* CountsEveryFailure is inductive relative to the types.
LEMMA CountsStep ==
    TypeOK /\ CountsEveryFailure /\ [Next]_vars => CountsEveryFailure'
  <1> SUFFICES ASSUME TypeOK, CountsEveryFailure, [Next]_vars, ~lost'
               PROVE  \A s \in Scopes : Exact(rows'[s], streak'[s])
    BY DEF CountsEveryFailure, Exact
  <1>1. \A s \in Scopes : Exact(rows[s], streak[s])
    BY LostStays DEF CountsEveryFailure, Exact
  <1>2. CASE UNCHANGED vars
    BY <1>1, <1>2 DEF vars
  <1>3. CASE Next
    BY <1>1, <1>3, UserCounts, ProbeCounts, OtherCounts DEF Next
  <1> QED
    BY <1>2, <1>3

\* Unless an update was lost, a breaker row counts every failure since it last
\* closed, and is open or half-open exactly from the threshold on.
THEOREM BreakerExact == Spec => []CountsEveryFailure
  <1>1. Init => CountsEveryFailure
    BY DEF Init, CountsEveryFailure, NoRow
  <1> QED
    BY <1>1, CountsStep, TypeCorrect, PTL DEF Spec

-----------------------------------------------------------------------------
(* Reopening *)

\* A commit of failures opens the half-open rows it counts on.
LEMMA FailureOpens ==
    ASSUME TypeOK, NEW seen \in [Scopes -> Row], NEW D \in SUBSET Scopes, NEW s \in Scopes,
           Exact(rows[s], streak[s]), rows[s].state = "half_open",
           Write(D, Failed, seen), ~lost', Tally(D, {}), streak'[s] > streak[s]
    PROVE  rows'[s].state = "open"
  <1>1. rows[s] \in Row /\ seen[s] \in Row /\ streak[s] \in Nat
    BY DEF TypeOK
  <1>2. s \in D
    BY <1>1 DEF Tally
  <1>3. Failed(seen[s], seen[s]) # seen[s]
    BY <1>1, Writes
  <1>4. Same(rows[s], seen[s]) /\ rows'[s] = Failed(rows[s], seen[s])
    BY <1>2, <1>3 DEF Write, Same
  <1>5. seen[s].count + 1 >= Threshold /\ seen[s].state # "open"
    <2>1. ~(streak[s] < Threshold)
      BY DEF Exact
    <2>2. seen[s].state = "half_open" /\ seen[s].count = streak[s]
      BY <1>4 DEF Exact, Same
    <2>3. streak[s] + 1 >= Threshold
      BY <1>1, <2>1
    <2> QED
      BY <2>2, <2>3
  <1>6. Failed(rows[s], seen[s]).state = "open"
    BY <1>5 DEF Failed, Opens
  <1> QED
    BY <1>4, <1>6

\* Counting no failure never raises a streak.
LEMMA NoFailureCounted ==
    ASSUME TypeOK, NEW C, Tally({}, C), NEW s \in Scopes
    PROVE  ~(streak'[s] > streak[s])
  <1>1. streak[s] \in Nat
    BY DEF TypeOK
  <1> QED
    BY <1>1 DEF Tally

\* The step behind HalfOpenFailureReopens.
LEMMA ReopensStep ==
    ASSUME TypeOK, CountsEveryFailure, [Next]_vars, NEW s \in Scopes,
           rows[s].state = "half_open", streak'[s] > streak[s], ~lost'
    PROVE  rows'[s].state = "open"
  <1>1. Exact(rows[s], streak[s]) /\ streak[s] \in Nat
    BY LostStays DEF CountsEveryFailure, Exact, TypeOK
  <1>2. streak' # streak
    BY <1>1
  <1>3. \/ \E u \in Users : CommitFailure(u) \/ CommitSuccess(u)
        \/ \E q \in Probers : ProbeCommit(q)
        \/ \E o \in Operators, t \in Scopes : CommitReset(o, t)
    BY <1>2 DEF Next, vars, Actors, CheckPasses, CheckFindsDue, CommitCheck, NoReport,
                ReadFailure, ReadSuccess, ProbeRead, ProbeMark, ProbeRaises, ProbeAnswers,
                ReadReset, Rollback, CooldownEnds
  <1>4. ASSUME NEW p \in Users, CommitFailure(p)
        PROVE  rows'[s].state = "open"
    <2>1. SeenBy(p) \in [Scopes -> Row]
      BY <1>4, SeenType DEF CommitFailure, Running, Actors
    <2>2. Write(Scopes, Failed, SeenBy(p)) /\ Tally(Scopes, {})
      BY <1>4 DEF CommitFailure
    <2> QED
      BY <1>1, <2>1, <2>2, FailureOpens
  <1>5. ASSUME NEW p \in Users, CommitSuccess(p)
        PROVE  FALSE
    BY <1>5, NoFailureCounted DEF CommitSuccess
  <1>6. ASSUME NEW p \in Probers, ProbeCommit(p)
        PROVE  rows'[s].state = "open"
    <2>1. SeenBy(p) \in [Scopes -> Row]
      BY <1>6, SeenType DEF ProbeCommit, Actors
    <2>2. ~Running(p, "probe_ok")
      BY <1>6, NoFailureCounted DEF ProbeCommit
    <2>3. Write(probing[p], Failed, SeenBy(p)) /\ Tally(probing[p], {})
      BY <1>6, <2>2 DEF ProbeCommit
    <2>4. probing[p] \in SUBSET Scopes
      BY DEF TypeOK
    <2> QED
      BY <1>1, <2>1, <2>3, <2>4, FailureOpens
  <1>7. ASSUME NEW p \in Operators, NEW t \in Scopes, CommitReset(p, t)
        PROVE  FALSE
    BY <1>7, NoFailureCounted DEF CommitReset
  <1> QED
    BY <1>3, <1>4, <1>5, <1>6, <1>7

\* Unless an update was lost, a failure reported while a row is half-open
\* opens it (record_failure): the count is still at the threshold or above.
THEOREM FailedProbeReopens == Spec => HalfOpenFailureReopens
  <1>1. TypeOK /\ CountsEveryFailure /\ [Next]_vars
          => [\A s \in Scopes :
                (rows[s].state = "half_open" /\ streak'[s] > streak[s] /\ ~lost')
                   => rows'[s].state = "open"]_vars
    BY ReopensStep
  <1> QED
    BY <1>1, TypeCorrect, BreakerExact, PTL DEF Spec, HalfOpenFailureReopens

\* A failure committed over a row that keeps writes out leaves it so: nothing
\* in record_failure moves an open row, and a commit over another state is lost.
LEMMA FailedBlocks ==
    ASSUME TypeOK, NEW seen \in [Scopes -> Row], NEW D \in SUBSET Scopes, NEW s \in Scopes,
           Write(D, Failed, seen), ~lost', Blocks(rows[s])
    PROVE  Blocks(rows'[s])
  <1>1. rows[s] \in Row /\ seen[s] \in Row
    BY DEF TypeOK
  <1>2. CASE s \in D
    <2>1. Failed(seen[s], seen[s]) # seen[s]
      BY <1>1, Writes
    <2>2. rows'[s] = Failed(rows[s], seen[s]) /\ seen[s].state = rows[s].state
      BY <1>2, <2>1 DEF Write
    <2>3. ~Opens(seen[s])
      BY <2>2 DEF Blocks, Opens
    <2>4. rows[s].state = "open" /\ ~rows[s].due
      BY DEF Blocks
    <2>5. Failed(rows[s], seen[s]).state = "open"
      BY <2>3, <2>4 DEF Failed
    <2>6. ~Failed(rows[s], seen[s]).due
      BY <2>3, <2>4 DEF Failed
    <2> QED
      BY <2>2, <2>5, <2>6 DEF Blocks
  <1>3. CASE s \notin D
    BY <1>3 DEF Write
  <1> QED
    BY <1>2, <1>3

\* A success committed over it leaves it so too: record_success closes only
\* what it loaded half-open, and then the commit is lost.
LEMMA SucceededBlocks ==
    ASSUME TypeOK, NEW seen \in [Scopes -> Row], NEW D \in SUBSET Scopes, NEW s \in Scopes,
           Write(D, Succeeded, seen), ~lost', Blocks(rows[s])
    PROVE  Blocks(rows'[s])
  <1>1. rows[s] \in Row /\ seen[s] \in Row
    BY DEF TypeOK
  <1>2. CASE s \in D /\ seen[s].state = "half_open"
    <2>1. Succeeded(seen[s], seen[s]) # seen[s]
      BY <1>1, <1>2, Writes
    <2>2. lost'
      BY <1>2, <2>1 DEF Write, Blocks
    <2> QED
      BY <2>2
  <1>3. CASE ~(s \in D /\ seen[s].state = "half_open")
    <2>1. rows'[s] = rows[s]
      BY <1>1, <1>3, Writes DEF Write
    <2> QED
      BY <2>1
  <1> QED
    BY <1>2, <1>3

\* Moving due rows to half-open takes a blocking row only if it was loaded due.
LEMMA FlippedBlocks ==
    ASSUME TypeOK, NEW p, NEW D \in SUBSET Scopes, NEW s \in Scopes,
           tx[p].kind \in {"check", "mark"}, Write(D, Flipped, SeenBy(p)),
           Blocks(rows[s]), ~Blocks(rows'[s])
    PROVE  rows'[s].state = "half_open" /\ SawDue(p, s)
  <1>1. SeenBy(p)[s] = IF s \in DOMAIN tx[p].seen THEN tx[p].seen[s] ELSE rows[s]
    BY DEF SeenBy
  <1>2. rows'[s] # rows[s]
    OBVIOUS
  <1>3. rows'[s] = Flipped(rows[s], SeenBy(p)[s])
    BY <1>2 DEF Write
  <1>4. Flips(SeenBy(p)[s])
    BY <1>2, <1>3 DEF Flipped
  <1>5. ~Flips(rows[s])
    BY DEF Flips, Blocks
  <1>6. SawDue(p, s)
    BY <1>1, <1>4, <1>5 DEF SawDue
  <1>7. rows[s] \in Row
    BY DEF TypeOK
  <1>8. rows'[s].state = "half_open"
    BY <1>3, <1>4, <1>7 DEF Flipped, Row
  <1> QED
    BY <1>6, <1>8

\* The step behind CooldownHolds.
LEMMA CooldownStep ==
    ASSUME TypeOK, [Next]_vars, NEW s \in Scopes,
           Blocks(rows[s]), ~Blocks(rows'[s]), ~lost', ~rows'[s].due
    PROVE  \/ \E p \in Operators : Running(p, ResetOf(s))
           \/ rows'[s].state = "half_open" /\ \E p \in Actors : SawDue(p, s)
  <1>1. rows'[s] # rows[s] /\ rows' # rows
    OBVIOUS
  <1>2. \/ \E u \in Users : CommitCheck(u) \/ CommitFailure(u) \/ CommitSuccess(u)
        \/ \E q \in Probers : ProbeMark(q) \/ ProbeCommit(q)
        \/ \E o \in Operators, t \in Scopes : CommitReset(o, t)
        \/ \E t \in Scopes : CooldownEnds(t)
    BY <1>1 DEF Next, vars, CheckPasses, CheckFindsDue, NoReport, ReadFailure, ReadSuccess,
                ProbeRead, ProbeRaises, ProbeAnswers, ReadReset, Rollback
  <1>3. ASSUME NEW p \in Users, CommitCheck(p)
        PROVE  rows'[s].state = "half_open" /\ \E q \in Actors : SawDue(q, s)
    <2>1. Write(Scopes, Flipped, SeenBy(p)) /\ tx[p].kind \in {"check", "mark"}
      BY <1>3 DEF CommitCheck, Running
    <2>2. rows'[s].state = "half_open" /\ SawDue(p, s)
      BY <2>1, FlippedBlocks
    <2> QED
      BY <2>2 DEF Actors
  <1>4. ASSUME NEW p \in Users, CommitFailure(p)
        PROVE  FALSE
    <2>1. SeenBy(p) \in [Scopes -> Row]
      BY <1>4, SeenType DEF CommitFailure, Running, Actors
    <2>2. Write(Scopes, Failed, SeenBy(p))
      BY <1>1, <1>4 DEF CommitFailure
    <2> QED
      BY <2>1, <2>2, FailedBlocks
  <1>5. ASSUME NEW p \in Users, CommitSuccess(p)
        PROVE  FALSE
    <2>1. SeenBy(p) \in [Scopes -> Row]
      BY <1>5, SeenType DEF CommitSuccess, Running, Actors
    <2>2. Write(Scopes, Succeeded, SeenBy(p))
      BY <1>5 DEF CommitSuccess
    <2> QED
      BY <2>1, <2>2, SucceededBlocks
  <1>6. ASSUME NEW p \in Probers, ProbeMark(p)
        PROVE  rows'[s].state = "half_open" /\ \E q \in Actors : SawDue(q, s)
    <2>1. tx[p].kind \in {"check", "mark"} /\ p \in Actors
      BY <1>6 DEF ProbeMark, Running, Actors
    <2>2. IsTx(tx[p])
      BY <2>1 DEF TypeOK, NoTx
    <2>3. DOMAIN tx[p].seen \in SUBSET Scopes
      BY <2>2 DEF IsTx
    <2>4. Write(DOMAIN tx[p].seen, Flipped, SeenBy(p))
      BY <1>6 DEF ProbeMark
    <2>5. rows'[s].state = "half_open" /\ SawDue(p, s)
      BY <2>1, <2>3, <2>4, FlippedBlocks
    <2> QED
      BY <2>1, <2>5
  <1>7. ASSUME NEW p \in Probers, ProbeCommit(p)
        PROVE  FALSE
    <2>1. SeenBy(p) \in [Scopes -> Row]
      BY <1>7, SeenType DEF ProbeCommit, Actors
    <2>2. probing[p] \in SUBSET Scopes
      BY DEF TypeOK
    <2>3. Write(probing[p], Succeeded, SeenBy(p)) \/ Write(probing[p], Failed, SeenBy(p))
      BY <1>7 DEF ProbeCommit
    <2> QED
      BY <2>1, <2>2, <2>3, SucceededBlocks, FailedBlocks
  <1>8. ASSUME NEW o \in Operators, NEW t \in Scopes, CommitReset(o, t)
        PROVE  Running(o, ResetOf(s))
    <2>1. Write({t}, ClosedRow, SeenBy(o))
      BY <1>8 DEF CommitReset
    <2>2. s = t
      BY <1>1, <2>1 DEF Write
    <2> QED
      BY <1>8, <2>2 DEF CommitReset
  <1>9. ASSUME NEW t \in Scopes, CooldownEnds(t)
        PROVE  FALSE
    BY <1>1, <1>9 DEF CooldownEnds, TypeOK, Row
  <1> QED
    BY <1>2, <1>3, <1>4, <1>5, <1>6, <1>7, <1>8, <1>9

\* An open row keeps writes out (is_open) until its cooldown is over, unless an
\* operator resets it, an update was lost, or a transaction that loaded the row
\* due, before it was closed and opened again, moves it to half-open.
THEOREM CooldownKept == Spec => CooldownHolds
  <1>1. TypeOK /\ [Next]_vars
          => [\A s \in Scopes :
                (Blocks(rows[s]) /\ ~Blocks(rows'[s]))
                   => \/ lost' \/ rows'[s].due
                      \/ \E p \in Operators : Running(p, ResetOf(s))
                      \/ rows'[s].state = "half_open" /\ \E p \in Actors : SawDue(p, s)]_vars
    BY CooldownStep
  <1> QED
    BY <1>1, TypeCorrect, PTL DEF Spec, CooldownHolds

=============================================================================
