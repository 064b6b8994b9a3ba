--------------------------- MODULE CircuitBreaker ---------------------------
(***************************************************************************)
(* The circuit breakers of one marketplace account: the account's row and  *)
(* the row of one operation.  Gateway calls check the rows before a write  *)
(* and report its outcome afterwards, the probe workflow tests what is     *)
(* open, and an operator resets.  Each of these is a transaction that      *)
(* reads rows, computes, and updates what it read; nothing compares        *)
(* versions, so two of them can overlap.  A transaction is two actions:    *)
(* the reads, and the writes with the commit.  Updates of one row are      *)
(* serialised by its lock, which an updating transaction holds to its end. *)
(***************************************************************************)
EXTENDS BreakerRow, FiniteSets

CONSTANTS
    Users,          \* concurrent gateway calls that write
    Probers,        \* executions of the circuit_breaker_probe workflow
    Operators,      \* operators running "breaker reset"
    MaxFailures,    \* bound: reported failures
    MaxCrashes,     \* bound: transactions and probes cut short
    MaxResets       \* bound: resets

ASSUME ActorsDiffer == Users \cap Probers = {} /\ Users \cap Operators = {}
                       /\ Probers \cap Operators = {}
ASSUME BoundsAssumption == MaxFailures \in Nat /\ MaxCrashes \in Nat /\ MaxResets \in Nat

VARIABLES
    rows,       \* the row of each scope
    tx,         \* the open transaction of each actor
    inflight,   \* calls past the check that have not reported
    probing,    \* the rows a probe has marked and not reported on
    failures,   \* failures reported so far (model bound)
    crashes,    \* crashes so far (model bound)
    resets,     \* resets so far (model bound)
    streak,     \* history: failures reported of the row since it last closed
    lost        \* history: a commit overwrote or met a change it had not seen

vars == <<rows, tx, inflight, probing, failures, crashes, resets, streak, lost>>

Scopes == {"account", "operation"}
Actors == Users \cup Probers \cup Operators

NoTx == [kind |-> "none"]
TxKind == {"check", "failure", "success", "mark", "probe_ok", "probe_failed",
           "reset_account", "reset_operation"}
\* seen: the rows the transaction has loaded.
IsTx(t) == /\ t.kind \in TxKind
           /\ \E D \in SUBSET Scopes : t.seen \in [D -> Row]

TypeOK ==
    /\ rows \in [Scopes -> Row]
    /\ DOMAIN tx = Actors /\ \A p \in Actors : tx[p] = NoTx \/ IsTx(tx[p])
    /\ inflight \in SUBSET Users
    /\ probing \in [Probers -> SUBSET Scopes]
    /\ failures \in 0 .. MaxFailures
    /\ crashes \in 0 .. MaxCrashes
    /\ resets \in 0 .. MaxResets
    /\ streak \in [Scopes -> Nat]
    /\ lost \in BOOLEAN

Init ==
    /\ rows = [s \in Scopes |-> NoRow]
    /\ tx = [p \in Actors |-> NoTx]
    /\ inflight = {}
    /\ probing = [p \in Probers |-> {}]
    /\ failures = 0
    /\ crashes = 0
    /\ resets = 0
    /\ streak = [s \in Scopes |-> 0]
    /\ lost = FALSE

-----------------------------------------------------------------------------
(* Transactions *)

\* The reads: the transaction has loaded the rows of D.
Begin(p, kind, D) == tx' = [tx EXCEPT ![p] = [kind |-> kind, seen |-> [s \in D |-> rows[s]]]]
Running(p, kind) == tx[p].kind = kind
End(p) == tx' = [tx EXCEPT ![p] = NoTx]

\* What p computes from: the rows it loaded, and for the others the rows as
\* they are when it writes.  A transaction that updates the account's row
\* reads the operation's row only with the account's lock in hand.
SeenBy(p) == [s \in Scopes |-> IF s \in DOMAIN tx[p].seen THEN tx[p].seen[s] ELSE rows[s]]
LoadedFirst(lock) == IF lock THEN {"account"} ELSE Scopes

\* A commit of update(now, seen) for the scopes of D.  Only a row that the
\* update changes as it was seen is written.
Write(D, update(_, _), seen) ==
    LET W == {s \in D : update(seen[s], seen[s]) # seen[s]}
    IN  /\ rows' = [s \in Scopes |-> IF s \in W THEN update(rows[s], seen[s]) ELSE rows[s]]
        /\ lost' = (lost \/ \E s \in W : \/ seen[s].state # rows[s].state
                                         \/ seen[s].count # rows[s].count)

HalfOpen(r) == {s \in Scopes : r[s].state = "half_open"}

\* streak after failures of the rows F were reported and the rows C closed.
Tally(F, C) ==
    streak' = [s \in Scopes |-> IF s \in C THEN 0
                                ELSE IF s \in F THEN streak[s] + 1 ELSE streak[s]]

-----------------------------------------------------------------------------
(* Gateway calls *)

MayCheck(u) == u \notin inflight /\ Running(u, "none")

\* Every breaker lets the write through.
CheckPasses(u) ==
    /\ MayCheck(u)
    /\ \A s \in Scopes : ~Blocks(rows[s]) /\ ~Flips(rows[s])
    /\ inflight' = inflight \cup {u}
    /\ UNCHANGED <<rows, tx, probing, failures, crashes, resets, streak, lost>>

\* A cooldown is over: the check will move the row to half-open.  The
\* operation's row is reached only if the account's does not block.
CheckFindsDue(u) ==
    /\ MayCheck(u)
    /\ \/ Flips(rows["account"])
       \/ ~Blocks(rows["account"]) /\ Flips(rows["operation"])
    /\ Begin(u, "check", LoadedFirst(Flips(rows["account"])))
    /\ UNCHANGED <<rows, inflight, probing, failures, crashes, resets, streak, lost>>

CommitCheck(u) ==
    /\ Running(u, "check")
    /\ LET seen == SeenBy(u)
       IN  /\ Write(Scopes, Flipped, seen)
           /\ inflight' = IF \E s \in Scopes : Blocks(seen[s])
                          THEN inflight ELSE inflight \cup {u}
    /\ End(u)
    /\ UNCHANGED <<probing, failures, crashes, resets, streak>>

\* The call ends with nothing to report: a category that does not count, or
\* an exception.
NoReport(u) ==
    /\ u \in inflight
    /\ inflight' = inflight \ {u}
    /\ UNCHANGED <<rows, tx, probing, failures, crashes, resets, streak, lost>>

\* _record_breaker_failure
ReadFailure(u) ==
    /\ u \in inflight
    /\ failures < MaxFailures
    /\ failures' = failures + 1
    /\ inflight' = inflight \ {u}
    /\ Begin(u, "failure", LoadedFirst(TRUE))
    /\ UNCHANGED <<rows, probing, crashes, resets, streak, lost>>

\* The account's row is updated first, so only its value can be out of date.
\* Two first failures both insert it: one of them raises out of the call.
CommitFailure(u) ==
    /\ Running(u, "failure")
    /\ LET seen == SeenBy(u)
       IN  IF Conflicts(rows["account"], seen["account"])
           THEN lost' = TRUE /\ UNCHANGED rows
           ELSE Write(Scopes, Failed, seen)
    /\ Tally(Scopes, {})
    /\ End(u)
    /\ UNCHANGED <<inflight, probing, failures, crashes, resets>>

\* _record_breaker_success
ReadSuccess(u) ==
    /\ u \in inflight
    /\ inflight' = inflight \ {u}
    /\ Begin(u, "success", LoadedFirst(rows["account"].state = "half_open"))
    /\ UNCHANGED <<rows, probing, failures, crashes, resets, streak, lost>>

CommitSuccess(u) ==
    /\ Running(u, "success")
    /\ LET seen == SeenBy(u)
       IN  Write(Scopes, Succeeded, seen) /\ Tally({}, HalfOpen(seen))
    /\ End(u)
    /\ UNCHANGED <<inflight, probing, failures, crashes, resets>>

-----------------------------------------------------------------------------
(* The circuit_breaker_probe workflow *)

\* Seeded fault: rows that are already half-open are left out.
OpenCandidates(r) == {s \in Scopes : r[s].state = "open" /\ r[s].due}

\* Rows a probe takes up: open or half-open, with the cooldown over.
Candidates(r) == {s \in Scopes : r[s].state \in {"open", "half_open"} /\ r[s].due}

ProbeRead(p) ==
    /\ Running(p, "none") /\ probing[p] = {}
    /\ Candidates(rows) # {}
    /\ Begin(p, "mark", Candidates(rows))
    /\ UNCHANGED <<rows, inflight, probing, failures, crashes, resets, streak, lost>>

ProbeMark(p) ==
    /\ Running(p, "mark")
    /\ LET found == DOMAIN tx[p].seen
       IN  /\ Write(found, Flipped, SeenBy(p))
           /\ probing' = [probing EXCEPT ![p] = found]
    /\ End(p)
    /\ UNCHANGED <<inflight, failures, crashes, resets, streak>>

\* The health check has answered; the second transaction lists every row.
ProbeAnswers(p, ok) ==
    /\ Running(p, "none") /\ probing[p] # {}
    /\ ok \/ failures < MaxFailures
    /\ failures' = IF ok THEN failures ELSE failures + 1
    /\ Begin(p, IF ok THEN "probe_ok" ELSE "probe_failed", probing[p])
    /\ UNCHANGED <<rows, inflight, probing, crashes, resets, streak, lost>>

ProbeCommit(p) ==
    /\ tx[p].kind \in {"probe_ok", "probe_failed"}
    /\ LET seen == SeenBy(p)
       IN  IF Running(p, "probe_ok")
           THEN Write(probing[p], Succeeded, seen) /\ Tally({}, probing[p] \cap HalfOpen(seen))
           ELSE Write(probing[p], Failed, seen) /\ Tally(probing[p], {})
    /\ probing' = [probing EXCEPT ![p] = {}]
    /\ End(p)
    /\ UNCHANGED <<inflight, failures, crashes, resets>>

\* The health check raises: the rows it marked stay half-open.
ProbeRaises(p) ==
    /\ Running(p, "none") /\ probing[p] # {}
    /\ crashes < MaxCrashes
    /\ crashes' = crashes + 1
    /\ probing' = [probing EXCEPT ![p] = {}]
    /\ UNCHANGED <<rows, tx, inflight, failures, resets, streak, lost>>

-----------------------------------------------------------------------------
(* Operators, crashes and time *)

ResetOf(s) == IF s = "account" THEN "reset_account" ELSE "reset_operation"

ReadReset(p, s) ==
    /\ Running(p, "none")
    /\ rows[s].state # "absent"
    /\ resets < MaxResets
    /\ resets' = resets + 1
    /\ Begin(p, ResetOf(s), {s})
    /\ UNCHANGED <<rows, inflight, probing, failures, crashes, streak, lost>>

CommitReset(p, s) ==
    /\ Running(p, ResetOf(s))
    /\ LET seen == SeenBy(p)
       IN  /\ Write({s}, ClosedRow, seen)
           /\ Tally({}, {t \in {s} : ClosedRow(seen[t], seen[t]) # seen[t]})
    /\ End(p)
    /\ UNCHANGED <<inflight, probing, failures, crashes, resets>>

\* A process dies inside a transaction, which rolls back.
Rollback(p) ==
    /\ tx[p] # NoTx
    /\ crashes < MaxCrashes
    /\ crashes' = crashes + 1
    /\ End(p)
    /\ probing' = [q \in Probers |-> IF q = p THEN {} ELSE probing[q]]
    /\ UNCHANGED <<rows, inflight, failures, resets, streak, lost>>

\* next_probe_at passes.
CooldownEnds(s) ==
    /\ rows[s].state \in {"open", "half_open"}
    /\ ~rows[s].due
    /\ rows' = [rows EXCEPT ![s].due = TRUE]
    /\ UNCHANGED <<tx, inflight, probing, failures, crashes, resets, streak, lost>>

Next ==
    \/ \E u \in Users :
          \/ CheckPasses(u) \/ CheckFindsDue(u) \/ CommitCheck(u) \/ NoReport(u)
          \/ ReadFailure(u) \/ CommitFailure(u) \/ ReadSuccess(u) \/ CommitSuccess(u)
    \/ \E p \in Probers :
          \/ ProbeRead(p) \/ ProbeMark(p) \/ ProbeCommit(p) \/ ProbeRaises(p)
          \/ \E ok \in BOOLEAN : ProbeAnswers(p, ok)
    \/ \E p \in Operators, s \in Scopes : ReadReset(p, s) \/ CommitReset(p, s)
    \/ \E p \in Actors : Rollback(p)
    \/ \E s \in Scopes : CooldownEnds(s)

Spec == Init /\ [][Next]_vars

\* Time passes, transactions end, and the probe is scheduled for every account.
Fairness ==
    /\ \A s \in Scopes : WF_vars(CooldownEnds(s))
    /\ \A u \in Users : WF_vars(CommitCheck(u) \/ CommitFailure(u) \/ CommitSuccess(u))
    /\ \A p \in Probers :
          WF_vars(ProbeRead(p) \/ ProbeMark(p) \/ ProbeCommit(p) \/ ProbeAnswers(p, TRUE))
    /\ \A p \in Operators, s \in Scopes : WF_vars(CommitReset(p, s))

FairSpec == Spec /\ Fairness

-----------------------------------------------------------------------------
(* Properties *)

\* While no update has been lost the rows are exact: the count is the number
\* of failures since the row last closed, and the row is open or half-open
\* from the threshold on and only then (record_failure, record_success).
CountsEveryFailure ==
    lost \/ \A s \in Scopes :
                /\ rows[s].count = streak[s]
                /\ streak[s] < Threshold <=> rows[s].state \in {"absent", "closed"}

\* A failure reported while the row is half-open opens it again, unless an
\* update was lost; record_failure looks at the count and never at half-open.
HalfOpenFailureReopens ==
    [][\A s \in Scopes :
         (rows[s].state = "half_open" /\ streak'[s] > streak[s] /\ ~lost')
            => rows'[s].state = "open"]_vars

\* p is to move the row to half-open, having loaded it with its cooldown over.
SawDue(p, s) == /\ tx[p].kind \in {"check", "mark"}
                /\ s \in DOMAIN tx[p].seen
                /\ Flips(tx[p].seen[s])

\* A row that keeps writes out does so until its cooldown is over or an
\* operator resets it, unless an update was lost, or a transaction that loaded
\* the row due moves it to half-open.  Such a transaction loaded the row in an
\* earlier opening: closed and opened again since, the row looks the same.
CooldownHolds ==
    [][\A s \in Scopes :
         (Blocks(rows[s]) /\ ~Blocks(rows'[s]))
            => \/ lost' \/ rows'[s].due
               \/ \E p \in Operators : Running(p, ResetOf(s))
               \/ rows'[s].state = "half_open" /\ \E p \in Actors : SawDue(p, s)]_vars

\* Once failures stop (the model bounds them) every open row is closed again:
\* nothing has to be reset by hand.
Recovers == \A s \in Scopes : rows[s].state = "open" ~> rows[s].state = "closed"

\* What the test of the breaker expects: as many failures as the threshold
\* open it.
BreakerOpensAfterFailures ==
    \A s \in Scopes : streak[s] >= Threshold => rows[s].state \notin {"absent", "closed"}
=============================================================================
