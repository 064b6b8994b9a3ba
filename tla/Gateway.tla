------------------------------ MODULE Gateway ------------------------------
(***************************************************************************)
(* MarketplaceGateway.execute for the writes of one account: several calls *)
(* at once, each a sequence of database transactions around one remote     *)
(* operation.  A transaction is one action; between two of them other      *)
(* calls, operators and crashes come in.  The breaker rows take each       *)
(* transaction whole here: their overlaps are the subject of               *)
(* CircuitBreaker, which shares the row's definition, BreakerRow.          *)
(***************************************************************************)
EXTENDS BreakerRow, FiniteSets

CONSTANTS
    Callers,        \* concurrent calls: workers, API requests, CLI
    Keys,           \* idempotency keys, one logical write each
    RateLimit,      \* operation_rate_limit_per_minute
    Overrides,      \* the operation_modes the configuration may give, or "none"
    MaxSends,       \* bound: times one write is sent
    MaxOperator     \* bound: stops, mode changes and logins by operators

ASSUME RateAssumption == RateLimit \in Nat \ {0}
ASSUME CallersAssumption == IsFiniteSet(Callers)
ASSUME BoundAssumption == MaxSends \in Nat \ {0} /\ MaxOperator \in Nat

VARIABLES
    call,       \* each caller's progress through execute()
    mode,       \* the account's persisted automation mode
    override,   \* the configured operation_modes entry of the operation, if any
    authorized, \* the account's status allows writes
    stop,       \* an emergency stop covers the account
    breaker,    \* the breaker row of the account
    saved,      \* the attempt row that carries the key itself
    writes,     \* attempt rows of executed writes in the rate window
    others,     \* attempt rows of reads and shadowed writes in it
    excepted,   \* keys for whose resource an exception task was opened
    sent,       \* how often the write was sent
    applied,    \* how often the marketplace applied it
    receipt,    \* what the caller's last call returned
    operator,   \* operator actions so far (model bound)
    overlap,    \* history: sends by calls that passed the replay check while another had
    unknown,    \* history: writes applied that no attempt row will ever show
    faked,      \* history: keys the simulated adapter carried out
    late        \* history: writes a caller sent, since an operator last acted, with writes shut off

vars == <<call, mode, override, authorized, stop, breaker, saved, writes, others, excepted,
          sent, applied, receipt, operator, overlap, unknown, faked, late>>

\* "live" stands for AUTONOMOUS_WRITE_MODES, "observe" for the modes in which
\* only reads pass.
Mode == {"live", "shadow", "simulation", "observe", "disabled"}

ASSUME OverridesAssumption == Overrides \subseteq Mode \cup {"none"}

\* Failure categories, by what _handle_failure does with them.  Only a
\* transient failure (a timeout, a lost response) can hide an applied write.
Category == {"authentication", "transient", "uncounted"}

Phase == {"begun", "checked", "new", "acquired", "written", "unverified", "reported",
          "verified", "recorded", "rejected", "failed", "counted"}
Idle == [phase |-> "idle"]
Call == [phase : Phase, key : Keys, mode : Mode, authorized : BOOLEAN,
         category : Category \cup {"none"},
         simulated : BOOLEAN,   \* the adapter is FakeMarketplaceAdapter
         crowded : BOOLEAN]     \* history: another call of the key was past this check

NoReceipt == [ok |-> FALSE]
Receipt == [ok : BOOLEAN, key : Keys, executed : BOOLEAN, verified : BOOLEAN, shadowed : BOOLEAN]

TypeOK ==
    /\ call \in [Callers -> Call \cup {Idle}]
    /\ mode \in Mode
    /\ override \in Mode \cup {"none"}
    /\ authorized \in BOOLEAN
    /\ stop \in BOOLEAN
    /\ breaker \in Row
    /\ saved \in [Keys -> {"none", "succeeded", "verified"}]
    /\ writes \in Nat
    /\ others \in Nat
    /\ excepted \in SUBSET Keys
    /\ sent \in [Keys -> 0 .. MaxSends]
    /\ applied \in [Keys -> Nat]
    /\ receipt \in [Callers -> Receipt \cup {NoReceipt}]
    /\ operator \in 0 .. MaxOperator
    /\ overlap \in [Keys -> Nat]
    /\ unknown \in [Keys -> Nat]
    /\ faked \in SUBSET Keys
    /\ late \in [Callers -> Nat]

Init ==
    /\ call = [c \in Callers |-> Idle]
    /\ mode = "live"
    /\ override \in Overrides
    /\ authorized = TRUE
    /\ stop = FALSE
    /\ breaker = NoRow
    /\ saved = [k \in Keys |-> "none"]
    /\ writes = 0
    /\ others = 0
    /\ excepted = {}
    /\ sent = [k \in Keys |-> 0]
    /\ applied = [k \in Keys |-> 0]
    /\ receipt = [c \in Callers |-> NoReceipt]
    /\ operator = 0
    /\ overlap = [k \in Keys |-> 0]
    /\ unknown = [k \in Keys |-> 0]
    /\ faked = {}
    /\ late = [c \in Callers |-> 0]

account == <<mode, override, authorized, stop>>
history == <<overlap, unknown, faked, late>>
remote == <<sent, applied>>
rows == <<saved, writes, others>>

\* _effective_mode: the configuration's word for the operation comes first.
Effective == IF override = "none" THEN mode ELSE override

At(c, p) == call[c].phase = p
Key(c) == call[c].key
Go(c, p) == call' = [call EXCEPT ![c].phase = p]
Count(f, k) == [f EXCEPT ![k] = @ + 1]

\* execute() returns a receipt.
Return(c, ok, executed, verified, shadowed) ==
    /\ call' = [call EXCEPT ![c] = Idle]
    /\ receipt' = [receipt EXCEPT ![c] =
          [ok |-> ok, key |-> Key(c), executed |-> executed, verified |-> verified,
           shadowed |-> shadowed]]

\* execute() raises: there is no receipt.
Raise(c) ==
    /\ call' = [call EXCEPT ![c] = Idle]
    /\ receipt' = [receipt EXCEPT ![c] = NoReceipt]

Blocked(c) == Return(c, FALSE, FALSE, FALSE, FALSE)

\* Applied by the marketplace, with no row that says so yet.
Unrecorded == {"written", "unverified", "reported", "verified"}

\* Whether a caller other than c, that writes to the marketplace, is between
\* the replay check of k and its row.
InProgress(c, k) ==
    \E d \in Callers \ {c} :
        /\ call[d].phase \in {"new", "acquired"} \cup Unrecorded
        /\ Key(d) = k /\ call[d].mode = "live" /\ ~call[d].simulated

-----------------------------------------------------------------------------
(* Before the remote operation *)

\* _load_account and _effective_mode: mode and status are read once, here.
Begin(c, k) ==
    /\ At(c, "idle")
    /\ call' = [call EXCEPT ![c] = [phase |-> "begun", key |-> k, mode |-> Effective,
                                    authorized |-> authorized, category |-> "none",
                                    simulated |-> FALSE, crowded |-> FALSE]]
    /\ receipt' = [receipt EXCEPT ![c] = NoReceipt]
    /\ UNCHANGED <<account, breaker, rows, excepted, remote, operator, history>>

\* Seeded fault: one write too many.
RateLimitedLate == writes + others > RateLimit

RateLimited == writes + others >= RateLimit

\* Seeded fault: the emergency stop is not looked at.
RefusedWithoutStop(c) ==
    \/ call[c].mode = "disabled"
    \/ Blocks(breaker)
    \/ RateLimited

\* _precheck returns inside its transaction, which rolls back what a due
\* breaker check wrote.
Refused(c) ==
    \/ call[c].mode = "disabled"
    \/ stop
    \/ Blocks(breaker)
    \/ RateLimited

\* _precheck
Precheck(c) ==
    /\ At(c, "begun")
    /\ IF Refused(c)
       THEN Blocked(c) /\ UNCHANGED breaker
       ELSE /\ breaker' = Flipped(breaker, breaker)
            /\ IF call[c].authorized /\ call[c].mode # "observe"
               THEN Go(c, "checked") /\ UNCHANGED receipt
               ELSE Blocked(c)
    /\ UNCHANGED <<account, rows, excepted, remote, operator, history>>

\* Seeded fault: only a verified attempt is replayed.
ReplayableVerified(k) == saved[k] = "verified"

Replayable(k) == saved[k] \in {"succeeded", "verified"}

\* _idempotent_replay
Replay(c) ==
    /\ At(c, "checked")
    /\ IF Replayable(Key(c))
       THEN Return(c, TRUE, FALSE, saved[Key(c)] = "verified", FALSE)
       ELSE /\ call' = [call EXCEPT ![c].phase = "new", ![c].crowded = InProgress(c, Key(c))]
            /\ UNCHANGED receipt
    /\ UNCHANGED <<account, breaker, rows, excepted, remote, operator, history>>

\* Seeded fault: the shadowed write is recorded as a success.
ShadowRecordedAsDone(c) ==
    /\ At(c, "new") /\ call[c].mode \in {"shadow", "simulation"}
    /\ others' = others + 1
    /\ saved' = [saved EXCEPT ![Key(c)] = "succeeded"]
    /\ Return(c, TRUE, FALSE, FALSE, TRUE)
    /\ UNCHANGED <<account, breaker, writes, excepted, remote, operator, history>>

\* Shadow and simulation: the intent is recorded, under a key of its own, and not executed.
Shadow(c) ==
    /\ At(c, "new") /\ call[c].mode \in {"shadow", "simulation"}
    /\ others' = others + 1
    /\ Return(c, TRUE, FALSE, FALSE, TRUE)
    /\ UNCHANGED <<account, breaker, saved, writes, excepted, remote, operator, history>>

\* _production_adapter goes by the account's own mode, whatever the call's is.
Simulates == mode = "simulation"

\* broker.acquire_adapter reads the account again: its status, and raises, and
\* its persisted mode, which chooses the adapter.
Acquire(c) ==
    /\ At(c, "new") /\ call[c].mode = "live"
    /\ IF authorized
       THEN /\ call' = [call EXCEPT ![c].phase = "acquired", ![c].simulated = Simulates]
            /\ UNCHANGED receipt
       ELSE Raise(c)
    /\ UNCHANGED <<account, breaker, rows, excepted, remote, operator, history>>

-----------------------------------------------------------------------------
(* The remote operation and what follows it *)

ShutOff == stop \/ Effective # "live"

Send(c) ==
    /\ At(c, "acquired") /\ ~call[c].simulated
    /\ sent[Key(c)] < MaxSends
    /\ sent' = Count(sent, Key(c))
    /\ late' = IF ShutOff THEN Count(late, c) ELSE late
    /\ overlap' = IF call[c].crowded THEN Count(overlap, Key(c)) ELSE overlap

Succeed(c) ==
    /\ Send(c)
    /\ applied' = Count(applied, Key(c))
    /\ Go(c, "written")
    /\ UNCHANGED <<account, breaker, rows, excepted, receipt, operator, unknown, faked>>

\* The operation reports a failure; a transient one may have been applied.
Fail(c, category, hidden) ==
    /\ Send(c)
    /\ hidden => category = "transient"
    /\ applied' = IF hidden THEN Count(applied, Key(c)) ELSE applied
    /\ unknown' = IF hidden THEN Count(unknown, Key(c)) ELSE unknown
    /\ call' = [call EXCEPT ![c].phase = IF category = "authentication" THEN "rejected" ELSE "failed",
                            ![c].category = category]
    /\ UNCHANGED <<account, breaker, rows, excepted, receipt, operator, faked>>

\* FakeMarketplaceAdapter, made for this call: it carries the operation out on
\* itself, or knows nothing of the listing and says so.
Simulate(c, done) ==
    /\ At(c, "acquired") /\ call[c].simulated
    /\ IF done
       THEN faked' = faked \cup {Key(c)} /\ Go(c, "written")
       ELSE /\ call' = [call EXCEPT ![c].phase = "failed", ![c].category = "uncounted"]
            /\ UNCHANGED faked
    /\ UNCHANGED <<account, breaker, rows, excepted, remote, receipt, operator, overlap, unknown, late>>

\* Seeded fault: an inconclusive read-back goes straight to the attempt row.
VerifyUnreported(c, conclusive) ==
    /\ At(c, "written")
    /\ Go(c, IF conclusive THEN "verified" ELSE "reported")
    /\ UNCHANGED <<account, breaker, rows, excepted, remote, receipt, operator, history>>

\* The read-back, or the confirmation in the result; an exception in it is
\* an inconclusive verification.
Verify(c, conclusive) ==
    /\ At(c, "written")
    /\ Go(c, IF conclusive THEN "verified" ELSE "unverified")
    /\ UNCHANGED <<account, breaker, rows, excepted, remote, receipt, operator, history>>

\* _open_exception
OpenException(c) ==
    /\ At(c, "unverified")
    /\ excepted' = excepted \cup {Key(c)}
    /\ Go(c, "reported")
    /\ UNCHANGED <<account, breaker, rows, remote, receipt, operator, history>>

\* _record_attempt under the key itself, which is unique: when another call
\* of the key got there first the insertion raises.
Record(c) ==
    /\ call[c].phase \in {"verified", "reported"}
    /\ IF saved[Key(c)] # "none"
       THEN Raise(c) /\ UNCHANGED <<saved, writes>>
       ELSE /\ saved' = [saved EXCEPT ![Key(c)] = IF At(c, "verified") THEN "verified" ELSE "succeeded"]
            /\ writes' = writes + 1
            /\ Go(c, "recorded")
            /\ UNCHANGED receipt
    /\ UNCHANGED <<account, breaker, others, excepted, remote, operator, history>>

\* _record_breaker_success, and the receipt.
Finish(c) ==
    /\ At(c, "recorded")
    /\ breaker' = Succeeded(breaker, breaker)
    /\ LET verified == saved[Key(c)] = "verified"
       IN  Return(c, verified, TRUE, verified, FALSE)
    /\ UNCHANGED <<account, rows, excepted, remote, operator, history>>

\* _require_reauth
RequireReauth(c) ==
    /\ At(c, "rejected")
    /\ authorized' = FALSE
    /\ Go(c, "failed")
    /\ UNCHANGED <<mode, override, stop, breaker, rows, excepted, remote, receipt, operator, history>>

\* _handle_failure: the failed attempt is recorded under a key of its own.
RecordFailure(c) ==
    /\ At(c, "failed")
    /\ writes' = writes + 1
    /\ IF call[c].category = "uncounted"
       THEN Return(c, FALSE, TRUE, FALSE, FALSE)
       ELSE Go(c, "counted") /\ UNCHANGED receipt
    /\ UNCHANGED <<account, breaker, saved, others, excepted, remote, operator, history>>

\* _record_breaker_failure
CountFailure(c) ==
    /\ At(c, "counted")
    /\ breaker' = Failed(breaker, breaker)
    /\ Return(c, FALSE, TRUE, FALSE, FALSE)
    /\ UNCHANGED <<account, rows, excepted, remote, operator, history>>

\* The caller's process dies, or a statement raises, between two transactions.
Crash(c) ==
    /\ ~At(c, "idle")
    /\ Raise(c)
    /\ unknown' = IF call[c].phase \in Unrecorded /\ ~call[c].simulated THEN Count(unknown, Key(c)) ELSE unknown
    /\ UNCHANGED <<account, breaker, rows, excepted, remote, operator, overlap, faked, late>>

-----------------------------------------------------------------------------
(* Operators, reads and time *)

Operate ==
    /\ operator < MaxOperator
    /\ operator' = operator + 1
    /\ late' = [c \in Callers |-> 0]
    /\ UNCHANGED <<call, override, breaker, rows, excepted, remote, receipt, overlap, unknown, faked>>

\* EmergencyStopRepository.activate and release
SetStop(on) == on # stop /\ stop' = on /\ UNCHANGED <<mode, authorized>> /\ Operate

\* MarketplaceService.set_mode
SetMode(m) == m # mode /\ mode' = m /\ UNCHANGED <<stop, authorized>> /\ Operate

\* A login or a revocation of the account's session.
SetAuthorized(on) == on # authorized /\ authorized' = on /\ UNCHANGED <<stop, mode>> /\ Operate

\* A read of the account leaves an attempt row as well, and is not limited.
Read ==
    /\ Effective # "disabled"
    /\ others < RateLimit
    /\ others' = others + 1
    /\ UNCHANGED <<call, account, breaker, saved, writes, excepted, remote, receipt, operator, history>>

\* An attempt row leaves the window of the rate limit.
RowAges ==
    /\ \/ writes > 0 /\ writes' = writes - 1 /\ UNCHANGED others
       \/ others > 0 /\ others' = others - 1 /\ UNCHANGED writes
    /\ UNCHANGED <<call, account, breaker, saved, excepted, remote, receipt, operator, history>>

\* next_probe_at passes.
CooldownEnds ==
    /\ breaker.state \in {"open", "half_open"} /\ ~breaker.due
    /\ breaker' = [breaker EXCEPT !.due = TRUE]
    /\ UNCHANGED <<call, account, rows, excepted, remote, receipt, operator, history>>

Next ==
    \/ \E c \in Callers :
          \/ \E k \in Keys : Begin(c, k)
          \/ Precheck(c) \/ Replay(c) \/ Shadow(c) \/ Acquire(c)
          \/ Succeed(c) \/ \E g \in Category, hidden \in BOOLEAN : Fail(c, g, hidden)
          \/ \E done \in BOOLEAN : Simulate(c, done)
          \/ \E conclusive \in BOOLEAN : Verify(c, conclusive)
          \/ OpenException(c) \/ Record(c) \/ Finish(c)
          \/ RequireReauth(c) \/ RecordFailure(c) \/ CountFailure(c) \/ Crash(c)
    \/ \E on \in BOOLEAN : SetStop(on) \/ SetAuthorized(on)
    \/ \E m \in Mode : SetMode(m)
    \/ Read \/ RowAges \/ CooldownEnds

Spec == Init /\ [][Next]_vars

-----------------------------------------------------------------------------
(* Properties *)

\* Every repetition of a write has a cause idempotency cannot see: a call that
\* passed the replay check while another of the key was in progress, or an
\* applied write whose row was never made (README: not an exactly-once
\* guarantee for external effects).
DuplicatesAccounted ==
    \A k \in Keys : applied[k] <= 1 + overlap[k] + unknown[k]

\* Under an emergency stop, or a mode without live writes, each caller sends
\* at most the write it was already carrying when the operator acted.
ShutOffDrains == ShutOff => \A c \in Callers : late[c] <= 1

\* The rate limit is overrun by at most the calls already past the check.
RateLimitOverrun == writes < RateLimit + Cardinality(Callers)

\* A write recorded without verification has had an exception task opened.
UnverifiedReported == \A k \in Keys : saved[k] = "succeeded" => k \in excepted

\* A receipt that says ok, of a write that was not shadowed, is of a write the
\* marketplace did apply, but for one cause: the account's mode was simulation
\* when the adapter was chosen and live when the call began, or an override
\* says live, and the simulated adapter carried the write out.
OkWasApplied ==
    \A c \in Callers : receipt[c].ok =>
        \/ receipt[c].shadowed
        \/ applied[receipt[c].key] > 0
        \/ receipt[c].key \in faked

\* What the README says of marketplace writes: they pass through read-back
\* verification.
OkWasVerified ==
    \A c \in Callers : receipt[c].ok => receipt[c].shadowed \/ receipt[c].verified
=============================================================================
