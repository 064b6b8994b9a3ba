---------------------------- MODULE GatewayProofs ----------------------------
(***************************************************************************)
(* Proofs about Gateway, for any number of callers and keys.  The          *)
(* inductive invariant relates each call's phase to what has been applied, *)
(* reported and recorded: Applied and Reported say what a phase stands     *)
(* for, Drains what a caller can still send once writes are shut off, and  *)
(* Accounted who may still send the first copy of a write.  Room counts,   *)
(* for the rate limit, the calls that may yet add an attempt row.          *)
(***************************************************************************)
EXTENDS Gateway, FiniteSetTheorems, TLAPS

\* Carried out by the marketplace, or by the simulated adapter.
Backed(k) == applied[k] > 0 \/ k \in faked

\* What has been recorded, or is about to be, was carried out.
Applied ==
    /\ \A k \in Keys : saved[k] # "none" => Backed(k)
    /\ \A c \in Callers : call[c].phase \in Unrecorded \cup {"recorded"} => Backed(Key(c))
    /\ \A c \in Callers : At(c, "recorded") => saved[Key(c)] # "none"
    /\ OkWasApplied

\* An unverified write had its exception opened before it is recorded.
Reported ==
    /\ \A c \in Callers : At(c, "reported") => Key(c) \in excepted
    /\ UnverifiedReported

\* A caller that has sent under the present shut-off sends no more.  The
\* adapter is chosen last, for a call whose mode is live.
Drains ==
    /\ \A c \in Callers :
          /\ At(c, "acquired") => call[c].mode = "live"
          /\ call[c].phase \in {"begun", "checked", "new"} => ~call[c].simulated
    /\ ShutOff => \A c \in Callers :
          /\ late[c] <= 1
          /\ (late[c] = 1 /\ call[c].phase \in {"begun", "checked", "new", "acquired"})
                => call[c].mode # "live" \/ (stop /\ At(c, "begun"))

\* A call that will send k to the marketplace, or has sent it and not recorded it, and passed
\* the replay check when no other had.
First(c, k) ==
    /\ call[c].phase \in {"new", "acquired"} \cup Unrecorded
    /\ Key(c) = k /\ call[c].mode = "live" /\ ~call[c].crowded /\ ~call[c].simulated

\* While a first call has not sent, or nothing in progress or recorded stands
\* for it, every application is excused; in any case all but one are.
Accounted ==
    /\ DuplicatesAccounted
    /\ \A c, d \in Callers, k \in Keys : First(c, k) /\ First(d, k) => c = d
    /\ \A c \in Callers, k \in Keys :
          (First(c, k) /\ call[c].phase \in {"new", "acquired"})
             => applied[k] <= overlap[k] + unknown[k]
    /\ \A k \in Keys :
          \/ saved[k] # "none"
          \/ \E c \in Callers : call[c].phase \in Unrecorded /\ ~call[c].simulated /\ Key(c) = k
          \/ applied[k] <= overlap[k] + unknown[k]
    /\ \A c \in Callers : call[c].phase \in Unrecorded => call[c].mode = "live"

IInv == TypeOK /\ Applied /\ Reported /\ Drains /\ Accounted

-----------------------------------------------------------------------------
(* Typing *)

\* What the breaker functions write to the account's row is a row.
LEMMA RowsTyped ==
    ASSUME breaker \in Row
    PROVE  /\ Flipped(breaker, breaker) \in Row
           /\ Failed(breaker, breaker) \in Row
           /\ Succeeded(breaker, breaker) \in Row
           /\ [breaker EXCEPT !.due = TRUE] \in Row
  <1>1. Flipped(breaker, breaker) \in Row
    BY DEF Row, State, Flipped
  <1>2. Failed(breaker, breaker) \in Row
    <2>1. (IF Opens(breaker) THEN "open"
           ELSE IF breaker.state = "absent" THEN "closed" ELSE breaker.state) \in State
      BY DEF State, Row
    <2>2. breaker.count + 1 \in Nat
      BY DEF Row
    <2>3. (IF Opens(breaker) THEN FALSE ELSE breaker.due) \in BOOLEAN
      BY DEF Row
    <2> QED
      BY <2>1, <2>2, <2>3 DEF Failed, Row
  <1>3. Succeeded(breaker, breaker) \in Row
    BY DEF Row, State, Succeeded, ClosedRow
  <1>4. [breaker EXCEPT !.due = TRUE] \in Row
    BY DEF Row
  <1> QED
    BY <1>1, <1>2, <1>3, <1>4

\* A caller inside execute() has a key and the snapshot it took of the account.
LEMMA Inside ==
    ASSUME TypeOK, NEW c \in Callers, call[c].phase # "idle"
    PROVE  call[c] \in Call /\ Key(c) \in Keys
  BY DEF TypeOK, Call, Idle, Key

\* Going to the next transaction keeps everything but the phase.
LEMMA GoFacts ==
    ASSUME TypeOK, NEW c \in Callers, call[c].phase # "idle", NEW p \in Phase, Go(c, p)
    PROVE  /\ call' \in [Callers -> Call \cup {Idle}]
           /\ call'[c].phase = p
           /\ call'[c].key = call[c].key
           /\ call'[c].mode = call[c].mode
           /\ call'[c].crowded = call[c].crowded
           /\ call'[c].simulated = call[c].simulated
           /\ \A d \in Callers \ {c} : call'[d] = call[d]
  <1>1. call[c] \in Call
    BY Inside
  <1>2. [call[c] EXCEPT !.phase = p] \in Call
    BY <1>1 DEF Call
  <1>3. call' = [call EXCEPT ![c] = [call[c] EXCEPT !.phase = p]]
    BY DEF Go
  <1> QED
    BY <1>1, <1>2, <1>3 DEF TypeOK, Call

\* A receipt ends the call.
LEMMA ReturnFacts ==
    ASSUME TypeOK, NEW c \in Callers, call[c].phase # "idle",
           NEW ok \in BOOLEAN, NEW executed \in BOOLEAN, NEW verified \in BOOLEAN,
           NEW shadowed \in BOOLEAN, Return(c, ok, executed, verified, shadowed)
    PROVE  /\ call' \in [Callers -> Call \cup {Idle}]
           /\ call'[c] = Idle
           /\ \A d \in Callers \ {c} : call'[d] = call[d]
           /\ receipt' \in [Callers -> Receipt \cup {NoReceipt}]
           /\ receipt'[c].ok = ok
           /\ receipt'[c].key = Key(c)
           /\ receipt'[c].shadowed = shadowed
           /\ \A d \in Callers \ {c} : receipt'[d] = receipt[d]
  <1>1. Key(c) \in Keys
    BY Inside
  <1>2. [ok |-> ok, key |-> Key(c), executed |-> executed, verified |-> verified,
         shadowed |-> shadowed] \in Receipt
    BY <1>1 DEF Receipt
  <1> QED
    BY <1>1, <1>2 DEF TypeOK, Return

\* So does an exception, which leaves no receipt.
LEMMA RaiseFacts ==
    ASSUME TypeOK, NEW c \in Callers, Raise(c)
    PROVE  /\ call' \in [Callers -> Call \cup {Idle}]
           /\ call'[c] = Idle
           /\ \A d \in Callers \ {c} : call'[d] = call[d]
           /\ receipt' \in [Callers -> Receipt \cup {NoReceipt}]
           /\ ~receipt'[c].ok
           /\ \A d \in Callers \ {c} : receipt'[d] = receipt[d]
  BY DEF TypeOK, Raise, NoReceipt

\* A call starts with what the account says at that moment.
LEMMA BeginFacts ==
    ASSUME TypeOK, NEW c \in Callers, NEW k \in Keys, Begin(c, k)
    PROVE  /\ call' \in [Callers -> Call \cup {Idle}]
           /\ call'[c].phase = "begun"
           /\ call'[c].mode = Effective
           /\ ~call'[c].simulated
           /\ \A d \in Callers \ {c} : call'[d] = call[d]
           /\ receipt' \in [Callers -> Receipt \cup {NoReceipt}]
           /\ ~receipt'[c].ok
           /\ \A d \in Callers \ {c} : receipt'[d] = receipt[d]
  <1>1. Effective \in Mode
    BY DEF TypeOK, Effective
  <1>2. [phase |-> "begun", key |-> k, mode |-> Effective, authorized |-> authorized,
         category |-> "none", simulated |-> FALSE, crowded |-> FALSE] \in Call
    BY <1>1 DEF TypeOK, Call, Phase
  <1> QED
    BY <1>2 DEF TypeOK, Begin, NoReceipt

\* The replay check lets a call through, noting whether it is the only one.
LEMMA PassFacts ==
    ASSUME TypeOK, NEW c \in Callers, Replay(c), ~Replayable(Key(c))
    PROVE  /\ call' \in [Callers -> Call \cup {Idle}]
           /\ call'[c].phase = "new"
           /\ call'[c].key = call[c].key
           /\ call'[c].mode = call[c].mode
           /\ call'[c].crowded = InProgress(c, Key(c))
           /\ call'[c].simulated = call[c].simulated
           /\ \A d \in Callers \ {c} : call'[d] = call[d]
           /\ receipt' = receipt
  <1>1. call[c] \in Call
    BY Inside DEF Replay, At
  <1>2. InProgress(c, Key(c)) \in BOOLEAN
    BY DEF InProgress
  <1>3. [call[c] EXCEPT !.phase = "new", !.crowded = InProgress(c, Key(c))] \in Call
    BY <1>1, <1>2 DEF Call, Phase
  <1>4. call' = [call EXCEPT ![c] =
                    [call[c] EXCEPT !.phase = "new", !.crowded = InProgress(c, Key(c))]]
    BY DEF Replay
  <1>5. receipt' = receipt
    BY DEF Replay
  <1> QED
    BY <1>1, <1>3, <1>4, <1>5 DEF TypeOK, Call

\* The adapter is chosen by what the account's mode is by now.
LEMMA AcquireFacts ==
    ASSUME TypeOK, NEW c \in Callers, Acquire(c), authorized
    PROVE  /\ call' \in [Callers -> Call \cup {Idle}]
           /\ call[c].phase = "new" /\ call[c].mode = "live"
           /\ call'[c].phase = "acquired"
           /\ call'[c].key = call[c].key
           /\ call'[c].mode = call[c].mode
           /\ call'[c].crowded = call[c].crowded
           /\ \A d \in Callers \ {c} : call'[d] = call[d]
           /\ receipt' = receipt
  <1>1. call[c] \in Call /\ call[c].phase = "new" /\ call[c].mode = "live"
    BY Inside DEF Acquire, At
  <1>2. Simulates \in BOOLEAN
    BY DEF Simulates
  <1>3. [call[c] EXCEPT !.phase = "acquired", !.simulated = Simulates] \in Call
    BY <1>1, <1>2 DEF Call, Phase
  <1>4. call' = [call EXCEPT ![c] =
                    [call[c] EXCEPT !.phase = "acquired", !.simulated = Simulates]]
    BY DEF Acquire
  <1>5. receipt' = receipt
    BY DEF Acquire
  <1> QED
    BY <1>1, <1>3, <1>4, <1>5 DEF TypeOK, Call

\* The simulated adapter does what it is asked, or knows nothing of it.
LEMMA SimulateFacts ==
    ASSUME TypeOK, NEW c \in Callers, NEW done \in BOOLEAN, Simulate(c, done)
    PROVE  /\ call' \in [Callers -> Call \cup {Idle}]
           /\ call[c].phase = "acquired" /\ call[c].simulated /\ Key(c) \in Keys
           /\ call'[c].phase = IF done THEN "written" ELSE "failed"
           /\ call'[c].key = call[c].key
           /\ call'[c].mode = call[c].mode
           /\ call'[c].simulated = call[c].simulated
           /\ \A d \in Callers \ {c} : call'[d] = call[d]
           /\ faked' = IF done THEN faked \cup {Key(c)} ELSE faked
           /\ UNCHANGED <<saved, applied, excepted, receipt, overlap, unknown, late, stop, mode, override>>
  <1>1. call[c] \in Call /\ call[c].phase = "acquired" /\ call[c].simulated /\ Key(c) \in Keys
    BY Inside DEF Simulate, At
  <1>2. UNCHANGED <<saved, applied, excepted, receipt, overlap, unknown, late, stop, mode, override>>
    BY DEF Simulate, account, rows, remote
  <1>3. CASE done
    <2>1. Go(c, "written") /\ faked' = faked \cup {Key(c)} /\ "written" \in Phase
      BY <1>3 DEF Simulate, Phase
    <2> QED
      BY <1>1, <1>2, <1>3, <2>1, GoFacts
  <1>4. CASE ~done
    <2>1. [call[c] EXCEPT !.phase = "failed", !.category = "uncounted"] \in Call
      BY <1>1 DEF Call, Phase, Category
    <2>2. /\ call' = [call EXCEPT ![c] = [call[c] EXCEPT !.phase = "failed", !.category = "uncounted"]]
          /\ faked' = faked
      BY <1>4 DEF Simulate
    <2>3. /\ call' \in [Callers -> Call \cup {Idle}]
          /\ call'[c].phase = "failed" /\ call'[c].key = call[c].key
          /\ call'[c].mode = call[c].mode /\ call'[c].simulated = call[c].simulated
          /\ \A d \in Callers \ {c} : call'[d] = call[d]
      BY <1>1, <2>1, <2>2 DEF TypeOK, Call
    <2> QED
      BY <1>1, <1>2, <1>4, <2>2, <2>3
  <1> QED
    BY <1>3, <1>4

\* A failed operation: the call goes on to what its category asks for.
LEMMA FailFacts ==
    ASSUME TypeOK, NEW c \in Callers, NEW g \in Category, NEW hidden \in BOOLEAN,
           Fail(c, g, hidden)
    PROVE  /\ call' \in [Callers -> Call \cup {Idle}]
           /\ call'[c].phase \in {"rejected", "failed"}
           /\ call'[c].key = call[c].key
           /\ \A d \in Callers \ {c} : call'[d] = call[d]
  <1> DEFINE p == IF g = "authentication" THEN "rejected" ELSE "failed"
  <1>1. call[c] \in Call
    BY Inside DEF Fail, Send, At
  <1>2. p \in {"rejected", "failed"}
    OBVIOUS
  <1>3. [call[c] EXCEPT !.phase = p, !.category = g] \in Call
    BY <1>1, <1>2 DEF Call, Phase
  <1>4. call' = [call EXCEPT ![c] = [call[c] EXCEPT !.phase = p, !.category = g]]
    BY DEF Fail
  <1> HIDE DEF p
  <1> QED
    BY <1>1, <1>2, <1>3, <1>4 DEF TypeOK, Call

\* One more send: of the key, and late when writes are shut off.
LEMMA SendFacts ==
    ASSUME TypeOK, NEW c \in Callers, Send(c)
    PROVE  /\ call[c].phase = "acquired"
           /\ sent' \in [Keys -> 0 .. MaxSends]
           /\ late' \in [Callers -> Nat]
           /\ overlap' \in [Keys -> Nat]
           /\ overlap'[Key(c)] = IF call[c].crowded THEN overlap[Key(c)] + 1 ELSE overlap[Key(c)]
           /\ \A k \in Keys \ {Key(c)} : overlap'[k] = overlap[k]
           /\ late'[c] = IF ShutOff THEN late[c] + 1 ELSE late[c]
           /\ \A d \in Callers \ {c} : late'[d] = late[d]
  <1>1. call[c].phase = "acquired" /\ Key(c) \in Keys
    BY Inside DEF Send, At
  <1>2. sent' \in [Keys -> 0 .. MaxSends]
    BY <1>1, BoundAssumption DEF TypeOK, Send, Count
  <1>3. late' \in [Callers -> Nat] /\ late'[c] = IF ShutOff THEN late[c] + 1 ELSE late[c]
    BY DEF TypeOK, Send, Count
  <1>4. \A d \in Callers \ {c} : late'[d] = late[d]
    BY DEF TypeOK, Send, Count
  <1>5. overlap' \in [Keys -> Nat]
    BY <1>1 DEF TypeOK, Send, Count
  <1>6. /\ overlap'[Key(c)] = IF call[c].crowded THEN overlap[Key(c)] + 1 ELSE overlap[Key(c)]
        /\ \A k \in Keys \ {Key(c)} : overlap'[k] = overlap[k]
    BY <1>1 DEF TypeOK, Send, Count
  <1> QED
    BY <1>1, <1>2, <1>3, <1>4, <1>5, <1>6

\* The other variables keep their types through every step.
LEMMA TypeStep ==
    ASSUME TypeOK, [Next]_vars
    PROVE  TypeOK'
  <1>1. ASSUME NEW c \in Callers, NEW k \in Keys, Begin(c, k) PROVE TypeOK'
    BY <1>1, BeginFacts DEF TypeOK, Begin, account, rows, remote, history
  <1>2. ASSUME NEW c \in Callers, Precheck(c) PROVE TypeOK'
    <2>0. call[c].phase # "idle" /\ "checked" \in Phase
      BY <1>2 DEF Precheck, At, Phase
    <2>1. CASE Refused(c)
      BY <1>2, <2>0, <2>1, ReturnFacts DEF Precheck, Blocked, TypeOK, account, rows, remote, history
    <2>2. CASE ~Refused(c) /\ Blocked(c)
      <3>1. breaker' \in Row
        BY <1>2, <2>2, RowsTyped DEF Precheck, TypeOK
      <3> QED
        BY <1>2, <2>0, <2>2, <3>1, ReturnFacts DEF Precheck, Blocked, TypeOK, account, rows, remote, history
    <2>3. CASE ~Refused(c) /\ ~Blocked(c)
      <3>1. breaker' \in Row
        BY <1>2, <2>3, RowsTyped DEF Precheck, TypeOK
      <3>2. Go(c, "checked") /\ receipt' = receipt
        BY <1>2, <2>3 DEF Precheck
      <3> QED
        BY <1>2, <2>0, <3>1, <3>2, GoFacts DEF Precheck, TypeOK, account, rows, remote, history
    <2> QED
      BY <2>1, <2>2, <2>3
  <1>3. ASSUME NEW c \in Callers, Replay(c) PROVE TypeOK'
    <2>0. call[c].phase # "idle"
      BY <1>3 DEF Replay, At
    <2>1. CASE Replayable(Key(c))
      <3>1. (saved[Key(c)] = "verified") \in BOOLEAN
        OBVIOUS
      <3>2. Return(c, TRUE, FALSE, saved[Key(c)] = "verified", FALSE)
        BY <1>3, <2>1 DEF Replay
      <3>3. call' \in [Callers -> Call \cup {Idle}] /\ receipt' \in [Callers -> Receipt \cup {NoReceipt}]
        BY <2>0, <3>1, <3>2, ReturnFacts
      <3> QED
        BY <1>3, <3>3 DEF Replay, TypeOK, account, rows, remote, history
    <2>2. CASE ~Replayable(Key(c))
      BY <1>3, <2>2, PassFacts DEF Replay, TypeOK, account, rows, remote, history
    <2> QED
      BY <2>1, <2>2
  <1>4. ASSUME NEW c \in Callers, Shadow(c) PROVE TypeOK'
    <2>1. call[c].phase # "idle" /\ Return(c, TRUE, FALSE, FALSE, TRUE)
      BY <1>4 DEF Shadow, At
    <2>2. call' \in [Callers -> Call \cup {Idle}] /\ receipt' \in [Callers -> Receipt \cup {NoReceipt}]
      BY <2>1, ReturnFacts
    <2> QED
      BY <1>4, <2>2 DEF Shadow, TypeOK, account, remote, history
  <1>5. ASSUME NEW c \in Callers, Acquire(c) PROVE TypeOK'
    <2>1. CASE authorized
      BY <1>5, <2>1, AcquireFacts DEF Acquire, TypeOK, account, rows, remote, history
    <2>2. CASE ~authorized
      BY <1>5, <2>2, RaiseFacts DEF Acquire, TypeOK, account, rows, remote, history
    <2> QED
      BY <2>1, <2>2
  <1>6. ASSUME NEW c \in Callers, Succeed(c) PROVE TypeOK'
    <2>0. call[c].phase # "idle" /\ "written" \in Phase /\ Key(c) \in Keys
      BY <1>6, Inside DEF Succeed, Send, At, Phase
    <2>1. applied' \in [Keys -> Nat]
      BY <1>6, <2>0 DEF Succeed, TypeOK, Count
    <2> QED
      BY <1>6, <2>0, <2>1, GoFacts, SendFacts DEF Succeed, TypeOK, account, rows
  <1>7. ASSUME NEW c \in Callers, NEW g \in Category, NEW hidden \in BOOLEAN, Fail(c, g, hidden)
        PROVE  TypeOK'
    <2>0. call[c].phase # "idle" /\ Key(c) \in Keys
      BY <1>7, Inside DEF Fail, Send, At
    <2>1. applied' \in [Keys -> Nat] /\ unknown' \in [Keys -> Nat]
      BY <1>7, <2>0 DEF Fail, TypeOK, Count
    <2> QED
      BY <1>7, <2>1, FailFacts, SendFacts DEF Fail, TypeOK, account, rows
  <1>8. ASSUME NEW c \in Callers, NEW conclusive \in BOOLEAN, Verify(c, conclusive) PROVE TypeOK'
    <2>1. PICK p \in {"verified", "unverified"} : Go(c, p)
      BY <1>8 DEF Verify
    <2>2. call[c].phase # "idle" /\ p \in Phase
      BY <1>8, <2>1 DEF Verify, At, Phase
    <2>3. call' \in [Callers -> Call \cup {Idle}]
      BY <2>1, <2>2, GoFacts
    <2> QED
      BY <1>8, <2>3 DEF Verify, TypeOK, account, rows, remote, history
  <1>9. ASSUME NEW c \in Callers, OpenException(c) PROVE TypeOK'
    <2>1. call[c].phase # "idle" /\ "reported" \in Phase /\ Go(c, "reported") /\ Key(c) \in Keys
      BY <1>9, Inside DEF OpenException, At, Phase
    <2> QED
      BY <1>9, <2>1, GoFacts DEF OpenException, TypeOK, account, rows, remote, history
  <1>10. ASSUME NEW c \in Callers, Record(c) PROVE TypeOK'
    <2>0. call[c].phase # "idle" /\ "recorded" \in Phase /\ Key(c) \in Keys
      BY <1>10, Inside DEF Record, Phase
    <2>1. CASE saved[Key(c)] # "none"
      BY <1>10, <2>1, RaiseFacts DEF Record, TypeOK, account, remote, history
    <2>2. CASE saved[Key(c)] = "none"
      <3>1. Go(c, "recorded") /\ receipt' = receipt /\ writes' \in Nat
        BY <1>10, <2>2 DEF Record, TypeOK
      <3>2. saved' \in [Keys -> {"none", "succeeded", "verified"}]
        BY <1>10, <2>0, <2>2 DEF Record, TypeOK
      <3> QED
        BY <1>10, <2>0, <3>1, <3>2, GoFacts DEF Record, TypeOK, account, remote, history
    <2> QED
      BY <2>1, <2>2
  <1>11. ASSUME NEW c \in Callers, Finish(c) PROVE TypeOK'
    <2>1. PICK v \in BOOLEAN : Return(c, v, TRUE, v, FALSE)
      <3>1. (saved[Key(c)] = "verified") \in BOOLEAN
        OBVIOUS
      <3> QED
        BY <1>11, <3>1 DEF Finish
    <2>2. call[c].phase # "idle"
      BY <1>11 DEF Finish, At
    <2>3. breaker' \in Row
      BY <1>11, RowsTyped DEF Finish, TypeOK
    <2>4. call' \in [Callers -> Call \cup {Idle}] /\ receipt' \in [Callers -> Receipt \cup {NoReceipt}]
      BY <2>1, <2>2, ReturnFacts
    <2> QED
      BY <1>11, <2>3, <2>4 DEF Finish, TypeOK, account, rows, remote, history
  <1>12. ASSUME NEW c \in Callers, RequireReauth(c) PROVE TypeOK'
    <2>1. call[c].phase # "idle" /\ "failed" \in Phase /\ Go(c, "failed")
      BY <1>12 DEF RequireReauth, At, Phase
    <2> QED
      BY <1>12, <2>1, GoFacts DEF RequireReauth, TypeOK, rows, remote, history
  <1>13. ASSUME NEW c \in Callers, RecordFailure(c) PROVE TypeOK'
    <2>0. call[c].phase # "idle" /\ "counted" \in Phase
      BY <1>13 DEF RecordFailure, At, Phase
    <2>1. CASE call[c].category = "uncounted"
      <3>1. Return(c, FALSE, TRUE, FALSE, FALSE)
        BY <1>13, <2>1 DEF RecordFailure
      <3>2. call' \in [Callers -> Call \cup {Idle}] /\ receipt' \in [Callers -> Receipt \cup {NoReceipt}]
        BY <2>0, <3>1, ReturnFacts
      <3> QED
        BY <1>13, <3>2 DEF RecordFailure, TypeOK, account, remote, history
    <2>2. CASE call[c].category # "uncounted"
      BY <1>13, <2>0, <2>2, GoFacts DEF RecordFailure, TypeOK, account, remote, history
    <2> QED
      BY <2>1, <2>2
  <1>14. ASSUME NEW c \in Callers, CountFailure(c) PROVE TypeOK'
    <2>0. call[c].phase # "idle" /\ Return(c, FALSE, TRUE, FALSE, FALSE)
      BY <1>14 DEF CountFailure, At
    <2>1. breaker' \in Row
      BY <1>14, RowsTyped DEF CountFailure, TypeOK
    <2> QED
      BY <1>14, <2>0, <2>1, ReturnFacts DEF CountFailure, TypeOK, account, rows, remote, history
  <1>15. ASSUME NEW c \in Callers, Crash(c) PROVE TypeOK'
    <2>1. Key(c) \in Keys
      BY <1>15, Inside DEF Crash, At
    <2>2. unknown' \in [Keys -> Nat]
      BY <1>15, <2>1 DEF Crash, TypeOK, Count
    <2> QED
      BY <1>15, <2>2, RaiseFacts DEF Crash, TypeOK, account, rows, remote
  <1>16. ASSUME Operate PROVE /\ operator' \in 0 .. MaxOperator
                              /\ late' \in [Callers -> Nat]
    BY <1>16, BoundAssumption DEF Operate, TypeOK
  <1>17. ASSUME NEW on \in BOOLEAN, SetStop(on) PROVE TypeOK'
    BY <1>16, <1>17 DEF SetStop, Operate, TypeOK, rows, remote
  <1>18. ASSUME NEW on \in BOOLEAN, SetAuthorized(on) PROVE TypeOK'
    BY <1>16, <1>18 DEF SetAuthorized, Operate, TypeOK, rows, remote
  <1>19. ASSUME NEW m \in Mode, SetMode(m) PROVE TypeOK'
    BY <1>16, <1>19 DEF SetMode, Operate, TypeOK, rows, remote
  <1>20. ASSUME Read PROVE TypeOK'
    BY <1>20 DEF Read, TypeOK, account, remote, history
  <1>21. ASSUME RowAges PROVE TypeOK'
    BY <1>21 DEF RowAges, TypeOK, account, remote, history
  <1>22. ASSUME CooldownEnds PROVE TypeOK'
    <2>1. breaker' \in Row
      BY <1>22, RowsTyped DEF CooldownEnds, TypeOK
    <2> QED
      BY <1>22, <2>1 DEF CooldownEnds, TypeOK, account, rows, remote, history
  <1>23. CASE UNCHANGED vars
    BY <1>23 DEF TypeOK, vars
  <1>24. ASSUME NEW c \in Callers, NEW done \in BOOLEAN, Simulate(c, done) PROVE TypeOK'
    BY <1>24, SimulateFacts DEF Simulate, TypeOK, account, rows, remote
  <1> QED
    BY <1>24, <1>1, <1>2, <1>3, <1>4, <1>5, <1>6, <1>7, <1>8, <1>9, <1>10, <1>11, <1>12, <1>13,
       <1>14, <1>15, <1>17, <1>18, <1>19, <1>20, <1>21, <1>22, <1>23 DEF Next

-----------------------------------------------------------------------------
(* What a step does to the calls *)

\* A step of c that leaves alone what has been sent, applied and recorded, and
\* takes c neither into nor out of the phases of an unrecorded write.
Plain(c) ==
    /\ \A d \in Callers \ {c} : call'[d] = call[d]
    /\ UNCHANGED <<saved, applied, excepted, overlap, unknown, late, faked, stop, mode, override>>
    /\ call[c].phase \notin Unrecorded
    /\ call'[c].phase \in {"idle", "begun", "checked", "acquired", "failed", "counted"}
    /\ call'[c].phase = "acquired" =>
          /\ call[c].phase = "new" /\ call[c].mode = "live"
          /\ call'[c].key = call[c].key /\ call'[c].mode = "live"
          /\ call'[c].crowded = call[c].crowded
    /\ call'[c].phase = "checked" =>
          /\ call[c].phase = "begun" /\ ~stop /\ call'[c].mode = call[c].mode
          /\ call'[c].simulated = call[c].simulated
    /\ call'[c].phase = "begun" => call'[c].mode = Effective /\ ~call'[c].simulated

\* The receipts a plain step can leave: nothing new, or nothing that says ok.
NoNewOk(c) ==
    /\ \A d \in Callers \ {c} : receipt'[d] = receipt[d]
    /\ receipt'[c] = receipt[c] \/ ~receipt'[c].ok

\* A step of c between the remote operation and the attempt row.
Between(c) ==
    /\ \A d \in Callers \ {c} : call'[d] = call[d]
    /\ UNCHANGED <<saved, applied, overlap, unknown, late, faked, stop, mode, override, receipt>>
    /\ call[c].phase \in Unrecorded /\ call'[c].phase \in Unrecorded
    /\ call'[c].key = call[c].key /\ call'[c].mode = call[c].mode
    /\ call'[c].crowded = call[c].crowded /\ call'[c].simulated = call[c].simulated

\* A step of no call that no operator takes.
Quiet == UNCHANGED <<call, saved, applied, receipt, excepted, overlap, unknown, late, faked, stop, mode, override>>

\* The steps before the remote operation and after a failure are plain.
LEMMA PlainSteps ==
    ASSUME TypeOK, NEW c \in Callers,
           \/ \E k \in Keys : Begin(c, k)
           \/ Precheck(c) \/ Acquire(c) \/ Simulate(c, FALSE)
           \/ RequireReauth(c) \/ RecordFailure(c) \/ CountFailure(c)
    PROVE  Plain(c) /\ NoNewOk(c)
  <1>1. ASSUME NEW k \in Keys, Begin(c, k) PROVE Plain(c) /\ NoNewOk(c)
    BY <1>1, BeginFacts DEF Begin, At, Unrecorded, Plain, NoNewOk, account, rows, remote, history
  <1>2. CASE Precheck(c)
    <2>0. call[c].phase = "begun" /\ "checked" \in Phase
      BY <1>2 DEF Precheck, At, Phase
    <2>1. CASE Blocked(c)
      <3>1. /\ call'[c] = Idle /\ ~receipt'[c].ok
            /\ \A d \in Callers \ {c} : call'[d] = call[d] /\ receipt'[d] = receipt[d]
        BY <2>0, <2>1, ReturnFacts DEF Blocked
      <3> QED
        BY <1>2, <2>0, <3>1 DEF Precheck, Idle, Unrecorded, Plain, NoNewOk, account, rows, remote, history
    <2>2. CASE ~Blocked(c)
      <3>1. Go(c, "checked") /\ receipt' = receipt /\ ~stop
        BY <1>2, <2>2 DEF Precheck, Refused
      <3>2. /\ call'[c].phase = "checked" /\ call'[c].mode = call[c].mode
            /\ call'[c].simulated = call[c].simulated
            /\ \A d \in Callers \ {c} : call'[d] = call[d]
        BY <2>0, <3>1, GoFacts
      <3> QED
        BY <1>2, <2>0, <3>1, <3>2 DEF Precheck, Unrecorded, Plain, NoNewOk, account, rows, remote, history
    <2> QED
      BY <2>1, <2>2
  <1>3. CASE Acquire(c)
    <2>0. call[c].phase = "new"
      BY <1>3 DEF Acquire, At
    <2>1. CASE authorized
      BY <1>3, <2>1, AcquireFacts
      DEF Acquire, Unrecorded, Plain, NoNewOk, account, rows, remote, history
    <2>2. CASE ~authorized
      BY <1>3, <2>0, <2>2, RaiseFacts
      DEF Acquire, Idle, Unrecorded, Plain, NoNewOk, account, rows, remote, history
    <2> QED
      BY <2>1, <2>2
  <1>4. CASE RequireReauth(c)
    <2>1. call[c].phase = "rejected" /\ "failed" \in Phase /\ Go(c, "failed") /\ receipt' = receipt
      BY <1>4 DEF RequireReauth, At, Phase
    <2>2. call'[c].phase = "failed" /\ \A d \in Callers \ {c} : call'[d] = call[d]
      BY <2>1, GoFacts
    <2> QED
      BY <1>4, <2>1, <2>2 DEF RequireReauth, Unrecorded, Plain, NoNewOk, rows, remote, history
  <1>5. CASE RecordFailure(c)
    <2>0. call[c].phase = "failed" /\ "counted" \in Phase
      BY <1>5 DEF RecordFailure, At, Phase
    <2>1. CASE call[c].category = "uncounted"
      <3>1. Return(c, FALSE, TRUE, FALSE, FALSE)
        BY <1>5, <2>1 DEF RecordFailure
      <3>2. /\ call'[c] = Idle /\ ~receipt'[c].ok
            /\ \A d \in Callers \ {c} : call'[d] = call[d] /\ receipt'[d] = receipt[d]
        BY <2>0, <3>1, ReturnFacts
      <3> QED
        BY <1>5, <2>0, <3>2
        DEF RecordFailure, Idle, Unrecorded, Plain, NoNewOk, account, remote, history
    <2>2. CASE call[c].category # "uncounted"
      <3>1. /\ call'[c].phase = "counted" /\ receipt' = receipt
            /\ \A d \in Callers \ {c} : call'[d] = call[d]
        BY <1>5, <2>0, <2>2, GoFacts DEF RecordFailure
      <3> QED
        BY <1>5, <2>0, <3>1 DEF RecordFailure, Unrecorded, Plain, NoNewOk, account, remote, history
    <2> QED
      BY <2>1, <2>2
  <1>6. CASE CountFailure(c)
    <2>1. call[c].phase = "counted" /\ Return(c, FALSE, TRUE, FALSE, FALSE)
      BY <1>6 DEF CountFailure, At
    <2>2. /\ call'[c] = Idle /\ ~receipt'[c].ok
          /\ \A d \in Callers \ {c} : call'[d] = call[d] /\ receipt'[d] = receipt[d]
      BY <2>1, ReturnFacts
    <2> QED
      BY <1>6, <2>1, <2>2
      DEF CountFailure, Idle, Unrecorded, Plain, NoNewOk, account, rows, remote, history
  <1>7. CASE Simulate(c, FALSE)
    BY <1>7, SimulateFacts DEF Unrecorded, Plain, NoNewOk
  <1> QED
    BY <1>1, <1>2, <1>3, <1>4, <1>5, <1>6, <1>7

\* A replay, a shadowed write and the end of a recorded one are plain as well;
\* their receipts may say ok.
LEMMA AnswerSteps ==
    ASSUME TypeOK, NEW c \in Callers,
           \/ Replay(c) /\ Replayable(Key(c))
           \/ Shadow(c)
           \/ Finish(c)
    PROVE  /\ Plain(c)
           /\ call'[c] = Idle
           /\ \A d \in Callers \ {c} : receipt'[d] = receipt[d]
           /\ receipt'[c].key = Key(c)
           /\ Shadow(c) => receipt'[c].shadowed
  <1>1. CASE Replay(c) /\ Replayable(Key(c))
    <2>1. call[c].phase = "checked"
      BY <1>1 DEF Replay, At
    <2>2. PICK v \in BOOLEAN : Return(c, TRUE, FALSE, v, FALSE)
      <3>1. (saved[Key(c)] = "verified") \in BOOLEAN
        OBVIOUS
      <3> QED
        BY <1>1, <3>1 DEF Replay
    <2>3. /\ call'[c] = Idle /\ receipt'[c].key = Key(c)
          /\ \A d \in Callers \ {c} : call'[d] = call[d] /\ receipt'[d] = receipt[d]
      BY <2>1, <2>2, ReturnFacts
    <2> QED
      BY <1>1, <2>1, <2>3 DEF Replay, Shadow, At, Idle, Unrecorded, Plain, account, rows, remote, history
  <1>2. CASE Shadow(c)
    <2>1. call[c].phase = "new" /\ Return(c, TRUE, FALSE, FALSE, TRUE)
      BY <1>2 DEF Shadow, At
    <2>2. /\ call'[c] = Idle /\ receipt'[c].key = Key(c) /\ receipt'[c].shadowed
          /\ \A d \in Callers \ {c} : call'[d] = call[d] /\ receipt'[d] = receipt[d]
      BY <2>1, ReturnFacts
    <2> QED
      BY <1>2, <2>1, <2>2 DEF Shadow, Idle, Unrecorded, Plain, account, remote, history
  <1>3. CASE Finish(c)
    <2>1. call[c].phase = "recorded"
      BY <1>3 DEF Finish, At
    <2>2. PICK v \in BOOLEAN : Return(c, v, TRUE, v, FALSE)
      <3>1. (saved[Key(c)] = "verified") \in BOOLEAN
        OBVIOUS
      <3> QED
        BY <1>3, <3>1 DEF Finish
    <2>3. /\ call'[c] = Idle /\ receipt'[c].key = Key(c)
          /\ \A d \in Callers \ {c} : call'[d] = call[d] /\ receipt'[d] = receipt[d]
      BY <2>1, <2>2, ReturnFacts
    <2> QED
      BY <1>3, <2>1, <2>3 DEF Finish, Shadow, At, Idle, Unrecorded, Plain, account, rows, remote, history
  <1> QED
    BY <1>1, <1>2, <1>3

\* Verification and the exception task keep the write unrecorded.
LEMMA BetweenSteps ==
    ASSUME TypeOK, NEW c \in Callers,
           (\E conclusive \in BOOLEAN : Verify(c, conclusive)) \/ OpenException(c)
    PROVE  /\ Between(c)
           /\ \/ excepted' = excepted /\ call'[c].phase # "reported"
              \/ excepted' = excepted \cup {Key(c)}
  <1>1. ASSUME NEW conclusive \in BOOLEAN, Verify(c, conclusive)
        PROVE  Between(c) /\ excepted' = excepted /\ call'[c].phase # "reported"
    <2>1. PICK p \in {"verified", "unverified"} : Go(c, p)
      BY <1>1 DEF Verify
    <2>2. call[c].phase = "written" /\ p \in Phase
      BY <1>1, <2>1 DEF Verify, At, Phase
    <2>3. /\ call'[c].phase = p /\ call'[c].key = call[c].key
          /\ call'[c].mode = call[c].mode /\ call'[c].crowded = call[c].crowded
          /\ call'[c].simulated = call[c].simulated
          /\ \A d \in Callers \ {c} : call'[d] = call[d]
      BY <2>1, <2>2, GoFacts
    <2> QED
      BY <1>1, <2>1, <2>2, <2>3 DEF Verify, Unrecorded, Between, account, rows, remote, history
  <1>2. CASE OpenException(c)
    <2>1. call[c].phase = "unverified" /\ "reported" \in Phase /\ Go(c, "reported")
      BY <1>2 DEF OpenException, At, Phase
    <2>2. /\ call'[c].phase = "reported" /\ call'[c].key = call[c].key
          /\ call'[c].mode = call[c].mode /\ call'[c].crowded = call[c].crowded
          /\ call'[c].simulated = call[c].simulated
          /\ \A d \in Callers \ {c} : call'[d] = call[d]
      BY <2>1, GoFacts
    <2> QED
      BY <1>2, <2>1, <2>2 DEF OpenException, Unrecorded, Between, account, rows, remote, history
  <1> QED
    BY <1>1, <1>2

\* Reads, the passing of time and stuttering.
LEMMA QuietSteps ==
    ASSUME Read \/ RowAges \/ CooldownEnds \/ UNCHANGED vars
    PROVE  Quiet
  BY DEF Read, RowAges, CooldownEnds, vars, Quiet, account, rows, remote, history

\* What a successful send does.
LEMMA SucceedFacts ==
    ASSUME TypeOK, NEW c \in Callers, Succeed(c)
    PROVE  /\ call[c].phase = "acquired" /\ ~call[c].simulated /\ Key(c) \in Keys
           /\ call'[c].phase = "written" /\ call'[c].key = call[c].key
           /\ call'[c].mode = call[c].mode /\ call'[c].crowded = call[c].crowded
           /\ call'[c].simulated = call[c].simulated
           /\ \A d \in Callers \ {c} : call'[d] = call[d]
           /\ applied'[Key(c)] = applied[Key(c)] + 1
           /\ \A k \in Keys \ {Key(c)} : applied'[k] = applied[k]
           /\ UNCHANGED <<saved, excepted, receipt, unknown, faked, stop, mode, override>>
  <1>1. /\ call[c].phase = "acquired" /\ ~call[c].simulated
        /\ "written" \in Phase /\ Key(c) \in Keys /\ Go(c, "written")
    BY Inside DEF Succeed, Send, At, Phase
  <1>2. /\ call'[c].phase = "written" /\ call'[c].key = call[c].key
        /\ call'[c].mode = call[c].mode /\ call'[c].crowded = call[c].crowded
        /\ call'[c].simulated = call[c].simulated
        /\ \A d \in Callers \ {c} : call'[d] = call[d]
    BY <1>1, GoFacts
  <1>3. /\ applied'[Key(c)] = applied[Key(c)] + 1
        /\ \A k \in Keys \ {Key(c)} : applied'[k] = applied[k]
    BY <1>1 DEF Succeed, Count, TypeOK
  <1> QED
    BY <1>1, <1>2, <1>3 DEF Succeed, account, rows

\* What a failed send does: what it hides in applied shows in unknown.
LEMMA FailEffects ==
    ASSUME TypeOK, NEW c \in Callers, NEW g \in Category, NEW hidden \in BOOLEAN,
           Fail(c, g, hidden)
    PROVE  /\ call[c].phase = "acquired"
           /\ \A k \in Keys : \/ applied'[k] = applied[k] /\ unknown'[k] = unknown[k]
                              \/ applied'[k] = applied[k] + 1 /\ unknown'[k] = unknown[k] + 1
           /\ UNCHANGED <<saved, excepted, receipt, faked, stop, mode, override>>
  <1>1. call[c].phase = "acquired" /\ Key(c) \in Keys
    BY Inside DEF Fail, Send, At
  <1>2. CASE hidden
    BY <1>1, <1>2 DEF Fail, Count, TypeOK, account, rows
  <1>3. CASE ~hidden
    BY <1>1, <1>3 DEF Fail, TypeOK, account, rows
  <1> QED
    BY <1>2, <1>3

\* The attempt row: inserted once for each key.
LEMMA RecordFacts ==
    ASSUME TypeOK, NEW c \in Callers, Record(c)
    PROVE  /\ call[c].phase \in {"verified", "reported"} /\ Key(c) \in Keys
           /\ call'[c].phase \in {"idle", "recorded"}
           /\ call'[c].phase = "recorded" => call'[c].key = call[c].key
           /\ \A d \in Callers \ {c} : call'[d] = call[d]
           /\ NoNewOk(c)
           /\ saved'[Key(c)] # "none"
           /\ saved'[Key(c)] = "succeeded" =>
                 saved[Key(c)] = "succeeded" \/ call[c].phase = "reported"
           /\ \A k \in Keys \ {Key(c)} : saved'[k] = saved[k]
           /\ UNCHANGED <<applied, excepted, overlap, unknown, late, faked, stop, mode, override>>
  <1>1. call[c].phase \in {"verified", "reported"} /\ Key(c) \in Keys /\ "recorded" \in Phase
    BY Inside DEF Record, Phase
  <1>2. UNCHANGED <<applied, excepted, overlap, unknown, late, faked, stop, mode, override>>
    BY DEF Record, account, remote, history
  <1>3. CASE saved[Key(c)] # "none"
    <2>1. Raise(c) /\ saved' = saved
      BY <1>3 DEF Record
    <2> QED
      BY <1>1, <1>2, <1>3, <2>1, RaiseFacts DEF Idle, NoNewOk
  <1>4. CASE saved[Key(c)] = "none"
    <2>1. /\ saved' = [saved EXCEPT ![Key(c)] = IF At(c, "verified") THEN "verified" ELSE "succeeded"]
          /\ Go(c, "recorded") /\ receipt' = receipt
      BY <1>4 DEF Record
    <2>2. /\ call'[c].phase = "recorded" /\ call'[c].key = call[c].key
          /\ \A d \in Callers \ {c} : call'[d] = call[d]
      BY <1>1, <2>1, GoFacts
    <2>3. /\ saved'[Key(c)] = IF call[c].phase = "verified" THEN "verified" ELSE "succeeded"
          /\ \A k \in Keys \ {Key(c)} : saved'[k] = saved[k]
      BY <1>1, <2>1 DEF TypeOK, At
    <2> QED
      BY <1>1, <1>2, <2>1, <2>2, <2>3 DEF NoNewOk
  <1> QED
    BY <1>3, <1>4

\* A crash between two transactions: a write without its row will never have one.
LEMMA CrashFacts ==
    ASSUME TypeOK, NEW c \in Callers, Crash(c)
    PROVE  /\ call'[c] = Idle
           /\ \A d \in Callers \ {c} : call'[d] = call[d]
           /\ NoNewOk(c)
           /\ Key(c) \in Keys
           /\ unknown'[Key(c)] = IF call[c].phase \in Unrecorded /\ ~call[c].simulated THEN unknown[Key(c)] + 1
                                 ELSE unknown[Key(c)]
           /\ \A k \in Keys \ {Key(c)} : unknown'[k] = unknown[k]
           /\ UNCHANGED <<saved, applied, excepted, overlap, late, faked, stop, mode, override>>
  <1>1. Key(c) \in Keys /\ Raise(c)
    BY Inside DEF Crash, At
  <1>2. /\ unknown'[Key(c)] = IF call[c].phase \in Unrecorded /\ ~call[c].simulated THEN unknown[Key(c)] + 1
                              ELSE unknown[Key(c)]
        /\ \A k \in Keys \ {Key(c)} : unknown'[k] = unknown[k]
    BY <1>1 DEF Crash, Count, TypeOK
  <1> QED
    BY <1>1, <1>2, RaiseFacts DEF Crash, NoNewOk, account, rows, remote

\* Operators touch no call, and what was sent before they acted is forgotten.
LEMMA OperatorFacts ==
    ASSUME TypeOK,
           \/ \E on \in BOOLEAN : SetStop(on) \/ SetAuthorized(on)
           \/ \E m \in Mode : SetMode(m)
    PROVE  /\ UNCHANGED <<call, saved, applied, receipt, excepted, overlap, unknown, faked>>
           /\ \A c \in Callers : late'[c] = 0
  <1>1. Operate
    BY DEF SetStop, SetAuthorized, SetMode
  <1> QED
    BY <1>1 DEF Operate, rows, remote

\* A step of the specification, by the shapes above.
LEMMA StepShape ==
    ASSUME TypeOK, [Next]_vars
    PROVE  \/ \E c \in Callers :
                 \/ Plain(c) /\ NoNewOk(c)
                 \/ Replay(c) \/ Shadow(c) \/ Finish(c)
                 \/ Succeed(c)
                 \/ \E g \in Category, hidden \in BOOLEAN : Fail(c, g, hidden)
                 \/ Simulate(c, TRUE)
                 \/ /\ Between(c)
                    /\ \/ excepted' = excepted /\ call'[c].phase # "reported"
                       \/ excepted' = excepted \cup {Key(c)}
                 \/ Record(c) \/ Crash(c)
           \/ \E on \in BOOLEAN : SetStop(on) \/ SetAuthorized(on)
           \/ \E m \in Mode : SetMode(m)
           \/ Quiet
  <1>1. ASSUME NEW c \in Callers, NEW k \in Keys, Begin(c, k) PROVE Plain(c) /\ NoNewOk(c)
    BY <1>1, PlainSteps
  <1>2. ASSUME NEW c \in Callers,
               Precheck(c) \/ Acquire(c) \/ Simulate(c, FALSE) \/ RequireReauth(c) \/ RecordFailure(c) \/ CountFailure(c)
        PROVE  Plain(c) /\ NoNewOk(c)
    BY <1>2, PlainSteps
  <1>3. ASSUME NEW c \in Callers,
               (\E conclusive \in BOOLEAN : Verify(c, conclusive)) \/ OpenException(c)
        PROVE  /\ Between(c)
               /\ \/ excepted' = excepted /\ call'[c].phase # "reported"
                  \/ excepted' = excepted \cup {Key(c)}
    BY <1>3, BetweenSteps
  <1>4. (Read \/ RowAges \/ CooldownEnds \/ UNCHANGED vars) => Quiet
    BY QuietSteps
  <1>5. ASSUME NEW c \in Callers, NEW done \in BOOLEAN, Simulate(c, done)
        PROVE  Simulate(c, TRUE) \/ Simulate(c, FALSE)
    <2>1. CASE done
      BY <1>5, <2>1 DEF Simulate
    <2>2. CASE ~done
      BY <1>5, <2>2 DEF Simulate
    <2> QED
      BY <2>1, <2>2
  <1> QED
    BY <1>1, <1>2, <1>3, <1>4, <1>5 DEF Next

-----------------------------------------------------------------------------
(* The parts of the invariant *)

\* Applied is kept: a row or an ok receipt comes only out of the phases whose
\* write was applied, and applications are never undone.
LEMMA AppliedStep ==
    ASSUME TypeOK, TypeOK', Applied, [Next]_vars
    PROVE  Applied'
  <1> DEFINE A(c) == call[c].phase \in Unrecorded \cup {"recorded"} => Backed(Key(c))
             R(c) == At(c, "recorded") => saved[Key(c)] # "none"
             O(c) == receipt[c].ok => receipt[c].shadowed \/ Backed(receipt[c].key)
  <1>0. \A c \in Callers : A(c) /\ R(c) /\ O(c)
    BY DEF Applied, OkWasApplied, Backed
  <1>1. ASSUME NEW c \in Callers, Plain(c), NoNewOk(c) PROVE Applied'
    BY <1>1 DEF Plain, NoNewOk, Applied, Backed, OkWasApplied, Unrecorded, Key, At
  <1>2. ASSUME NEW c \in Callers, Replay(c) \/ Shadow(c) \/ Finish(c) PROVE Applied'
    <2>1. CASE Replay(c) /\ ~Replayable(Key(c))
      BY ZenonT(30), <1>0, <2>1, PassFacts DEF Replay, Applied, Backed, OkWasApplied, Unrecorded, Key, At, rows, remote, history
    <2>2. CASE (Replay(c) /\ Replayable(Key(c))) \/ Shadow(c) \/ Finish(c)
      <3>1. /\ Plain(c) /\ call'[c] = Idle
            /\ \A d \in Callers \ {c} : receipt'[d] = receipt[d]
            /\ receipt'[c].key = Key(c)
            /\ Shadow(c) => receipt'[c].shadowed
        BY <2>2, AnswerSteps
      <3>2. ~Shadow(c) => saved[Key(c)] # "none"
        BY <1>0, <2>2 DEF Replayable, Finish
      <3>3. Key(c) \in Keys
        BY <2>2, Inside DEF Replay, Shadow, Finish, At
      <3>4. receipt'[c].shadowed \/ Backed(Key(c))
        BY <3>1, <3>2, <3>3 DEF Applied
      <3> QED
        BY <3>1, <3>4 DEF Plain, Applied, Backed, OkWasApplied, Unrecorded, Key, At
    <2> QED
      BY <1>2, <2>1, <2>2
  <1>3. ASSUME \A k \in Keys : Backed(k) => Backed(k)',
               NEW c \in Callers,
               \A d \in Callers \ {c} : call'[d] = call[d],
               UNCHANGED <<saved, receipt>>,
               call'[c].phase \in {"rejected", "failed"}
                  \/ (call'[c].phase = "written" /\ Key(c) \in Keys /\ call'[c].key = call[c].key
                      /\ Backed(Key(c))')
        PROVE  Applied'
    <2>1. \A d \in Callers : call[d].phase # "idle" => Key(d) \in Keys
      BY Inside
    <2>2. \A d \in Callers : receipt[d].ok => receipt[d].key \in Keys
      BY DEF TypeOK, Receipt, NoReceipt
    <2>4. \A k \in Keys : saved'[k] # "none" => Backed(k)'
      BY <1>3 DEF Applied
    <2>5. ASSUME NEW d \in Callers PROVE A(d)' /\ R(d)'
      <3>1. CASE d = c
        BY <1>3, <3>1 DEF Unrecorded, Key, At, Backed
      <3>2. CASE d # c
        <4>1. call'[d] = call[d] /\ A(d) /\ R(d)
          BY <1>0, <1>3, <3>2
        <4>2. A(d)'
          BY <1>3, <2>1, <4>1 DEF Unrecorded, Key, Backed
        <4> QED
          BY <1>3, <4>1, <4>2 DEF Key, At
      <3> QED
        BY <3>1, <3>2
    <2>6. ASSUME NEW d \in Callers PROVE O(d)'
      <3>1. O(d) /\ receipt'[d] = receipt[d]
        BY <1>0, <1>3
      <3> QED
        BY <1>3, <2>2, <3>1 DEF Backed
    <2> QED
      BY <2>4, <2>5, <2>6 DEF Applied, OkWasApplied, Backed
  <1>4. ASSUME NEW c \in Callers, Succeed(c) PROVE Applied'
    <2>1. \A k \in Keys : applied[k] \in Nat
      BY DEF TypeOK
    <2>2. (\A k \in Keys : Backed(k) => Backed(k)') /\ Backed(Key(c))'
      BY <1>4, <2>1, SucceedFacts DEF Backed, Key
    <2> QED
      BY <1>3, <1>4, <2>2, SucceedFacts
  <1>5. ASSUME NEW c \in Callers, NEW g \in Category, NEW hidden \in BOOLEAN, Fail(c, g, hidden)
        PROVE  Applied'
    <2>1. \A k \in Keys : applied[k] \in Nat
      BY DEF TypeOK
    <2>2. \A k \in Keys : Backed(k) => Backed(k)'
      BY <1>5, <2>1, FailEffects DEF Backed
    <2> QED
      BY <1>3, <1>5, <2>2, FailFacts, FailEffects
  <1>6. ASSUME NEW c \in Callers, Between(c) PROVE Applied'
    BY <1>0, <1>6 DEF Between, Applied, Backed, OkWasApplied, Unrecorded, Key, At
  <1>7. ASSUME NEW c \in Callers, Record(c) PROVE Applied'
    <2>1. Backed(Key(c))
      BY <1>7, RecordFacts DEF Applied, Unrecorded
    <2>2. \A k \in Keys : saved'[k] # "none" => Backed(k)'
      BY <1>7, <2>1, RecordFacts DEF Applied, Backed
    <2>3. ASSUME NEW d \in Callers PROVE A(d)' /\ R(d)'
      <3>1. CASE d = c
        BY <1>7, <2>1, <3>1, RecordFacts DEF Unrecorded, Key, At, Backed
      <3>2. CASE d # c
        <4>1. call'[d] = call[d] /\ A(d) /\ R(d) /\ applied' = applied /\ faked' = faked
          BY <1>0, <1>7, <3>2, RecordFacts
        <4>2. At(d, "recorded") => Key(d) \in Keys
          BY Inside DEF At
        <4>3. At(d, "recorded") => saved'[Key(d)] # "none"
          BY <1>7, <4>1, <4>2, RecordFacts
        <4> QED
          BY <4>1, <4>3 DEF Unrecorded, Key, At, Backed
      <3> QED
        BY <3>1, <3>2
    <2>4. ASSUME NEW d \in Callers PROVE O(d)'
      BY <1>0, <1>7, RecordFacts DEF NoNewOk, Backed
    <2> QED
      BY <2>2, <2>3, <2>4 DEF Applied, OkWasApplied, Backed
  <1>8. ASSUME NEW c \in Callers, Crash(c) PROVE Applied'
    BY <1>8, CrashFacts DEF Applied, Backed, OkWasApplied, NoNewOk, Idle, Unrecorded, Key, At
  <1>9. ASSUME UNCHANGED <<call, saved, applied, receipt, faked>> PROVE Applied'
    BY <1>9 DEF Applied, Backed, OkWasApplied, Key, At
  <1>10. ASSUME NEW c \in Callers, Simulate(c, TRUE) PROVE Applied'
    <2>1. (\A k \in Keys : Backed(k) => Backed(k)') /\ Backed(Key(c))'
      BY <1>10, SimulateFacts DEF Backed, Key
    <2> QED
      BY <1>3, <1>10, <2>1, SimulateFacts
  <1> QED
    BY <1>10, <1>1, <1>2, <1>4, <1>5, <1>6, <1>7, <1>8, <1>9, StepShape, OperatorFacts DEF Quiet

\* Reported is kept: the exception task is opened in the step that makes the
\* write ready to be recorded unverified, and tasks are not withdrawn.
LEMMA ReportedStep ==
    ASSUME TypeOK, TypeOK', Reported, [Next]_vars
    PROVE  Reported'
  <1>1. ASSUME NEW c \in Callers, Plain(c) PROVE Reported'
    BY <1>1 DEF Plain, Reported, UnverifiedReported, Key, At
  <1>2. ASSUME NEW c \in Callers, Replay(c) \/ Shadow(c) \/ Finish(c) PROVE Reported'
    <2>1. CASE Replay(c) /\ ~Replayable(Key(c))
      BY <2>1, PassFacts DEF Replay, Reported, UnverifiedReported, Key, At, rows
    <2> QED
      BY <1>1, <1>2, <2>1, AnswerSteps
  <1>3. ASSUME NEW c \in Callers, Succeed(c) PROVE Reported'
    BY <1>3, SucceedFacts DEF Reported, UnverifiedReported, Key, At
  <1>4. ASSUME NEW c \in Callers, NEW g \in Category, NEW hidden \in BOOLEAN, Fail(c, g, hidden)
        PROVE  Reported'
    BY <1>4, FailFacts, FailEffects DEF Reported, UnverifiedReported, Key, At
  <1>5. ASSUME NEW c \in Callers, Between(c),
               \/ excepted' = excepted /\ call'[c].phase # "reported"
               \/ excepted' = excepted \cup {Key(c)}
        PROVE  Reported'
    BY <1>5 DEF Between, Reported, UnverifiedReported, Key, At
  <1>6. ASSUME NEW c \in Callers, Record(c) PROVE Reported'
    <2>1. \A d \in Callers : At(d, "reported")' => call'[d] = call[d]
      BY <1>6, RecordFacts DEF At
    <2>2. call[c].phase = "reported" => Key(c) \in excepted
      BY DEF Reported, At
    <2>3. \A k \in Keys : saved'[k] = "succeeded" => k \in excepted
      BY <1>6, <2>2, RecordFacts DEF Reported, UnverifiedReported
    <2> QED
      BY <1>6, <2>1, <2>3, RecordFacts DEF Reported, UnverifiedReported, Key, At
  <1>7. ASSUME NEW c \in Callers, Crash(c) PROVE Reported'
    BY <1>7, CrashFacts DEF Reported, UnverifiedReported, Idle, Key, At
  <1>8. ASSUME UNCHANGED <<call, saved, excepted>> PROVE Reported'
    BY <1>8 DEF Reported, UnverifiedReported, Key, At
  <1>9. ASSUME NEW c \in Callers, Simulate(c, TRUE) PROVE Reported'
    BY <1>9, SimulateFacts DEF Reported, UnverifiedReported, Key, At
  <1> QED
    BY <1>1, <1>2, <1>3, <1>4, <1>5, <1>6, <1>7, <1>8, <1>9, StepShape, OperatorFacts DEF Quiet

\* Drains is kept.  A call begun under the shut-off has a mode without writes,
\* or meets the stop at its precheck; one that sends was not late before.
LEMMA DrainsStep ==
    ASSUME TypeOK, TypeOK', Drains, [Next]_vars
    PROVE  Drains'
  <1> DEFINE Early == {"begun", "checked", "new", "acquired"}
             L(c) == /\ At(c, "acquired") => call[c].mode = "live"
                     /\ call[c].phase \in {"begun", "checked", "new"} => ~call[c].simulated
             D(c) == /\ late[c] <= 1
                     /\ (late[c] = 1 /\ call[c].phase \in Early)
                           => call[c].mode # "live" \/ (stop /\ At(c, "begun"))
  <1>0. (\A c \in Callers : L(c)) /\ (ShutOff => \A c \in Callers : D(c))
    BY DEF Drains
  <1>a. ASSUME \A c \in Callers : L(c)', ShutOff' => \A c \in Callers : D(c)' PROVE Drains'
    BY <1>a DEF Drains
  <1>b. ASSUME NEW c \in Callers, \A d \in Callers \ {c} : call'[d] = call[d],
               UNCHANGED <<stop, mode, override>>, \A d \in Callers \ {c} : late'[d] = late[d],
               L(c)', ShutOff => D(c)'
        PROVE  Drains'
    <2>1. ShutOff' = ShutOff
      BY <1>b DEF ShutOff, Effective
    <2>2. ASSUME NEW d \in Callers PROVE L(d)'
      BY <1>0, <1>b DEF At
    <2>3. ASSUME NEW d \in Callers, ShutOff PROVE D(d)'
      <3>1. CASE d = c
        BY <1>b, <2>3, <3>1
      <3>2. CASE d # c
        BY <1>0, <1>b, <2>3, <3>2 DEF At
      <3> QED
        BY <3>1, <3>2
    <2> QED
      BY <1>a, <2>1, <2>2, <2>3
  <1>1. ASSUME NEW c \in Callers, Plain(c) PROVE Drains'
    <2>1. L(c)'
      BY <1>0, <1>1 DEF Plain, At
    <2>2. ASSUME ShutOff PROVE D(c)'
      <3>0. D(c) /\ late' = late /\ stop' = stop /\ mode' = mode
        BY <1>0, <1>1, <2>2 DEF Plain
      <3>1. CASE call'[c].phase = "begun"
        BY <1>1, <2>2, <3>0, <3>1 DEF Plain, At, ShutOff
      <3>2. CASE call'[c].phase = "checked"
        BY <1>1, <3>0, <3>2 DEF Plain, At
      <3>3. CASE call'[c].phase = "acquired"
        BY <1>1, <3>0, <3>3 DEF Plain, At
      <3>4. CASE call'[c].phase \notin Early
        BY <3>0, <3>4
      <3> QED
        BY <1>1, <3>1, <3>2, <3>3, <3>4 DEF Plain
    <2> QED
      BY <1>1, <1>b, <2>1, <2>2 DEF Plain
  <1>2. ASSUME NEW c \in Callers, Replay(c) \/ Shadow(c) \/ Finish(c) PROVE Drains'
    <2>1. CASE Replay(c) /\ ~Replayable(Key(c))
      <3>1. ASSUME ShutOff PROVE D(c)'
        BY <1>0, <2>1, <3>1, PassFacts DEF Replay, At, account, history
      <3>2. L(c)'
        BY <1>0, <2>1, PassFacts DEF Replay, At
      <3> QED
        BY <1>b, <2>1, <3>1, <3>2, PassFacts DEF Replay, account, history
    <2> QED
      BY <1>1, <1>2, <2>1, AnswerSteps
  <1>3. ASSUME NEW c \in Callers, Send(c), UNCHANGED <<stop, mode, override>>,
               \A d \in Callers \ {c} : call'[d] = call[d],
               call'[c].phase \notin Early
        PROVE  Drains'
    <2>1. ASSUME ShutOff PROVE D(c)'
      <3>1. late[c] \in Nat /\ late[c] <= 1 /\ late[c] # 1
        BY <1>0, <1>3, <2>1, SendFacts DEF TypeOK, At
      <3>2. late'[c] = 1
        BY <1>3, <2>1, <3>1, SendFacts
      <3> QED
        BY <1>3, <3>2
    <2>2. L(c)'
      BY <1>3 DEF At
    <2> QED
      BY <1>3, <1>b, <2>1, <2>2, SendFacts
  <1>4. ASSUME NEW c \in Callers, Succeed(c) PROVE Drains'
    BY <1>3, <1>4, SucceedFacts DEF Succeed
  <1>5. ASSUME NEW c \in Callers, NEW g \in Category, NEW hidden \in BOOLEAN, Fail(c, g, hidden)
        PROVE  Drains'
    BY <1>3, <1>5, FailFacts, FailEffects DEF Fail
  <1>6. ASSUME NEW c \in Callers, \A d \in Callers \ {c} : call'[d] = call[d],
               UNCHANGED <<late, stop, mode, override>>, call'[c].phase \notin Early
        PROVE  Drains'
    <2>1. L(c)'
      BY <1>6 DEF At
    <2> QED
      BY <1>0, <1>6, <1>b, <2>1
  <1>7. ASSUME NEW c \in Callers, Between(c) PROVE Drains'
    BY <1>6, <1>7 DEF Between, Unrecorded
  <1>8. ASSUME NEW c \in Callers, Record(c) PROVE Drains'
    BY <1>6, <1>8, RecordFacts
  <1>9. ASSUME NEW c \in Callers, Crash(c) PROVE Drains'
    BY <1>6, <1>9, CrashFacts DEF Idle
  <1>10. ASSUME call' = call, \A c \in Callers : late'[c] = 0 PROVE Drains'
    BY <1>0, <1>10, <1>a DEF At
  <1>11. ASSUME UNCHANGED <<call, late, stop, mode, override>> PROVE Drains'
    BY <1>11 DEF Drains, ShutOff, Effective, At
  <1>12. ASSUME NEW c \in Callers, Simulate(c, TRUE) PROVE Drains'
    BY <1>6, <1>12, SimulateFacts
  <1> QED
    BY <1>12, <1>1, <1>2, <1>4, <1>5, <1>7, <1>8, <1>9, <1>10, <1>11, StepShape, OperatorFacts DEF Quiet

\* The conjuncts of Accounted, by name.
Unsent(k) == \E c \in Callers : First(c, k) /\ call[c].phase \in {"new", "acquired"}
Pending(k) == \E c \in Callers : call[c].phase \in Unrecorded /\ ~call[c].simulated /\ Key(c) = k
Excused(k) == applied[k] <= overlap[k] + unknown[k]

\* Accounted is kept by a step that makes no call first and loses no excuse.
LEMMA AccountedFrame ==
    ASSUME TypeOK, TypeOK', Accounted,
           \A c \in Callers, k \in Keys :
              First(c, k)' => First(c, k) /\ (call'[c].phase \in {"new", "acquired"}
                                                 => call[c].phase \in {"new", "acquired"}),
           \A k \in Keys : DuplicatesAccounted => applied'[k] <= 1 + overlap'[k] + unknown'[k],
           \A k \in Keys : Excused(k) => Excused(k)',
           \A k \in Keys : saved[k] # "none" => saved'[k] # "none",
           \A k \in Keys : Pending(k) => saved'[k] # "none" \/ Pending(k)' \/ Excused(k)',
           \A c \in Callers : call'[c].phase \in Unrecorded => call'[c].mode = "live"
    PROVE  Accounted'
  <1>1. DuplicatesAccounted'
    BY DEF Accounted, DuplicatesAccounted
  <1>2. (\A c, d \in Callers, k \in Keys : First(c, k) /\ First(d, k) => c = d)'
    BY DEF Accounted
  <1>3. (\A c \in Callers, k \in Keys :
          (First(c, k) /\ call[c].phase \in {"new", "acquired"}) => Excused(k))'
    BY DEF Accounted, Excused
  <1>4. (\A k \in Keys : saved[k] # "none" \/ Pending(k) \/ Excused(k))'
    BY DEF Accounted, Excused, Pending
  <1> QED
    BY <1>1, <1>2, <1>3, <1>4 DEF Accounted, Excused, Pending

\* Accounted is kept: a call passes the replay check alone only when every
\* application so far is excused, and takes the one application that need not be.
LEMMA AccountedStep ==
    ASSUME TypeOK, TypeOK', Accounted, Drains, [Next]_vars
    PROVE  Accounted'
  <1>n. \A k \in Keys : /\ applied[k] \in Nat /\ overlap[k] \in Nat /\ unknown[k] \in Nat
                        /\ applied'[k] \in Nat /\ overlap'[k] \in Nat /\ unknown'[k] \in Nat
    BY DEF TypeOK
  <1>l. \A c \in Callers : call[c].phase \in Unrecorded => call[c].mode = "live"
    BY DEF Accounted
  <1>s. \A c \in Callers : call[c].phase \in {"begun", "checked", "new"} => ~call[c].simulated
    BY DEF Drains
  <1>d. DuplicatesAccounted
    BY DEF Accounted
  <1>1. ASSUME NEW c \in Callers, Plain(c) PROVE Accounted'
    <2>1. \A d \in Callers, k \in Keys :
             First(d, k)' => First(d, k) /\ (call'[d].phase \in {"new", "acquired"}
                                                => call[d].phase \in {"new", "acquired"})
      BY <1>1, <1>s DEF Plain, First, Unrecorded, Key
    <2>2. \A k \in Keys : Pending(k) => Pending(k)'
      BY <1>1 DEF Plain, Pending, Unrecorded, Key
    <2>3. \A d \in Callers : call'[d].phase \in Unrecorded => call'[d].mode = "live"
      BY <1>1, <1>l DEF Plain, Unrecorded
    <2> QED
      BY <1>1, <2>1, <2>2, <2>3, AccountedFrame DEF Plain, Excused, DuplicatesAccounted
  <1>2. ASSUME NEW c \in Callers, Replay(c), ~Replayable(Key(c)) PROVE Accounted'
    <2>1. /\ call[c].phase = "checked" /\ Key(c) \in Keys
          /\ UNCHANGED <<saved, applied, overlap, unknown>>
      BY <1>2, Inside DEF Replay, At, rows, remote, history
    <2>2. saved[Key(c)] = "none"
      BY <1>2, <2>1 DEF Replayable, TypeOK
    <2>3. \A k \in Keys : Pending(k)' <=> Pending(k)
      BY <1>2, <2>1, PassFacts DEF Pending, Unrecorded, Key
    <2>4. CASE call[c].mode = "live" /\ ~InProgress(c, Key(c))
      <3>1. \A d \in Callers : ~First(d, Key(c)) /\ ~(call[d].phase \in Unrecorded /\ ~call[d].simulated /\ Key(d) = Key(c))
        BY <1>l, <2>1, <2>4 DEF InProgress, First, Unrecorded, Key
      <3>2. Excused(Key(c))
        BY <2>1, <2>2, <3>1 DEF Accounted, Excused
      <3>3. \A d \in Callers, k \in Keys : First(d, k)' => (d = c /\ k = Key(c)) \/ First(d, k)
        BY <1>2, PassFacts DEF First, Key
      <3>4. \A d \in Callers \ {c} : call'[d] = call[d]
        BY <1>2, PassFacts
      <3>5. (\A d, e \in Callers, k \in Keys : First(d, k) /\ First(e, k) => d = e)'
        BY <3>1, <3>3 DEF Accounted
      <3>6. (\A d \in Callers, k \in Keys :
               (First(d, k) /\ call[d].phase \in {"new", "acquired"})
                  => applied[k] <= overlap[k] + unknown[k])'
        <4> SUFFICES ASSUME NEW d \in Callers, NEW k \in Keys, First(d, k)',
                            call'[d].phase \in {"new", "acquired"}
                     PROVE  applied[k] <= overlap[k] + unknown[k]
          BY <2>1
        <4>1. CASE d = c /\ k = Key(c)
          BY <3>2, <4>1 DEF Excused
        <4>2. CASE ~(d = c /\ k = Key(c))
          <5>1. First(d, k) /\ d # c
            BY <2>1, <3>3, <4>2 DEF First, Unrecorded
          <5> QED
            BY <3>4, <5>1 DEF Accounted
        <4> QED
          BY <4>1, <4>2
      <3>7. (\A d \in Callers : call[d].phase \in Unrecorded => call[d].mode = "live")'
        BY <1>2, <1>l, PassFacts DEF Unrecorded
      <3> QED
        BY <2>1, <2>3, <3>5, <3>6, <3>7 DEF Accounted, DuplicatesAccounted, Pending
    <2>5. CASE ~(call[c].mode = "live" /\ ~InProgress(c, Key(c)))
      <3>1. \A d \in Callers, k \in Keys :
               First(d, k)' => First(d, k) /\ (call'[d].phase \in {"new", "acquired"}
                                                  => call[d].phase \in {"new", "acquired"})
        BY <1>2, <2>1, <2>5, PassFacts DEF First, Key
      <3>2. \A d \in Callers : call'[d].phase \in Unrecorded => call'[d].mode = "live"
        BY <1>2, <1>l, PassFacts DEF Unrecorded
      <3> QED
        BY <2>1, <2>3, <3>1, <3>2, AccountedFrame DEF Excused, DuplicatesAccounted
    <2> QED
      BY <2>4, <2>5
  <1>3. ASSUME NEW c \in Callers, Replay(c) \/ Shadow(c) \/ Finish(c) PROVE Accounted'
    BY <1>1, <1>2, <1>3, AnswerSteps
  <1>4. ASSUME NEW c \in Callers, Succeed(c) PROVE Accounted'
    <2>0. /\ call[c].phase = "acquired" /\ ~call[c].simulated
          /\ Key(c) \in Keys /\ call[c].mode = "live"
          /\ \A d \in Callers \ {c} : call'[d] = call[d]
          /\ UNCHANGED <<saved, unknown>> /\ Send(c)
      BY <1>4, SucceedFacts DEF Drains, At, Succeed
    <2>1. \A d \in Callers, k \in Keys :
             First(d, k)' => First(d, k) /\ (call'[d].phase \in {"new", "acquired"}
                                                => call[d].phase \in {"new", "acquired"})
      BY <1>4, <2>0, SucceedFacts DEF First, Unrecorded, Key
    <2>2. \A k \in Keys : Pending(k) \/ k = Key(c) => Pending(k)'
      BY <1>4, <2>0, SucceedFacts DEF Pending, Unrecorded, Key
    <2>3. \A d \in Callers : call'[d].phase \in Unrecorded => call'[d].mode = "live"
      BY <1>4, <1>l, <2>0, SucceedFacts
    <2>4. \A k \in Keys \ {Key(c)} : applied'[k] = applied[k] /\ overlap'[k] = overlap[k]
      BY <1>4, <2>0, SucceedFacts, SendFacts
    <2>5. CASE call[c].crowded
      <3>1. /\ applied'[Key(c)] = applied[Key(c)] + 1
            /\ overlap'[Key(c)] = overlap[Key(c)] + 1
        BY <1>4, <2>0, <2>5, SucceedFacts, SendFacts
      <3>2. \A k \in Keys : applied'[k] <= 1 + overlap'[k] + unknown'[k]
        <4> SUFFICES ASSUME NEW k \in Keys PROVE applied'[k] <= 1 + overlap'[k] + unknown'[k]
          OBVIOUS
        <4>1. applied[k] <= 1 + overlap[k] + unknown[k] /\ unknown'[k] = unknown[k]
          BY <1>d, <2>0 DEF DuplicatesAccounted
        <4> QED
          BY <1>n, <2>4, <3>1, <4>1
      <3>3. \A k \in Keys : Excused(k) => Excused(k)'
        BY <1>n, <2>0, <2>4, <3>1 DEF Excused
      <3> QED
        BY <2>0, <2>1, <2>2, <2>3, <3>2, <3>3, AccountedFrame
    <2>6. CASE ~call[c].crowded
      <3>0. overlap'[Key(c)] = overlap[Key(c)] /\ applied'[Key(c)] = applied[Key(c)] + 1
        BY <1>4, <2>0, <2>6, SucceedFacts, SendFacts
      <3>1. First(c, Key(c))
        BY <2>0, <2>6 DEF First
      <3>2. Excused(Key(c))
        BY <2>0, <3>1 DEF Accounted, Excused
      <3>3. DuplicatesAccounted'
        <4> SUFFICES ASSUME NEW k \in Keys PROVE applied'[k] <= 1 + overlap'[k] + unknown'[k]
          BY DEF DuplicatesAccounted
        <4>1. applied[k] <= 1 + overlap[k] + unknown[k] /\ unknown'[k] = unknown[k]
          BY <1>d, <2>0 DEF DuplicatesAccounted
        <4> QED
          BY <1>n, <2>4, <3>0, <3>2, <4>1 DEF Excused
      <3>4. (\A d, e \in Callers, k \in Keys : First(d, k) /\ First(e, k) => d = e)'
        BY <2>1 DEF Accounted
      <3>5. (\A d \in Callers, k \in Keys :
               (First(d, k) /\ call[d].phase \in {"new", "acquired"})
                  => applied[k] <= overlap[k] + unknown[k])'
        <4> SUFFICES ASSUME NEW d \in Callers, NEW k \in Keys, First(d, k)',
                            call'[d].phase \in {"new", "acquired"}
                     PROVE  applied'[k] <= overlap'[k] + unknown'[k]
          OBVIOUS
        <4>1. First(d, k) /\ call[d].phase \in {"new", "acquired"} /\ d # c
          BY <1>4, <2>1, SucceedFacts
        <4>2. k # Key(c)
          BY <2>0, <3>1, <4>1 DEF Accounted
        <4>3. applied[k] <= overlap[k] + unknown[k]
          BY <4>1 DEF Accounted
        <4> QED
          BY <2>0, <2>4, <4>2, <4>3
      <3>6. \A k \in Keys : saved'[k] # "none" \/ Pending(k)' \/ Excused(k)'
        BY <2>0, <2>2, <2>4 DEF Accounted, Pending, Excused
      <3> QED
        BY <2>3, <3>3, <3>4, <3>5, <3>6 DEF Accounted, Pending, Excused
    <2> QED
      BY <2>5, <2>6
  <1>5. ASSUME NEW c \in Callers, NEW g \in Category, NEW hidden \in BOOLEAN, Fail(c, g, hidden)
        PROVE  Accounted'
    <2>0. /\ call[c].phase = "acquired" /\ call'[c].phase \in {"rejected", "failed"}
          /\ \A d \in Callers \ {c} : call'[d] = call[d]
          /\ saved' = saved /\ Send(c)
      BY <1>5, FailFacts, FailEffects DEF Fail
    <2>1. \A d \in Callers, k \in Keys :
             First(d, k)' => First(d, k) /\ (call'[d].phase \in {"new", "acquired"}
                                                => call[d].phase \in {"new", "acquired"})
      BY <2>0 DEF First, Unrecorded, Key
    <2>2. \A k \in Keys : Pending(k) => Pending(k)'
      BY <2>0 DEF Pending, Unrecorded, Key
    <2>3. \A d \in Callers : call'[d].phase \in Unrecorded => call'[d].mode = "live"
      BY <1>l, <2>0 DEF Unrecorded
    <2>4. \A k \in Keys : overlap'[k] \in {overlap[k], overlap[k] + 1}
      BY <2>0, SendFacts
    <2>5. \A k \in Keys : \/ applied'[k] = applied[k] /\ unknown'[k] = unknown[k]
                          \/ applied'[k] = applied[k] + 1 /\ unknown'[k] = unknown[k] + 1
      BY <1>5, FailEffects
    <2>6. \A k \in Keys : applied'[k] <= 1 + overlap'[k] + unknown'[k]
      BY <1>n, <1>d, <2>4, <2>5 DEF DuplicatesAccounted
    <2>7. \A k \in Keys : Excused(k) => Excused(k)'
      BY <1>n, <2>4, <2>5 DEF Excused
    <2> QED
      BY <2>0, <2>1, <2>2, <2>3, <2>6, <2>7, AccountedFrame
  <1>6. ASSUME NEW c \in Callers, Between(c) PROVE Accounted'
    <2>1. \A d \in Callers, k \in Keys :
             First(d, k)' => First(d, k) /\ (call'[d].phase \in {"new", "acquired"}
                                                => call[d].phase \in {"new", "acquired"})
      BY <1>6 DEF Between, First, Unrecorded, Key
    <2>2. \A k \in Keys : Pending(k) => Pending(k)'
      BY <1>6 DEF Between, Pending, Key
    <2>3. \A d \in Callers : call'[d].phase \in Unrecorded => call'[d].mode = "live"
      BY <1>6, <1>l DEF Between
    <2> QED
      BY <1>6, <2>1, <2>2, <2>3, AccountedFrame DEF Between, Excused, DuplicatesAccounted
  <1>7. ASSUME NEW c \in Callers, Record(c) PROVE Accounted'
    <2>1. \A d \in Callers, k \in Keys :
             First(d, k)' => First(d, k) /\ (call'[d].phase \in {"new", "acquired"}
                                                => call[d].phase \in {"new", "acquired"})
      BY <1>7, RecordFacts DEF First, Unrecorded, Key
    <2>2. \A k \in Keys : Pending(k) => saved'[k] # "none" \/ Pending(k)'
      BY <1>7, RecordFacts DEF Pending, Key
    <2>3. \A d \in Callers : call'[d].phase \in Unrecorded => call'[d].mode = "live"
      BY <1>7, <1>l, RecordFacts DEF Unrecorded
    <2>4. \A k \in Keys : saved[k] # "none" => saved'[k] # "none"
      BY <1>7, RecordFacts
    <2>5. UNCHANGED <<applied, overlap, unknown>>
      BY <1>7, RecordFacts
    <2> QED
      BY <2>1, <2>2, <2>3, <2>4, <2>5, AccountedFrame DEF Excused, DuplicatesAccounted
  <1>8. ASSUME NEW c \in Callers, Crash(c) PROVE Accounted'
    <2>0. /\ call'[c].phase = "idle" /\ UNCHANGED <<saved, applied, overlap>>
          /\ \A d \in Callers \ {c} : call'[d] = call[d]
          /\ \A k \in Keys : unknown'[k] \in {unknown[k], unknown[k] + 1}
          /\ call[c].phase \in Unrecorded /\ ~call[c].simulated
                => unknown'[Key(c)] = unknown[Key(c)] + 1
      BY <1>8, CrashFacts DEF Idle
    <2>1. \A d \in Callers, k \in Keys :
             First(d, k)' => First(d, k) /\ (call'[d].phase \in {"new", "acquired"}
                                                => call[d].phase \in {"new", "acquired"})
      BY <2>0 DEF First, Unrecorded, Key
    <2>2. \A k \in Keys : applied'[k] <= 1 + overlap'[k] + unknown'[k]
      BY <1>n, <1>d, <2>0 DEF DuplicatesAccounted
    <2>3. \A k \in Keys : Excused(k) => Excused(k)'
      BY <1>n, <2>0 DEF Excused
    <2>4. ASSUME NEW k \in Keys, Pending(k) PROVE Pending(k)' \/ Excused(k)'
      <3>1. PICK d \in Callers : call[d].phase \in Unrecorded /\ ~call[d].simulated /\ Key(d) = k
        BY <2>4 DEF Pending
      <3>2. CASE d = c
        <4>1. unknown'[k] = unknown[k] + 1 /\ applied' = applied /\ overlap' = overlap
          BY <2>0, <3>1, <3>2
        <4> QED
          BY <1>n, <1>d, <4>1 DEF Excused, DuplicatesAccounted
      <3>3. CASE d # c
        BY <2>0, <3>1, <3>3 DEF Pending, Key
      <3> QED
        BY <3>2, <3>3
    <2>5. \A d \in Callers : call'[d].phase \in Unrecorded => call'[d].mode = "live"
      BY <1>l, <2>0 DEF Unrecorded
    <2> QED
      BY <2>0, <2>1, <2>2, <2>3, <2>4, <2>5, AccountedFrame
  <1>9. ASSUME UNCHANGED <<call, saved, applied, overlap, unknown>> PROVE Accounted'
    BY <1>9 DEF Accounted, DuplicatesAccounted, First, Key
  <1>10. ASSUME NEW c \in Callers, Simulate(c, TRUE) PROVE Accounted'
    <2>0. /\ call[c].phase = "acquired" /\ call[c].simulated /\ call'[c].simulated
          /\ call'[c].phase = "written" /\ call'[c].mode = "live"
          /\ \A d \in Callers \ {c} : call'[d] = call[d]
          /\ UNCHANGED <<saved, applied, overlap, unknown>>
      BY <1>10, SimulateFacts DEF Drains, At
    <2>1. \A d \in Callers, k \in Keys :
             First(d, k)' => First(d, k) /\ (call'[d].phase \in {"new", "acquired"}
                                                => call[d].phase \in {"new", "acquired"})
      BY <2>0 DEF First, Unrecorded, Key
    <2>2. \A k \in Keys : Pending(k) => Pending(k)'
      BY <2>0 DEF Pending, Unrecorded, Key
    <2>3. \A d \in Callers : call'[d].phase \in Unrecorded => call'[d].mode = "live"
      BY <1>l, <2>0 DEF Unrecorded
    <2> QED
      BY <2>0, <2>1, <2>2, <2>3, AccountedFrame DEF Excused, DuplicatesAccounted
  <1> QED
    BY <1>10, <1>1, <1>3, <1>4, <1>5, <1>6, <1>7, <1>8, <1>9, StepShape, OperatorFacts DEF Quiet

-----------------------------------------------------------------------------
(* The theorems *)

\* The initial state is typed.
LEMMA InitTyped ==
    ASSUME Init
    PROVE  TypeOK
  <1>1. /\ call \in [Callers -> Call \cup {Idle}]
        /\ receipt \in [Callers -> Receipt \cup {NoReceipt}]
        /\ late \in [Callers -> Nat]
    <2>1. Idle \in Call \cup {Idle} /\ NoReceipt \in Receipt \cup {NoReceipt}
      OBVIOUS
    <2> QED
      BY <2>1 DEF Init
  <1>2. /\ saved \in [Keys -> {"none", "succeeded", "verified"}]
        /\ sent \in [Keys -> 0 .. MaxSends]
        /\ applied \in [Keys -> Nat]
        /\ overlap \in [Keys -> Nat]
        /\ unknown \in [Keys -> Nat]
    BY BoundAssumption DEF Init
  <1>3. breaker \in Row
    <2>1. NoRow \in Row
      BY DEF NoRow, Row, State
    <2> QED
      BY <2>1 DEF Init
  <1>4. /\ mode \in Mode /\ authorized \in BOOLEAN /\ stop \in BOOLEAN
        /\ writes \in Nat /\ others \in Nat /\ excepted \in SUBSET Keys
        /\ override \in Mode \cup {"none"} /\ faked \in SUBSET Keys
    BY OverridesAssumption DEF Init, Mode
  <1>5. operator \in 0 .. MaxOperator
    BY BoundAssumption DEF Init
  <1> QED
    BY <1>1, <1>2, <1>3, <1>4, <1>5 DEF TypeOK

\* The inductive invariant holds in every reachable state.
THEOREM Invariance == Spec => []IInv
  <1>1. Init => IInv
    <2> SUFFICES ASSUME Init PROVE IInv
      OBVIOUS
    <2>1. TypeOK
      BY InitTyped
    <2>2. \A c \in Callers : call[c].phase = "idle" /\ ~receipt[c].ok /\ late[c] = 0
      BY DEF Init, Idle, NoReceipt
    <2>3. \A k \in Keys : /\ saved[k] = "none"
                          /\ applied[k] = 0 /\ overlap[k] = 0 /\ unknown[k] = 0
      BY DEF Init
    <2>4. Applied
      BY <2>2, <2>3 DEF Applied, OkWasApplied, Unrecorded, At
    <2>5. Reported
      BY <2>2, <2>3 DEF Reported, UnverifiedReported, At
    <2>6. Drains
      BY <2>2 DEF Drains, At
    <2>7. Accounted
      BY <2>2, <2>3 DEF Accounted, DuplicatesAccounted, First, Unrecorded
    <2> QED
      BY <2>1, <2>4, <2>5, <2>6, <2>7 DEF IInv
  <1>2. IInv /\ [Next]_vars => IInv'
    <2> SUFFICES ASSUME IInv, [Next]_vars PROVE IInv'
      OBVIOUS
    <2>1. TypeOK'
      BY TypeStep DEF IInv
    <2>2. Applied'
      BY <2>1, AppliedStep DEF IInv
    <2>3. Reported'
      BY <2>1, ReportedStep DEF IInv
    <2>4. Drains'
      BY <2>1, DrainsStep DEF IInv
    <2>5. Accounted'
      BY <2>1, AccountedStep DEF IInv
    <2> QED
      BY <2>1, <2>2, <2>3, <2>4, <2>5 DEF IInv
  <1> QED
    BY <1>1, <1>2, PTL DEF Spec

\* Every variable keeps its type (rows, attempts, snapshots and receipts).
THEOREM TypeCorrect == Spec => []TypeOK
  <1>1. IInv => TypeOK
    BY DEF IInv
  <1> QED
    BY <1>1, Invariance, PTL

\* For any number of callers of a key: a write is applied once, and once more
\* for each send that overlapped another call of its key and each application
\* that left no attempt row.
THEOREM DuplicatesOnlyAsAccounted == Spec => []DuplicatesAccounted
  <1>1. IInv => DuplicatesAccounted
    BY DEF IInv, Accounted
  <1> QED
    BY <1>1, Invariance, PTL

\* After an operator shuts writes off, no caller sends twice.
THEOREM ShutOffIsFinal == Spec => []ShutOffDrains
  <1>1. IInv => ShutOffDrains
    BY DEF IInv, Drains, ShutOffDrains
  <1> QED
    BY <1>1, Invariance, PTL

\* No unverified write is recorded without its exception task.
THEOREM UnverifiedHasTask == Spec => []UnverifiedReported
  <1>1. IInv => UnverifiedReported
    BY DEF IInv, Reported
  <1> QED
    BY <1>1, Invariance, PTL

\* No receipt says ok of a write the marketplace never applied, but for the
\* ones the simulated adapter carried out in its place.
THEOREM OkIsEarned == Spec => []OkWasApplied
  <1>1. IInv => OkWasApplied
    BY DEF IInv, Applied
  <1> QED
    BY <1>1, Invariance, PTL

-----------------------------------------------------------------------------
(* The rate limit *)

\* Calls past the check whose write, if it comes to one, has no row yet.
Uncounted ==
    {c \in Callers : call[c].phase \in {"checked", "new", "acquired", "rejected", "failed"} \cup Unrecorded}

\* Every call let through still has room for its row.
Room == writes + Cardinality(Uncounted) < RateLimit + Cardinality(Callers)

\* The callers past the check are finitely many, and no more than there are.
LEMMA UncountedFinite == IsFiniteSet(Uncounted) /\ Cardinality(Uncounted) \in Nat
  <1>1. IsFiniteSet(Uncounted)
    BY CallersAssumption, FS_Subset DEF Uncounted
  <1> QED
    BY <1>1, FS_CardinalityType

\* What any step does to the count: it adds nothing; or it turns a call past
\* the check into a row; or the check lets one more through, having seen room.
LEMMA CountStep ==
    ASSUME TypeOK, TypeOK', [Next]_vars
    PROVE  \/ writes' <= writes /\ Uncounted' \subseteq Uncounted
           \/ writes' = writes + 1 /\ \E c \in Uncounted : Uncounted' \subseteq Uncounted \ {c}
           \/ writes' = writes /\ writes < RateLimit
  <1> DEFINE Goal ==
        \/ writes' <= writes /\ Uncounted' \subseteq Uncounted
        \/ writes' = writes + 1 /\ \E c \in Uncounted : Uncounted' \subseteq Uncounted \ {c}
        \/ writes' = writes /\ writes < RateLimit
  <1> DEFINE Past == {"checked", "new", "acquired", "rejected", "failed"} \cup Unrecorded
  <1>0. /\ writes \in Nat /\ writes' \in Nat /\ others \in Nat
        /\ Uncounted = {c \in Callers : call[c].phase \in Past}
        /\ Uncounted' = {c \in Callers : call'[c].phase \in Past}
    BY DEF TypeOK, Uncounted
  \* One call moves and writes no row: the count grows only past the check.
  <1>a. ASSUME NEW c \in Callers, writes' = writes,
               \A d \in Callers \ {c} : call'[d] = call[d],
               call'[c].phase \in Past => call[c].phase \in Past
        PROVE  Goal
    BY <1>0, <1>a
  <1>b. ASSUME NEW c \in Callers, writes' = writes + 1,
               \A d \in Callers \ {c} : call'[d] = call[d],
               call[c].phase \in Past, call'[c].phase \notin Past
        PROVE  Goal
    BY <1>0, <1>b
  <1>i. Idle.phase \notin Past
    BY DEF Idle, Unrecorded
  <1>1. ASSUME NEW c \in Callers, NEW k \in Keys, Begin(c, k) PROVE Goal
    BY <1>a, <1>1, BeginFacts DEF Begin, rows, Unrecorded
  <1>2. ASSUME NEW c \in Callers, Precheck(c) PROVE Goal
    <2>0. call[c].phase # "idle" /\ writes' = writes
      BY <1>2 DEF Precheck, At, rows
    <2>1. CASE Blocked(c)
      BY <1>a, <1>i, <2>0, <2>1, ReturnFacts DEF Blocked
    <2>2. CASE ~Blocked(c)
      <3>1. writes + others < RateLimit
        BY <1>0, <1>2, <2>2, RateAssumption DEF Precheck, Refused, RateLimited
      <3> QED
        BY <1>0, <2>0, <3>1, RateAssumption
    <2> QED
      BY <2>1, <2>2
  <1>3. ASSUME NEW c \in Callers, Replay(c) PROVE Goal
    <2>0. call[c].phase = "checked" /\ writes' = writes
      BY <1>3 DEF Replay, At, rows
    <2>1. CASE Replayable(Key(c))
      BY <1>3, <1>a, <1>i, <2>0, <2>1, ReturnFacts DEF Replay
    <2>2. CASE ~Replayable(Key(c))
      BY <1>3, <1>a, <2>0, <2>2, PassFacts
    <2> QED
      BY <2>1, <2>2
  <1>4. ASSUME NEW c \in Callers, Shadow(c) PROVE Goal
    <2>1. call[c].phase # "idle" /\ writes' = writes
      BY <1>4 DEF Shadow, At
    <2> QED
      BY <1>4, <1>a, <1>i, <2>1, ReturnFacts DEF Shadow
  <1>5. ASSUME NEW c \in Callers, Acquire(c) PROVE Goal
    <2>0. call[c].phase = "new" /\ writes' = writes
      BY <1>5 DEF Acquire, At, rows
    <2>1. CASE authorized
      BY <1>5, <1>a, <2>0, <2>1, AcquireFacts
    <2>2. CASE Raise(c)
      BY <1>a, <1>i, <2>0, <2>2, RaiseFacts
    <2> QED
      BY <1>5, <2>1, <2>2 DEF Acquire
  <1>6. ASSUME NEW c \in Callers, Succeed(c) PROVE Goal
    <2>0. call[c].phase = "acquired" /\ writes' = writes /\ "written" \in Phase /\ Go(c, "written")
      BY <1>6 DEF Succeed, Send, At, rows, Phase
    <2> QED
      BY <1>a, <2>0, GoFacts
  <1>7. ASSUME NEW c \in Callers, NEW g \in Category, NEW hidden \in BOOLEAN, Fail(c, g, hidden)
        PROVE Goal
    <2>0. call[c].phase = "acquired" /\ writes' = writes
      BY <1>7 DEF Fail, Send, At, rows
    <2> QED
      BY <1>7, <1>a, <2>0, FailFacts
  <1>8. ASSUME NEW c \in Callers, NEW conclusive \in BOOLEAN, Verify(c, conclusive) PROVE Goal
    <2>0. call[c].phase = "written" /\ writes' = writes
      BY <1>8 DEF Verify, At, rows
    <2>1. PICK p \in Phase : Go(c, p)
      BY <1>8 DEF Verify, Phase
    <2> QED
      BY <1>a, <2>0, <2>1, GoFacts DEF Unrecorded
  <1>9. ASSUME NEW c \in Callers, OpenException(c) PROVE Goal
    <2>0. call[c].phase = "unverified" /\ writes' = writes /\ "reported" \in Phase /\ Go(c, "reported")
      BY <1>9 DEF OpenException, At, rows, Phase
    <2> QED
      BY <1>a, <2>0, GoFacts DEF Unrecorded
  <1>10. ASSUME NEW c \in Callers, Record(c) PROVE Goal
    <2>0. call[c].phase \in {"verified", "reported"} /\ "recorded" \in Phase
      BY <1>10 DEF Record, Phase
    <2>1. CASE Raise(c) /\ writes' = writes
      BY <1>a, <1>i, <2>1, RaiseFacts
    <2>2. CASE Go(c, "recorded") /\ writes' = writes + 1
      BY <1>b, <2>0, <2>2, GoFacts DEF Unrecorded
    <2> QED
      BY <1>10, <2>1, <2>2 DEF Record
  <1>11. ASSUME NEW c \in Callers, Finish(c) PROVE Goal
    <2>1. call[c].phase # "idle" /\ writes' = writes /\ (saved[Key(c)] = "verified") \in BOOLEAN
      BY <1>11 DEF Finish, At, rows
    <2>2. Return(c, saved[Key(c)] = "verified", TRUE, saved[Key(c)] = "verified", FALSE)
      BY <1>11 DEF Finish
    <2> QED
      BY <1>a, <1>i, <2>1, <2>2, ReturnFacts
  <1>12. ASSUME NEW c \in Callers, RequireReauth(c) PROVE Goal
    <2>0. call[c].phase = "rejected" /\ writes' = writes /\ "failed" \in Phase /\ Go(c, "failed")
      BY <1>12 DEF RequireReauth, At, rows, Phase
    <2> QED
      BY <1>a, <2>0, GoFacts
  <1>13. ASSUME NEW c \in Callers, RecordFailure(c) PROVE Goal
    <2>0. call[c].phase = "failed" /\ writes' = writes + 1 /\ "counted" \in Phase
      BY <1>13 DEF RecordFailure, At, Phase
    <2>1. CASE Return(c, FALSE, TRUE, FALSE, FALSE)
      BY <1>b, <1>i, <2>0, <2>1, ReturnFacts
    <2>2. CASE Go(c, "counted")
      BY <1>b, <2>0, <2>2, GoFacts DEF Unrecorded
    <2> QED
      BY <1>13, <2>1, <2>2 DEF RecordFailure
  <1>14. ASSUME NEW c \in Callers, CountFailure(c) PROVE Goal
    <2>1. call[c].phase # "idle" /\ writes' = writes
      BY <1>14 DEF CountFailure, At, rows
    <2> QED
      BY <1>14, <1>a, <1>i, <2>1, ReturnFacts DEF CountFailure
  <1>15. ASSUME NEW c \in Callers, Crash(c) PROVE Goal
    BY <1>15, <1>a, <1>i, RaiseFacts DEF Crash, rows
  \* Nobody moves, and no row is added.
  <1>16. ASSUME call' = call, writes' <= writes PROVE Goal
    BY <1>0, <1>16
  <1>17. CASE \/ \E on \in BOOLEAN : SetStop(on) \/ SetAuthorized(on)
              \/ \E m \in Mode : SetMode(m)
              \/ Read \/ RowAges \/ CooldownEnds
    BY <1>0, <1>16, <1>17
    DEF SetStop, SetAuthorized, SetMode, Operate, Read, RowAges, CooldownEnds, rows
  <1>18. CASE UNCHANGED vars
    BY <1>0, <1>16, <1>18 DEF vars
  <1>19. ASSUME NEW c \in Callers, NEW done \in BOOLEAN, Simulate(c, done) PROVE Goal
    <2>0. writes' = writes
      BY <1>19 DEF Simulate, rows
    <2> QED
      BY <1>19, <1>a, <2>0, SimulateFacts
  <1> QED
    BY <1>19, <1>1, <1>2, <1>3, <1>4, <1>5, <1>6, <1>7, <1>8, <1>9, <1>10, <1>11, <1>12, <1>13,
       <1>14, <1>15, <1>17, <1>18 DEF Next

\* Room is kept.
LEMMA RoomStep ==
    ASSUME TypeOK, TypeOK', Room, [Next]_vars
    PROVE  Room'
  <1>0. /\ writes \in Nat /\ writes' \in Nat /\ RateLimit \in Nat
        /\ IsFiniteSet(Callers) /\ Cardinality(Callers) \in Nat
        /\ IsFiniteSet(Uncounted) /\ Cardinality(Uncounted) \in Nat
        /\ Uncounted' \subseteq Callers
    BY RateAssumption, CallersAssumption, UncountedFinite, FS_CardinalityType DEF TypeOK, Uncounted
  <1>1. IsFiniteSet(Uncounted') /\ Cardinality(Uncounted') \in Nat
        /\ Cardinality(Uncounted') <= Cardinality(Callers)
    BY <1>0, FS_Subset, FS_CardinalityType
  <1>2. CASE writes' <= writes /\ Uncounted' \subseteq Uncounted
    <2>1. Cardinality(Uncounted') <= Cardinality(Uncounted)
      BY <1>0, <1>2, FS_Subset
    <2> QED
      BY <1>0, <1>1, <1>2, <2>1 DEF Room
  <1>3. ASSUME writes' = writes + 1, NEW c \in Uncounted, Uncounted' \subseteq Uncounted \ {c}
        PROVE  Room'
    <2>1. /\ IsFiniteSet(Uncounted \ {c})
          /\ Cardinality(Uncounted \ {c}) = Cardinality(Uncounted) - 1
      BY <1>0, FS_RemoveElement
    <2>2. Cardinality(Uncounted') <= Cardinality(Uncounted \ {c})
      BY <1>3, <2>1, FS_Subset
    <2> QED
      BY <1>0, <1>1, <1>3, <2>1, <2>2 DEF Room
  <1>4. CASE writes' = writes /\ writes < RateLimit
    BY <1>0, <1>1, <1>4 DEF Room
  <1> QED
    BY <1>2, <1>3, <1>4, CountStep

\* However many calls pass the check together, executed writes stay below the
\* rate limit plus one per caller.
THEOREM RateLimitHolds == Spec => []RateLimitOverrun
  <1>1. Init => Room
    <2> SUFFICES ASSUME Init PROVE Room
      OBVIOUS
    <2>1. Uncounted = {}
      BY DEF Init, Uncounted, Idle, Unrecorded
    <2> QED
      BY <2>1, RateAssumption, CallersAssumption, FS_EmptySet, FS_CardinalityType DEF Init, Room
  <1>2. IInv /\ IInv' /\ Room /\ [Next]_vars => Room'
    BY RoomStep DEF IInv
  <1>3. IInv /\ Room => RateLimitOverrun
    BY RateAssumption, CallersAssumption, UncountedFinite, FS_CardinalityType
    DEF Room, RateLimitOverrun, IInv, TypeOK
  <1> QED
    BY <1>1, <1>2, <1>3, Invariance, PTL DEF Spec
=============================================================================
