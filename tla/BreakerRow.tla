----------------------------- MODULE BreakerRow -----------------------------
(***************************************************************************)
(* One row of circuit_breakers and what CircuitBreakerRepository writes to *)
(* it.  The session emits only the columns it changed, computed from the   *)
(* row as it was when loaded, so each write takes the row now (cur) and    *)
(* the row as loaded (seen).  When nothing intervened cur = seen.          *)
(***************************************************************************)
EXTENDS Naturals

CONSTANT Threshold      \* circuit_breaker.failure_threshold

ASSUME ThresholdAssumption == Threshold \in Nat \ {0}

\* due: next_probe_at has passed.  "absent": no failure has inserted the row.
State == {"absent", "closed", "open", "half_open"}
Row == [state : State, count : Nat, due : BOOLEAN]
NoRow == [state |-> "absent", count |-> 0, due |-> FALSE]

\* is_open(): whether the row keeps a write out.
Blocks(row) == row.state = "open" /\ ~row.due
\* is_open(): whether the check itself moves the row to half-open.
Flips(row) == row.state = "open" /\ row.due

Flipped(cur, seen) == IF Flips(seen) THEN [cur EXCEPT !.state = "half_open"] ELSE cur

\* Seeded fault: a failure after the cooldown does not open the row again.
OpensOnceOnly(seen) == seen.count + 1 >= Threshold /\ seen.state \in {"absent", "closed"}

\* Seeded fault: the comparison with the threshold is strict.
OpensPastThreshold(seen) == seen.count + 1 > Threshold /\ seen.state # "open"

\* Whether a failure opens the row.
Opens(seen) == seen.count + 1 >= Threshold /\ seen.state # "open"

\* Seeded fault: a failure is taken off the count.
FailedDown(cur, seen) ==
    [state |-> IF Opens(seen) THEN "open"
               ELSE IF cur.state = "absent" THEN "closed" ELSE cur.state,
     count |-> seen.count - 1,
     due   |-> IF Opens(seen) THEN FALSE ELSE cur.due]

\* record_failure() after get_or_create(); a row inserted by another
\* transaction meanwhile makes the insertion fail (see Conflicts).
Failed(cur, seen) ==
    [state |-> IF Opens(seen) THEN "open"
               ELSE IF cur.state = "absent" THEN "closed" ELSE cur.state,
     count |-> seen.count + 1,
     due   |-> IF Opens(seen) THEN FALSE ELSE cur.due]

\* The unique constraint on (scope, scope_key).
Conflicts(cur, seen) == seen.state = "absent" /\ cur.state # "absent"

\* Closing writes zero only over a count that was loaded as something else.
ClosedRow(cur, seen) ==
    [state |-> IF seen.state = "closed" THEN cur.state ELSE "closed",
     count |-> IF seen.count = 0 THEN cur.count ELSE 0,
     due   |-> cur.due]

\* Seeded fault: a success closes an open row too.
SucceededAnyway(cur, seen) ==
    IF seen.state \in {"open", "half_open"} THEN ClosedRow(cur, seen) ELSE cur

\* record_success() closes a half-open row and nothing else.
Succeeded(cur, seen) == IF seen.state = "half_open" THEN ClosedRow(cur, seen) ELSE cur
=============================================================================
