----------------------------- MODULE Schedules ------------------------------
(* The scheduler: SchedulerService of src/goliath/orchestration/scheduler.py.
   A tick loads the schedules that are due, in one transaction inserts the jobs
   of the marketplace ones and moves every one of them on, and only then
   submits the jobs of the others, one by one, in transactions of their own.

   Time is counted in the units of a window: the job of a marketplace schedule
   has an id derived from the schedule and the time it was due. *)
EXTENDS Naturals, FiniteSets

CONSTANTS MarketSchedules,  \* schedules of task type marketplace_operation
          PlainSchedules,   \* the others
          Tickers,          \* processes that run "scheduler tick"
          Interval,         \* timing_value
          RunsPerTick,      \* 1, or max_catch_up_runs under the policy "catch_up"
          MaxTime           \* bound: time

VARIABLES time,        \* the clock
          nextRun,     \* Schedule.next_run_at; 0 for NULL or no row yet
          timing,      \* Schedule.timing_type
          enabled,     \* Schedule.enabled
          windows,     \* <<schedule, time>>: marketplace jobs inserted
          ticker,      \* what each ticker has loaded, and has left to submit
          settled,     \* history: by schedule and window, jobs submitted, or
                       \* lost with the ticker that was to submit them
          passed,      \* history: <<schedule, window>> that a tick moved past
          overtaken    \* history: schedules a tick wrote after they had changed

row == <<nextRun, timing, enabled>>
vars == <<time, row, windows, ticker, settled, passed, overtaken>>

Schedules == MarketSchedules \cup PlainSchedules
Timing == {"once", "interval", "cron"}
NoTick == [phase |-> "idle", at |-> 0, due |-> {}, seen |-> {}, left |-> {}]

Init ==
    /\ time = 1
    /\ nextRun = [s \in Schedules |-> 0]
    /\ timing = [s \in Schedules |-> "interval"]
    /\ enabled = [s \in Schedules |-> TRUE]
    /\ windows = {} /\ passed = {} /\ overtaken = {}
    /\ ticker = [t \in Tickers |-> NoTick]
    /\ settled = [w \in PlainSchedules \X (1..MaxTime) |-> 0]

Clock ==
    /\ time < MaxTime /\ time' = time + 1
    /\ UNCHANGED <<row, windows, ticker, settled, passed, overtaken>>

-----------------------------------------------------------------------------
(* Schedules *)

\* Seeded fault: a schedule is due again in the second it has just run in.
NextRunAtOnce(s, now) == now

\* next_run: 0 once a single run is over; "@hourly" and "*/n" are aligned.
NextRun(s, now) ==
    IF timing[s] = "once" THEN 0
    ELSE IF timing[s] = "interval" THEN now + Interval
    ELSE now + Interval - (now % Interval)

\* create; the time of a single run may already be over.
CreateSchedule(s) ==
    /\ nextRun[s] = 0
    /\ \A w \in passed : w[1] # s
    /\ \E kind \in Timing :
         /\ timing' = [timing EXCEPT ![s] = kind]
         /\ \E first \in IF kind = "once" THEN time + 1 .. time + Interval
                         ELSE {IF kind = "interval" THEN time + Interval
                               ELSE time + Interval - (time % Interval)} :
              nextRun' = [nextRun EXCEPT ![s] = first]
    /\ UNCHANGED <<enabled, time, windows, ticker, settled, passed, overtaken>>

\* install_marketplace_schedules: a name that exists is left as it is.
InstallMarketplaceSchedules ==
    /\ \E s \in MarketSchedules : nextRun[s] = 0
    /\ nextRun' = [s \in Schedules |->
         IF s \in MarketSchedules /\ nextRun[s] = 0 THEN time + Interval ELSE nextRun[s]]
    /\ \E on \in BOOLEAN : enabled' = [s \in Schedules |->
         IF s \in MarketSchedules /\ nextRun[s] = 0 THEN on ELSE enabled[s]]
    /\ UNCHANGED <<timing, time, windows, ticker, settled, passed, overtaken>>

SetEnabled(s) ==
    /\ enabled' = [enabled EXCEPT ![s] = ~@]
    /\ UNCHANGED <<nextRun, timing, time, windows, ticker, settled, passed,
                   overtaken>>

\* run_now: the window is the present time.
RunNow(s) ==
    /\ s \in MarketSchedules /\ nextRun[s] # 0
    /\ windows' = windows \cup {<<s, time>>}
    /\ UNCHANGED <<time, row, ticker, settled, passed, overtaken>>

-----------------------------------------------------------------------------
(* Ticks *)

Due(s) == enabled[s] /\ nextRun[s] # 0 /\ nextRun[s] <= time

\* A tick loads the due schedules, and later whether their jobs exist.
TickLoad(t) ==
    LET due == {<<s, nextRun[s]>> : s \in {x \in Schedules : Due(x)}} IN
    /\ ticker[t].phase = "idle" /\ due # {}
    /\ ticker' = [ticker EXCEPT ![t] =
         [phase |-> "loaded", at |-> time, due |-> due, seen |-> windows \cap due, left |-> {}]]
    /\ UNCHANGED <<time, row, windows, settled, passed, overtaken>>

\* A job inserted since then is found, or its primary key undoes the tick.
TickConflict(t) ==
    /\ ticker[t].phase = "loaded"
    /\ ticker[t].due \cap (windows \ ticker[t].seen) # {}
    /\ ticker' = [ticker EXCEPT ![t] = NoTick]
    /\ UNCHANGED <<time, row, windows, settled, passed, overtaken>>

TickCommit(t) ==
    LET due == ticker[t].due
        moved == {w[1] : w \in due}
        plain == {w \in due : w[1] \in PlainSchedules} IN
    /\ ticker[t].phase = "loaded"
    /\ windows' = windows \cup (due \ plain)
    /\ nextRun' = [s \in Schedules |->
         IF s \in moved THEN NextRun(s, ticker[t].at) ELSE nextRun[s]]
    /\ passed' = passed \cup due
    /\ ticker' = [ticker EXCEPT ![t] =
         [NoTick EXCEPT !.phase = "submitting", !.left = plain \X (1..RunsPerTick)]]
    /\ overtaken' = overtaken \cup {w[1] : w \in {x \in due : nextRun[x[1]] # x[2]}}
    /\ UNCHANGED <<timing, enabled, time, settled>>

\* One more of the submissions that follow the commit.
TickSubmit(t) ==
    /\ ticker[t].phase = "submitting"
    /\ \E run \in ticker[t].left :
         /\ settled' = [settled EXCEPT ![run[1]] = @ + 1]
         /\ ticker' = [ticker EXCEPT ![t].left = @ \ {run}]
    /\ UNCHANGED <<time, row, windows, passed, overtaken>>

TickDone(t) ==
    /\ ticker[t].phase = "submitting" /\ ticker[t].left = {}
    /\ ticker' = [ticker EXCEPT ![t] = NoTick]
    /\ UNCHANGED <<time, row, windows, settled, passed, overtaken>>

\* The process dies, or a submission raises, and nothing remembers the rest.
TickDies(t) ==
    /\ ticker[t].phase # "idle"
    /\ settled' = [w \in DOMAIN settled |->
         settled[w] + Cardinality({run \in ticker[t].left : run[1] = w})]
    /\ ticker' = [ticker EXCEPT ![t] = NoTick]
    /\ UNCHANGED <<time, row, windows, passed, overtaken>>

Next ==
    \/ Clock \/ InstallMarketplaceSchedules
    \/ \E s \in PlainSchedules : CreateSchedule(s)
    \/ \E s \in Schedules : SetEnabled(s) \/ RunNow(s)
    \/ \E t \in Tickers : \/ TickLoad(t) \/ TickConflict(t) \/ TickCommit(t)
                          \/ TickSubmit(t) \/ TickDone(t) \/ TickDies(t)

Spec == Init /\ [][Next]_vars

-----------------------------------------------------------------------------
(* Properties *)

\* Schedules, tickers and windows have their types.
TypeOK ==
    /\ time \in 1..MaxTime
    /\ nextRun \in [Schedules -> 0..(MaxTime + Interval)]
    /\ timing \in [Schedules -> Timing] /\ enabled \in [Schedules -> BOOLEAN]
    /\ windows \subseteq MarketSchedules \X (1..MaxTime)
    /\ \A t \in Tickers :
         /\ ticker[t].phase \in {"idle", "loaded", "submitting"}
         /\ ticker[t].due \subseteq Schedules \X (1..MaxTime)
         /\ ticker[t].left # {} => ticker[t].phase = "submitting"

\* What a ticker still has to submit for a window.
Waiting(w) == Cardinality({q \in Tickers \X (({w}) \X (1..RunsPerTick)) :
                             q[2] \in ticker[q[1]].left})

\* A window that the scheduler moved past has its marketplace job; or its jobs
\* were submitted as often as configured, less those lost with a dead ticker,
\* and more often only if a tick wrote the schedule after another had moved it.
DueRunOnce ==
    \A w \in passed :
        IF w[1] \in MarketSchedules THEN w \in windows
        ELSE LET runs == settled[w] + Waiting(w) IN
             runs = RunsPerTick \/ (w[1] \in overtaken /\ runs > RunsPerTick)
=============================================================================
