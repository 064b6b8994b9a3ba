# Resale Monster: a verification project

TLA+ models of goliath, the program in this repository (`goliath/`): a service
that turns photographed goods into marketplace listings. It queues *agent jobs*
(Hermes, Codex, marketplace operations) and runs them in worker daemons, writes
to marketplaces through a guarded gateway, and takes an item off every
marketplace once one of them has sold it. State lives in PostgreSQL; several
processes (API, CLI, workers, scheduler) share it, at READ COMMITTED, and can
die at any point. That is where this program is hard to test and where the
models are.

- `AgentJobs`, `CircuitBreaker`, `Gateway`, `Sales` model four components, each
  with an `MC` module for TLC; `JobLifecycle` is the abstract specification
  `AgentJobs` implements; `BreakerRow` is shared by two of them.
- `MediaJobs`, `Proposals`, `Research`, `ReviewTasks`, `Comparables`,
  `Schedules`, `Sessions`, `Offers`, `Messages`, `Listings`, `Shipping`,
  `Policies`, `EbayListing` and `Requests` model the services around them, one
  component each; `MCServices` instantiates all of them for one run.
- `AgentJobsProofs`, `CircuitBreakerProofs`, `GatewayProofs`, `SalesProofs` hold
  the theorems about the four components, `IntakeProofs`, `PlatformProofs` and
  `CommerceProofs` those about the fourteen services, which `ServicesProofs` puts
  together. TLAPS checks them; every safety and action property of the passing
  runs is one of them.
- `PROJECT.json` lists components, runs, mutants, hazards, findings, theorems,
  and, in `map`, the source lines behind each definition.

To repeat a run: `tlc -config Gateway.cfg MCGateway`; to check the proofs:
`tlapm GatewayProofs.tla`.

Contents: [inventory](#1-inventory) - [plan](#2-plan) - [how the models
correspond to the code](#3-models-and-code) - [runs](#4-runs) -
[fairness](#5-fairness) - [proofs](#6-proofs) - [findings](#7-findings) -
[observations](#observations) - [left out](#8-what-is-not-modelled)

## 1. Inventory

### How the parts interact

```
 API, CLI, MCP ──submit/cancel──►  agent jobs  ◄──tick── scheduler (timer)
       │                              │ claim, lease
       │ publish, offers, ...         ▼
       │                       worker daemon ──► supervisor ──► agent process
       │                              │ marketplace jobs
       ▼                              ▼
  marketplace service ◄──── marketplace worker (workflows, hooks)
       │
       ▼
    gateway ──► broker (sessions) ──► adapter ──► marketplace
       │
       └── attempt rows, circuit breakers, emergency stops, exception tasks
```

Components never send each other messages: they call each other and share
tables. One `with session_factory() ... commit` is one transaction, and between
two of them, which is where the code awaits a process or a marketplace, every
other process may commit.

### Components

**Agent jobs** (`orchestration/service.py`, `worker.py`, `uow.py`,
`db/repositories.py`, `db/operations.py`).
State: a job row (status, version, process id, queue time, eligibility, result,
recovery count), a lease row per leased job, an attempt row per leased run.
Operations: `submit` (insert, route, queue), `run_next`, `cancel`, worker
claim/heartbeat/run/complete, `reap`. Hard: crashes anywhere, leases that expire
under a slow worker, two executors and a canceller on one row, `run-next`
without a lease. Correct when one executor owns a job, the stored result is that
of the run that ended it, a dead worker's job is taken back, and retries stay in
their budget.

**Process supervisor** (`agents/supervisor.py`, `subprocess_adapter.py`).
State: the running process per job, its output buffers. Operations: run, time
out, cancel, terminate a group. Hard: termination racing exit, cancellation of
the task that waits. Correct when no process outlives a finished run of its own
supervisor and every result is reported once.

**Agent routing and registry** (`agents/router.py`, `domain_routing.py`,
`registry.py`, `base.py`, `codex.py`, `hermes.py`). No state but configuration;
a pure choice of an agent for a task.

**Scheduler** (`orchestration/scheduler.py`, `db/operations.py`). State: schedule
rows with `next_run_at`, and deterministic ids of marketplace jobs. Operations:
`tick`, `run_now`, enable/disable. Hard: the commit of `next_run_at` before the
submissions, two ticks at once, catch-up after downtime. Correct when a
marketplace window is submitted at most once and a missed run follows its
misfire policy.

**Marketplace gateway** (`marketplace/gateway.py`). State: operation attempts by
idempotency key, exception tasks. Operations: `execute` (precheck, replay,
shadow, acquire, send, verify, record, handle failure). Hard: answers lost after
an effect, two calls of one key, operators who stop writes under way, a mode that
the broker reads again when it chooses the adapter, rate limit by recorded
attempts. Correct when duplicates have an accountable cause, a stop
drains, an ok receipt is of an applied write, and unverified writes reach a
person.

**Circuit breakers and the breaker probe** (`db/marketplace_repositories.py`,
`gateway.py`, `marketplace/worker.py`). State: one row per scope: state, failure
count, next probe. Operations: `is_open`, `record_failure`, `record_success`,
probe, reset. Hard: read-modify-write without locks or versions, half-open rows
that let everyone in, a probe that dies. Correct when the threshold opens, a
failure in half-open reopens, a cooldown holds, and nothing stays open for ever.

**Publishing, sale detection and delisting** (`marketplace/service.py`,
`marketplace/worker.py`). State: item status, reservation, remote listing rows,
orders, the item's breaker. Operations: `publish_item`, `sync_orders`,
`_process_sales`, `_on_sale`, `_end_listing`, `read_listing`, `refresh_listing`.
Hard: a publish under way while the sale is handled, several handlers of one
order, partial failure of ending, restarts in between. Correct when a sold item
is off the market everywhere or a person is told, and rows agree with the
marketplace.

**Listing upkeep** (`marketplace/service.py`). State: a listing row, its price
and its replacement. Operations: `update_listing`, `run_price_automation`,
`refresh_listing`, `relist_listing`, `end_listing`. Hard: all of them against
each other and against a sale; keys that repeat. Correct when row and shop agree
on price and status, and a sale leaves nothing live.

**Offers** (`marketplace/service.py`, `policy.py`). State: an offer row.
Operations: `sync_offers`, `handle_offer`. Hard: answering one offer twice with
different decisions. Correct when the row says what the buyer was told.

**Buyer messages** (`marketplace/service.py`, `policy.py`). State: threads and
message rows. Operations: `process_routine_messages`, `respond_message`. Hard:
an inbound message committed before its answer. Correct when a buyer gets each
text once, what is recorded as delivered was sent, and no message is forgotten.

**Shipping and reconciliation** (`marketplace/service.py`, `api.py`). State: a
shipping task, the order's books. Operations: `purchase_label`,
`update_tracking`, `confirm_shipment`, `reconcile_order`. Hard: a cost check
after the purchase, a confirmation during one. Correct when one label is bought
and it is in the task and the books.

**Webhooks and sync conflicts** (`marketplace/service.py`, `api.py`). State:
event and conflict rows, each inserted once by a unique key.

**Sessions and eBay OAuth** (`marketplace/broker.py`, `ebay_auth.py`,
`cipher.py`). State: an encrypted session per account, OAuth states. Operations:
store, acquire, revoke, expire, initiate, callback, refresh. Hard: states
consumed twice, refreshes that overlap, an old session's failure after a new
login. Correct when the code of a login is sent once, a revocation holds and the
newest token wins.

**Inventory, drafts and approval proposals** (`domain/service.py`,
`db/domain_repositories.py`). State: versioned items and drafts, proposals with
a target version and an expiry. Operations: create/update with an expected
version, propose, decide, execute. Hard: two deciders, a target that moved, an
expiry that is written and rolled back. Correct when a proposal executes at most
once, on the version it was made for.

**Research** (same files). State: a record with sources and candidates.
Operations: `add_research_source`, `complete_research`. Correct when a record
yields one identification, and from a source.

**Pricing and automation policies** (`domain/pricing.py`,
`marketplace/policy.py`). Pure functions. Correct at their boundaries: no
automatic price below what the profit allows, markdowns that never raise.

**Comparables** (`domain/comparables.py`, `db/ingestion_repositories.py`).
State: comparable sales and their review, import rows. Operations: import, add,
review, select, recommend. Hard: decisions from a stale state, overlapping
imports. Correct when an invalidated comparable prices nothing.

**Completeness and listing rules** (`domain/completeness.py`, `listing.py`). Pure
functions: weighted sums of present fields, text templates.

**Media queue** (`domain/media_service.py`, `db/ingestion_repositories.py`,
`imaging.py`). State: media jobs with attempts and a lease of their own.
Operations: enqueue, claim, complete, fail, reap. Hard: as agent jobs, without
heartbeats and with weaker checks at completion.

**Review tasks** (`domain/review_service.py`, `db/ingestion_repositories.py`).
State: tasks with a deduplication key, a claim and an expiry. Operations: create
idempotently, claim, close, expire, bulk decide. Hard: rotated keys, two that
close one task, "all or nothing" that is not. Correct when a closed task keeps
its outcome.

**API, keys and request idempotency** (`api.py`, `api_runner.py`,
`core/schemas.py`, `db/domain_repositories.py`). State: API keys, idempotency
records. **Command line** (`cli.py`) and **MCP server** (`mcp/`): they call the
services and keep nothing.

**eBay adapter** (`marketplace/ebay.py`). State: none of its own; the offers are
on the remote side. Operations: create, update, end, read, track, each several
HTTP calls. Hard: failing between them, answers lost, clients overlapping.
Correct when what it reports is so. **Other adapters** (`browser_adapter.py`,
`manual_adapter.py`, `fake_adapter.py`): input and output. **Configuration,
providers, database plumbing** (`config.py`, `db/database.py`, `db/models.py`):
declarations and connections.

The hazards of the components, each at its line with the properties that cover
it, are in `PROJECT.json` under `hazards`; those without a property say why.

## 2. Plan

The order follows what a fault would cost: losing or repeating work, writing to
a marketplace when it must not, selling an item twice; then the parts that feed
these; then pure algorithms.

| # | Module | Models | Composes with | State |
|---|--------|--------|---------------|-------|
| 1 | `JobLifecycle`, `AgentJobs` | agent jobs | `AgentJobs` implements `JobLifecycle` | modelled, proved |
| 2 | `BreakerRow`, `CircuitBreaker` | breaker rows, probe | row shared with `Gateway` | modelled, proved |
| 3 | `Gateway` | `MarketplaceGateway.execute` | uses `BreakerRow` | modelled, proved |
| 4 | `Sales` | publishing, sales, delisting | its gateway calls have the outcomes `Gateway` has | modelled, proved |
| 5 | `Schedules` | `tick`, `run_now`, catch-up | submits what `AgentJobs` runs | modelled, proved |
| 6 | `MediaJobs` | media queue | - | modelled, proved |
| 7 | `Proposals`, `Research` | versioned updates, approvals, research | a completed record proposes | modelled, proved |
| 8 | `ReviewTasks`, `Comparables` | tasks, imports, reviews | a review opens and closes a task | modelled, proved |
| 9 | `Sessions` | broker and OAuth | feeds `authorized` of `Gateway` | modelled, proved |
| 10 | `Listings`, `Offers`, `Messages`, `Shipping` | the other marketplace operations | their gateway calls have the outcomes `Gateway` has | modelled, proved |
| 11 | `Policies` | price, offer and markdown policy as operators | what `Offers` and `Listings` take as given | modelled, proved |
| 12 | `EbayListing` | the adapter's call sequences | one way to get the outcomes `Gateway` is given | modelled, proved |
| 13 | `Requests` | API keys, request idempotency | - | modelled, proved |
| 14 | `Supervisor` | process life cycle | what `AgentJobs` assumes of a process | left out (section 8) |

Abstract specifications worth stating: `JobLifecycle` (done), a decided-once
proposal, and what a gateway call promises its callers, which the services take
as single steps. Theorems still worth proving: those refinements, step by step,
and lemmas about the operators that several of the services share. No module of
the project declares a RECURSIVE operator, so that each can be proved about.

## 3. Models and code

### AgentJobs

An action is a transaction, except where the code reads a row's version and
writes under a check of it later: claiming (`Select`, `Claim`/`RunNext`,
`ClaimLost`), completing (`ReadForCompletion`, `Complete`/`Finish`,
`CompletionRollsBack`) and cancelling (`CancelRead`, `CancelCommit`,
`CancelStale`, `CancelSignal`) are split at that point, because other
transactions come in there.

| Model | Code |
|-------|------|
| `status`, `version`, `ahead`, `eligible`, `pid`, `result`, `recoveries` | columns of `AgentJobRecord`; `ahead` abstracts the order of `queued_at` |
| `lease`, `attempts` | `JobLease` row and `ExecutionAttempt` rows |
| `exec`, `procs` | execution slots of worker daemons and `run-next`, and live agent processes |
| `cancel`, `submitting` | `cancel()` and `submit()` between their transactions |
| `Transition` | `AgentJobRepository.transition` and `VALID_TRANSITIONS` |
| `Create`, `Route`, `EnqueueMarketplace` | `submit`, and the scheduler's marketplace jobs |
| `Heartbeat`, `Tick` | `_lease_heartbeat` and the database clock |
| `Spawn`, `Started`, `ProcessEnds`, `EndWithoutProcess` | the supervisor and `_set_pid`, as far as the job row sees them |
| `Crash`, `AbandonAtShutdown`, `SubmitterCrash`, `CancellerCrash` | a process that dies; a drain that runs out of grace |
| `Reap` | `WorkerDaemon.reap`, one transaction for all expired leases |

A claim is named by the version it created. It stands for the lease identifier
and token and for the process id; process ids are not reused. Time is a lease's
remaining ticks; a live holder's lease expires only as a fault, because the
configuration refuses a heartbeat interval that is not shorter than the lease.

`JobLifecycle` is what a client of the job table may rely on: phase, term and
the term of the stored result. The refinement mapping is `PhaseOf(status)`,
`version` and the claim of `result`.

### CircuitBreaker and BreakerRow

`BreakerRow` gives each write of the repository as a function of two rows: as it
is now and as it was loaded, because SQLAlchemy writes only the columns a
transaction changed, computed from what it loaded. In `CircuitBreaker` each
transaction is its reads (`ReadFailure`, `ReadSuccess`, `CheckFindsDue`,
`ProbeRead`, `ProbeAnswers`, `ReadReset`) and its commit; row locks serialise
commits. `lost` and `streak` are history variables: whether an update overwrote
a change it had not seen, and how many failures were reported since a row
closed. The two scopes, account and operation, are those of every gateway call;
the adapter's and item's rows behave alike.

### Gateway

A call is a sequence of phases, each the transaction `execute` runs there:
`Begin` (`_load_account`), `Precheck`, `Replay`, `Shadow`, `Acquire`, `Succeed`
or `Fail` (the adapter answers, or its answer is lost after an effect), `Verify`,
`OpenException`, `Record`, `Finish`; on failure `RequireReauth`, `RecordFailure`,
`CountFailure`. `Crash` ends a call between any two. Operators stop, release,
change the mode and log in or out at any time (`SetStop`, `SetMode`,
`SetAuthorized`); rows age out of the rate window (`RowAges`).

Which mode a call has is decided twice. `Begin` takes the `Effective` one: the
configured override (`override`, one of `Overrides`) or else the account's
`mode`. `Acquire` is `SessionBroker.acquire_adapter`, which loads the account
again and goes by its mode alone: when that is simulation, the adapter is the
fake one, and `Simulate` is the call's write, accepted and verified by it and
applied nowhere, or refused by it.

History variables `overlap`, `unknown` and `late` count what idempotency cannot
see and what was sent after a shut-off; `faked` has the keys whose write the
fake adapter took.

### Sales

One item of quantity one, on several accounts, with one remote listing per
account, because the idempotency key of a publish is made of item and account.
A gateway call is one step with the outcomes `Gateway` has (verified,
unverified with a task, replayed, shadowed, refused, failed with or without a
hidden effect); two calls of one key that overlap, of which one raises, appear
as a run that ends. An end that the simulated adapter takes looks to the caller
as a shadowed one does, ok and without effect, and is one of those. Each other action is one transaction:

| Model | Code |
|-------|------|
| `CheckEligibility`, `CreateRow`, `SendPublish`, `ApplyPublish`, `FinishPublish` | `publish_item`, per account |
| `SyncOrders`, `UpsertOrder` | `sync_orders` and `_upsert_order` |
| `ProcessSales`, `TakeOrder` | `_process_sales`, for the paid orders of an account, run by four workflows |
| `Reserve`, `EndListing`, `StoreEnded`, `Retry`, `StoreRetried`, `RaiseRisk`, `SoldOut` | `_on_sale` and `_end_listing`, the retry loop with the list it removes from included |
| `TouchListing`, `StoreTouch` | `read_listing`, `refresh_listing`: a status read now and written later |
| `ReleaseReservation`, `BreakerCools` | reservation expiry, the item breaker's cooldown |
| `Buy`, `Pay` | buyers (external) |
| `PublisherDies`, `DetectorDies` | a process that dies or a statement that raises |

`gap` and `unseen` are history variables: why a listing may be live without the
program knowing (an inconclusive publish, a shadowed or simulated end), and for which
accounts a publish was under way when the sale was detected.

### The services

Each of the fourteen modules below has its own variables and reads nothing of
the others, so `MCServices` lets one of them run and the others rest: its state
space is their sum, and one run covers them all. In every one of them an action
is a transaction, or one HTTP call or gateway call; where the code loads a row
and later writes it by primary key without a version, the load and the write are
two actions. History variables say why an exception that a property names may
have come about; no guard reads one.

| Module | State and code | Split, and faults |
|--------|----------------|-------------------|
| `MediaJobs` | `media`, `root`, `mediaJob`, `mediaTry`, `results`: one image's row, where its bytes are, its jobs, their attempts, its derivations (`MediaIngestionService`, `ImageProcessingService`, `MediaProcessingJobRepository`) | `Claim`, `Begin`, `Produce`, then `StoreSuccess` or `StoreFailure`; `ReapLoad`, `ReapWrite`. Leases expire under a worker, workers die |
| `Proposals` | `itemVersion`, `draft`, `snaps`, `proposal`: the item's version, the draft and its snapshots, the proposals (`DomainService`, `DomainProposalRepository`, `ListingDraftRepository`) | a decision is `LoadProposal`, `LoadTarget`, `ExecuteProposal`; drafts and the item change in between; proposals expire |
| `Research` | `research`, `sources`, `identified` (`add_research_source`, `complete_research`) | load, then write |
| `ReviewTasks` | `task`, `batch`: the tasks of one finding, a bulk completion (`ReviewTaskRepository`, `ReviewService`); history: which tasks were closed, closed again, and held by another closer then | `Look`, `Insert`; `LoadToClose`, `StoreClosed`; `LoadDue`, `StoreExpired` |
| `Comparables` | `comparable`, `tasked`, `pricing`: rows and their review, open tasks, the selection of a recommendation (`ComparableImportService`, `ComparableReviewRepository.decide`, `select_comparables_for_pricing`) | `ReadRows`, `CommitImport`; `LoadComparable`, `StoreDecision`; selecting and storing |
| `Schedules` | `nextRun`, `timing`, `enabled`, `windows`: schedule rows and the ids of marketplace jobs (`SchedulerService`) | `TickLoad`, `TickCommit` or `TickConflict`, `TickSubmit` per job; a ticker dies |
| `Sessions` | `account`, `session`, `oauthState`: rows of one account (`SessionBroker`, `EbayOAuthService`, `_require_reauth`); `spent` is eBay's; history: how often a code was sent (`presented`), which states two callbacks had loaded (`overlapped`) | a login is consume, read, exchange, identify, load, replace, confirm; sessions and states expire, logins die |
| `Offers` | `offer`, `terms`, `saved`: the row, what the policy decides, succeeded attempts (`sync_offers`, `handle_offer`); `answered` is the marketplace's | evaluate, send, store; answers are lost, writes shadowed or simulated, handlers die |
| `Messages` | `inbound`, `outcome`, `known` (`process_routine_messages`, `respond_message`); `replies` is the marketplace's. A reply's key is its text: the category's, with the caller's facts where the template has a place for them (`Text`) | read, record, check, send, record; replies are lost, shadowed or simulated, responders die |
| `Listings` | `listed`, `soldUp`, `toEnd`, `succeeded`, `confirmed`: two rows, the reservation, what a sale has to end, used keys, those whose write was verified (`update_listing`, `run_price_automation`, `refresh_listing`, `relist_listing`, `end_listing`, `_on_sale`); `shop` is the marketplace's | load, call, store; a write is replayed, shadowed, verified, unverified, lost, refused or simulated, and a replacement's is never verified; writers die |
| `Shipping` | `shipment`, `books`, `raised`, `keys` (`purchase_label`, `update_tracking`, `reconcile_order`, `confirm_shipment`); `labels`, `quote`, `tracking` are the marketplace's | load, check, buy, store against a version; purchases are lost, shadowed or simulated |
| `Policies` | operators for `evaluate_offer`, `calculate_pricing`, `evaluate_markdown` in cents; a step asks one of them, or marks the same listing down again | exact integers, rounding half up |
| `EbayListing` | `client`: the call an operation is at (`EbayMarketplaceAdapter`); `remoteOffer`, `fulfilled` are eBay's | one action per HTTP call; calls fail, or take effect and their answer is lost; idempotent ones are retried |
| `Requests` | `apiKey`, `record`, `made`: the key, the idempotency row, what was made (`create_job`, `create_inventory`, `AuthRepository`, `IdempotencyRepository`) | authenticate, look up, make, record; the row expires, requests die |

`Policies` has no concurrency: its behaviours enumerate inputs. They are the ones
its callers pass: `handle_offer` passes its own minimum profit, the costs of the
item and the list price; `run_price_automation` the floor it computes.

## 4. Runs

Every passing run explores its whole state space. Each property of a passing
run is paired, in `PROJECT.json`, with a seeded fault (a `... == ` marked
"Seeded fault" in the module) under which TLC finds it violated.

| Run | Instance | Distinct states | Question |
|-----|----------|-----------------|----------|
| `agent_jobs` | 1 job, 2 workers, 1 run-next, 2 attempts, lease of 2 ticks, policy retry, 2 faults | 1.6 M | do ownership, results, attempts, retries and overlaps stay right, and is `JobLifecycle` implemented |
| `agent_jobs_live` | 1 job, 1 worker, 1 run-next, policy fail, 2 faults | 13 k | does a job under a lease stop running whatever dies |
| `agent_jobs_restart` | as above, lease of 1 tick, policy retry, 1 fault | violation | does every running job stop running (finding 1) |
| `circuit_breaker` | threshold 2, 2 calls, 1 probe, 4 failures | 3.1 M | are the rows exact unless an update was lost; do half-open rows reopen; do cooldowns hold |
| `circuit_breaker_live` | threshold 2, 1 call, 1 probe, 1 operator, 1 crash, 1 reset | 253 k | is an open breaker closed once failures stop |
| `circuit_breaker_opens` | threshold 3, 2 calls, 3 failures | violation | does the threshold open the breaker (finding 2) |
| `gateway` | 2 calls, 1 key, rate limit 1, threshold 1, 2 sends, 1 operator action, with a live override and without | 2.4 M | duplicates, shut-off, rate limit, reports, receipts |
| `gateway_verified` | 2 calls, 1 key, 2 sends, 2 operator actions | violation | is every ok receipt verified (finding 3) |
| `sales` | 2 accounts, 1 order; 2 publishes, or 2 detectors, or 1 event at a time | 1.7 M | a sold item is off the market; rows agree with the marketplace |
| `sales_live` | 2 accounts, 1 order, 1 publish, 1 detector, 1 event | 74 k | does every paid order settle |
| `services` | the fourteen services, each by itself: 2 callers of a kind, bounds below | 3.4 M | do the services keep their promises when callers overlap and writes, answers or processes are lost |
| `sales_lost` | the same without events | violation | is every paid order's item delisted (finding 4) |

What the properties say:

- `StrayLeaseOnlyAfterCancel`, `OneOwner`, `FinishedResultIsCurrent`: a lease
  never blocks a later claim; at most one executor's result can be accepted; the
  result kept is that of the run that ended the job. `AttemptAccounting`,
  `RetryBudget`, `OverlapNeedsRecovery`: attempt rows left open are exactly those
  of recoveries; failures stay in the budget; processes of one job overlap only
  as often as the reaper took it back. `ImplementsLifecycle` is the refinement.
- `CountsEveryFailure`, `HalfOpenFailureReopens`, `CooldownHolds`: conditional
  on no lost update, which `circuit_breaker_opens` shows can happen. A cooldown
  also ends early when a check that loaded the row due in an earlier opening
  commits: the row was closed and opened again since, with the same count, and
  nothing in it tells the two openings apart. `Recovers` is not conditional.
- `DuplicatesAccounted`: applied writes exceed one only by sends that overlapped
  another call of the key and by effects no attempt row shows. `ShutOffDrains`:
  after an operator shuts writes off a caller sends at most the one it carried.
  `RateLimitOverrun`: recorded writes stay below the limit plus the calls.
  `UnverifiedReported`: a write recorded without verification has a task.
  `OkWasApplied`: an ok receipt is of a shadowed call, of a write the marketplace
  applied, or of a key whose write the fake adapter took.
- `SoldIsOffMarket`, `EndedIsDown`, `LiveIsKnown`: see the module; each names
  the holes the code leaves (a publish under way at detection; effects the
  gateway could not confirm). `SaleSettles` says every paid order takes the item
  down or raises a task, but for those holes and finding 4.

- `MediaAccounted`: attempts exceed the limit only when a reaper wrote a job
  that had changed since it was read, an image left in processing by everybody
  has an attempt row that still says running, and a job that succeeded has
  results. `DecisionsHold`: an approved draft is the one that was reviewed, and
  a proposal is "executed" when and only when its change was made, save where
  two reviewers held it at once. `IdentifiedOnce`, `ReviewedOnce`,
  `InvalidatedNeverPriced`: a research record identifies once and from a source;
  a finding has one undone task while the first is undone, and a task is closed
  once unless two closers had it loaded; no selection read after an invalidation
  uses the comparable, whatever older decision is stored over it.
- `DueRunOnce`: a window the scheduler passed has its marketplace job, or its
  runs as often as configured, less those that died with a ticker, more only
  when a tick wrote over another. `RevokedForGood`: a revocation leaves no older
  session usable, save when stores overlapped; the code of a login is sent to
  eBay once, also after a death and an expiry, unless two callbacks had both
  loaded the unused state.
- `AnswerTold`, `OneReply`, `ListingsAgree`, `LabelsAccounted`: row and
  marketplace agree on the answer, the reply, the price and the status, and the
  label; each names the ways in which the code lets them differ (a lost outcome,
  a shadowed or simulated write, a replayed key, an overlap). They are the ones
  listed under [observations](#observations). `OneReply` counts a text, not a
  category: two facts make two texts. `ListingsAgree` says besides that a listing
  and its replacement are never both up, and that after a sale the only listing
  still up without a refused, shadowed or simulated end is a replacement that no
  row names, which is where `relist_listing` leaves every replacement, or one
  that a repeated relist gave a row after the sale.
- `PoliciesSound`: an accepted, countered or recommended price leaves the
  minimum profit up to a cent, a markdown lowers the price, not below the floor
  and within its limits up to the rounding step.
- `ReportsHold`: one offer per item unless creates overlapped, and what the
  adapter reported as live, ended, tracked or priced is so.
  `IdempotentOnce`: a second resource of a key has a cause, callers are told of
  one only until the row expires, and each of its own body.

Why the bounds are enough:

- *One job.* Jobs interact only through the order of the queue and the reaper's
  one transaction; both are in the model for any number of jobs, and the
  theorems are for any set of jobs. Two workers and a run-next give every pair
  of executors, a canceller the third actor.
- *Two attempts, two ticks, two faults* let a retry follow a recovery and a
  recovery a retry, a heartbeat save a lease, and a crash follow an expiry.
- *Threshold 2 with 4 failures* reaches closed, open, half-open and open again,
  and a row that opens, closes and opens a second time with the same count while
  a check of the first opening is still to commit. `circuit_breaker_opens` has threshold 3, so
  that an update of a row that exists can be lost too, not only an insertion.
- *One key, two callers, two sends*: keys share only the counters of the
  account, which `Read` also moves; two sends are a write and its retry, or two
  that overlap, and writes of the fake adapter do not count as sends. One
  operator action is enough to change the mode under a call, and `override` is
  either none or live. The theorems are for any number of all of these.
- *Two accounts* are one that sells and one to be delisted. `Limits` is a set of
  bounds, of which each behaviour has one, chosen in the initial state: two
  publish runs overlapping and a detector, two detectors and a publish, or one
  of each and an event (a death, a refresh, an expiry, a cooldown). All three at
  once exceed what TLC can explore. The retry loop of `_on_sale` skips a listing
  when the first of two failed ones is ended on retry, so two rows suffice for it.
- *Services.* Two callers of each kind are the pairs that overlap; the bounds are
  one more than the hazards need: two jobs of an image with two attempts each,
  two proposals over two versions of item and draft, two tasks, two comparables
  and their importer, four units of time with an interval of two and two runs
  per tick, three sessions and one login and revocation, two amounts and one
  change of terms, two bodies and two facts, four listing operations over two prices, three
  task versions, four eBay operations with two lost answers and one retry, three
  resources and one expiry, and one fault each. `Policies` takes amounts around
  every boundary of its rules (MCServices' configuration lists them): where a
  fee or a rounding step changes the cent, below and above.
- Deadlock is not checked: a system whose jobs are finished and whose bounds are
  used up has nothing to do.
- Symmetry (workers, calls, callers, accounts, publishers, detectors; in
  `services` the two callers, which all components share) is used only in runs
  without liveness properties.

## 5. Fairness

- `agent_jobs_live`: workers go on with what they run, time passes, and an
  operator runs `worker reap` again and again. The last is the operator's duty,
  not the code's: `reap` is a CLI command and none of the example systemd units
  calls it. Submitters, cancellers and faults are not fair.
- `circuit_breaker_live`: time passes, transactions end, and the probe takes
  steps. `circuit_breaker_probe` is a scheduled workflow marked read-only, so an
  open breaker does not block it. It answers well once failures are used up.
- `sales_live`: a publish run or a handling that has begun goes on (weak
  fairness); the scheduler starts `order_sync` and the paid-sale pass for each
  account again and again whenever a detector can take it (strong fairness,
  since a detector can be taken by the other account's work each time). This
  assumes that no stop, mode or breaker blocks the account for ever.

Deaths are bounded, not fair; what a death leaves behind must be repaired by the
actions above.

## 6. Proofs

All theorems hold for every value of the constants that satisfies the
assumptions of the module: sets of jobs, workers, callers and keys of any size,
any threshold, limit, lease length and policy. Bounds on faults and sends occur
only as upper limits in guards and the proofs do not depend on their values.

The assumptions say that limits and bounds are numbers, and no more than this
besides: kinds of actors differ where one set of them is used beside another
(`ActorsDiffer`, `ExecutorAssumption`); what is counted is finite (callers of the
gateway, researchers, identities of comparables, tickers); the value that stands
for no account is none (`AccountsAssumption`); a schedule is the marketplace's or
plain; and amounts are natural numbers of cents, list prices positive, rates
percentages from 0 to 99. That last bound is `PricingInputs`' (`lt=1` for
discounts and margins); a configuration that allows a rate of exactly 100
elsewhere is outside it.

**AgentJobsProofs.** None of the properties is inductive by itself. That a
worker's lease is valid says nothing about a runner that has none, and a
completion that read its row earlier must be known to complete the present run.
`IInv` adds: a lease of a running job was made by the claim that set it running
(`LeaseOfThisRun`); claims are past versions and differ (`ClaimsArePast`,
`ClaimsDiffer`); a run-next's job has no lease and leaves it only by
cancellation (`RunnerOwns`); a completion whose row has not moved is that of the
current claim (`CompletesThisRun`); and two facts on submission. `Invariance`
is `Spec => []IInv`, by one lemma per kind of step. From it: `TypeCorrect`,
`NoStrayLease`, `SingleOwner`, `ResultIsCurrent`, and `Implements`, which maps
every step to a step of `JobLifecycle` or a stutter. The counting properties have
invariants of their own on top of it. `AInv` (`AttemptsAccounted`,
`RetriesBounded`) ties a job's lease to its last attempt row, its open rows to
lease and recoveries, and its failed rows to retries under the limit.
`Overlaps` (`OverlapsPaid`) counts claims, not processes: each claim that was
taken back from its holder, and whose process lives or may yet be started, has
cost a recovery; a claim starts its process once.

**CircuitBreakerProofs.** `TypeCorrect`; `BreakerExact`: while nothing was lost
a commit computes from the row as it is, and each of the row's functions
preserves "count = streak, and open from the threshold on"; `FailedProbeReopens`,
an action property, follows from it, since a half-open row's count is at the
threshold already. `CooldownKept` goes through the commits one kind at a time:
a failure leaves an open row open, a success that closes one has lost an update,
a check flips it only if it loaded it due. The last case came out of a proof that
failed: the property once did not name it, and held in the run only because three
failures are one too few to reach it.

**GatewayProofs.** `IInv` is `TypeOK` and four parts: `Applied` (what is
recorded or about to be was applied, or taken by the fake adapter), `Reported` (an inconclusive call has its
task), `Drains` (a caller that sent under the present shut-off cannot pass the
check again) and `Accounted` (at most one call per key is "first", and until it
has sent, or once nothing in progress or recorded stands for it, all applied
writes are excused). `Invariance` proves it; `DuplicatesOnlyAsAccounted`,
`ShutOffIsFinal`, `UnverifiedHasTask` and `OkIsEarned` follow. `Room` adds the
calls past the check that may still record a write to the writes recorded; it
gives `RateLimitHolds`.

**SalesProofs.** Why a row may say ended, or an item sold, is in what processes
did before and still remember. The invariant has six parts: `Rows` (a publish
run's row follows the run until it has answered), `Known` (what the database takes
for published is), `Ended` (whoever is about to write "ended" has seen the listing
down), `Backed` (a live listing has an active row, or a publishing one whose run
answers for it or died), `Closed` (from the first transaction of a sale on, no run
is admitted to an account that transaction did not see) and `Tracked` (what a
handling has not brought down is on its list, among its failures, or in hand).
Steps are of two kinds, those of a publish run and those that only bring listings
down, and each part is carried through both. From it `TypeCorrect`,
`EndedHolds`, `LiveKnown` and `SoldOffMarket`.

**The services.** A behaviour of `MCServices` is, for each component, a behaviour
of its module (`XSpec`): the component's steps, or stutters while another runs.
`XInit` and `XStep` prove its invariant, and the property and the types follow.
The properties speak of what was told and stored; the invariants add what is
still in the hands of callers:

| Invariant | What it adds to the property |
|-----------|------------------------------|
| `MediaInv` | an image in processing has an attempt that runs and that no worker is about to end with a success; no two workers have the same attempt, and a worker's attempt says running until that worker ends it; a queued job has an attempt left, but for a reaper's stale writes |
| `DomainInv` | whoever executes a proposal does so alone and with the version it was made for; a change that was made has moved its target past that version; an author who loaded an older draft cannot take back an approval; an uncontested proposal is held by one reviewer and pending until decided |
| `StudyInv` | while a record is open every identification it has yielded is accounted for by a call that reopened it; a caller's count of sources is one the record had |
| `QueueInv`, `ClosedTrue` | a second task, inserted or about to be, means that the first is closed, for good; nobody holds a closed task, but one that another closer held when it was closed |
| `MarketInv` | a condemned comparable has the time of its invalidation and keeps it; an import's counts add up to what it has seen |
| `ApiInv` | one request holds the expired row's lock; until a row expires the first resource is what everybody is told; with nothing to excuse a second resource, requests follow one another |
| `SchedulerInv` | a ticker has something left only of windows it moved past; a schedule comes back to a window only if overtaken; runs submitted, lost and waiting of a passed window add up to its configured number, or more after being overtaken |
| `BrokerInv` | with no stale store, only the session stored last is usable, and the login about to store knows it; of a state no two callbacks overlapped on, one login at most is about to send the code, which nobody has sent, and by then the state is consumed |
| `UpkeepInv` | what callers were told and have not yet stored agrees with the shop; a succeeded key of an end is of a listing that is down; one caller relists, and the old listing is down before its replacement goes up; after a sale all that is up is about to be ended, or is a replacement no row names |
| `RemoteInv` | each call has the offer, price and reading it needs; with no twin, nobody creates once there is an offer; an update that reads back has written what it reports |
| `BuyerInv` | the marketplace's answer is the only one saved, unless the fake adapter took another, the one stored, and the one any handler is about to store |
| `ThreadInv` | a body is recorded before it is classified; of each text, a first reply that nobody crowded is known; a known text was sent or taken by the fake adapter; every recorded body is answered, escalated or in someone's hands |
| `DispatchInv` | what a caller holds is no newer than the task; the first label is known before another may be bought; a bought label is recorded, reported or about to be; a recorded one was bought or made up by the fake adapter |
| `ArithmeticInv` | what was told is what the policy says of what was asked; the rest is arithmetic of rounding and percentages, for all amounts |

`IntakeProofs` has the first five, `PlatformProofs` the next three,
`CommerceProofs` the others; `ServicesProofs` joins the type invariants.

**Only model-checked.** The liveness properties `LeasedRunEnds`, `Recovers` and
`SaleSettles`: liveness under fairness is out of the prover's reach. That the
seeded faults break the properties is TLC's to show as well.

## 7. Findings

1. `agent_jobs_restart`: README.md:9 says jobs survive process restarts.
   `run_next` claims without a lease; when its process dies, the row stays
   RUNNING and no reaper looks at it.
2. `circuit_breaker_opens`: `record_failure` adds one in Python to what it
   loaded, with no lock or version. Failures that overlap are lost, and reaching
   the threshold does not open the breaker, as
   tests/test_milestone_six_marketplace.py:680 expects it to. Two first failures
   also collide on the unique key.
3. `gateway_verified`: README.md:12 says writes pass through read-back
   verification. A write whose verification was inconclusive is recorded as
   succeeded, and repeating the call returns ok without verifying anything.
4. `sales_lost`: `_upsert_order` ties an order to its item through the listing's
   row. An order that is synced before the row has the remote id, or after an
   unverified publish left the row without it, is stored without an item and
   never looked at again: the other listings stay up.

### Observations

What else the code does that its documentation or its names do not lead one to
expect. The models have these behaviours; the properties name them as
exceptions, or they follow from a definition.

- *Simulation.* `_production_adapter` promises never to simulate a production
  write silently (broker.py:87). But `acquire_adapter` goes by the account's own
  mode as it is then, not by the mode the gateway checked: an account that is set
  to simulation during a call, or a simulation account with a live override in
  `operation_modes`, gets the fake adapter. The write is applied nowhere, recorded
  as verified and answered ok, and later calls of the key replay it.
- *Labels.* `purchase_label` compares the cost with the limit after buying: a
  label that costs too much is bought, a task raised, and neither the shipping
  task nor the books ever show it. It does not look at the task's status, so a
  task that was shipped goes back to "label purchased"; a shadowed purchase gives
  that status with no label and no cost. A heavy parcel needs a confirmed weight
  that nothing in the source sets.
- *Offers.* `handle_offer` does not look at the offer's status: an answered offer
  is written over with "escalated". A second counter with another amount replays
  the first's key, and its own amount is recorded. Shadow receipts are ok, so
  answers and prices are recorded that were never executed. A counter may exceed
  the list price, and the acceptance boundary may lie a cent below the minimum.
- *Markdowns.* `run_price_automation` gives the policy a total reduction of zero
  each time, so `maximum_total_reduction` never limits a series of markdowns; its
  floor, cost plus profit, leaves out the fees.
- *Listings.* The key of a refresh is fixed per listing: a second one is a replay,
  and sets an ended row ACTIVE again. An update back to an earlier price replays
  too. `relist_listing` gives its verification the wrong argument, which raises;
  the gateway takes that as unverified and opens a task, and its receipt is
  executed but not ok. So the replacement is live at the marketplace while its row
  is FAILED and has no remote id, and a later sale does not find it. The reservation
  is looked at only at the start, so a sale during a relist does not stop it
  either. `relist_count` of the old row is never incremented: a relist that is
  repeated makes a new row, replays the key of the first, and its row then names
  the replacement. In shadow mode the replacement fails, for want of an id.
- *Messages.* The key of a reply hashes its text. A second message of a category
  gets a reply of its own when the caller's facts make another text, and none when
  they do not. A message whose responder died after recording it is never answered.
- *eBay.* `create_listing` after a publish that failed finds the unpublished
  offer and answers ok with status "pending"; nothing ever publishes it. A relist
  finds the ended offer of the same SKU and returns it as the new listing.
  `update_listing` takes a title and a description and sends neither, writes the
  whole offer back, and does not compare what it reads back.
- *Requests.* Two requests with one key at once make two resources, and the second
  fails with a server error. `POST /inventory` deletes an expired row in a session
  it never commits: from then on every retry makes another item and fails.
- *Sessions.* A refresh under way during a revocation stores a usable session
  after it. `acquire_adapter` refuses no account status but
  AUTHENTICATION_REQUIRED.
- *Schedules.* Catch-up with `max_catch_up_runs` zero moves on without a run.
- *Proposals.* `update_draft` takes an item that was sold back to draft. A
  proposal with a field the item does not have can never be approved.
- *Reviews.* A bulk completion with `all_or_nothing` reports "rolled back" though
  the tasks before the failure stay completed. `create_idempotent` promises the
  existing open task (ingestion_repositories.py:538), but looks it up by the bare
  key: once the task that has that key is closed, the next call opens one under a
  rotated key, and each later call another.
- *No caller.* `evaluate_refund`, expiry and supersession of proposals by sweep,
  `set_status` of variants, `invalidate` and `accepted_for_item` of comparables.
  `list_conflicts` calls `list_open` on a repository that does not have it.

## 8. What is not modelled

- *Gateway*: the publish and canary limits (same shape as the rate limit),
  operations an adapter does not support, metrics and audit events.
- *Sales*: order cancellation and shipping, an item put back on sale, and an
  order that is already shipped when first seen (only "paid" ones are handled).
  Relisting, updates and manual ends are in `Listings`, without the detection.
- *AgentJobs*: prompts, output text, audit events, reuse of process ids,
  heartbeats of worker rows (no decision depends on them).
- *Composition*: the services' gateway calls are single steps; that
  `Gateway` has no other outcomes than those is by reading, not by a refinement.
  Where they are fewer than `Gateway`'s it is to keep a run within reach: the
  simulated outcome is left out of publishing (the row would name a listing of the
  fake adapter) and of `update_tracking`.
- *Services*: listing fields other than the price; the reasons for which a comparable is excluded, other than its review (any may be); cron and calendar timing; confidence and
  wording of policy outcomes; projection of eBay orders, offers and messages;
  cost entries, variants and descriptive fields of an item.
- The process supervisor: pipes, signals and exit codes of one process;
  `AgentJobs` has what its callers see.
- The components marked `not_modelled` in `PROJECT.json`, each with its reason:
  without state of their own (routing, completeness, CLI, MCP), input and output
  (browser and manual adapters, imaging, encryption, configuration), or rows that
  nothing acts on (webhook events, conflicts).
- Liveness of a submission whose submitter dies: its row stays PENDING, in the
  code as in the model, and nothing takes it up.
