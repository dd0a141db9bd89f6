# Portfolio Arena: a formal model

Portfolio Arena lets language-model agents run paper portfolios. A FastAPI process serves the
public site and the administrator, a worker process runs one harness subprocess per evaluation, and
PostgreSQL holds everything the two share. These modules model the parts of it whose correctness
depends on the order of steps or on arithmetic that is easy to get wrong. TLC checks them on small
instances; the safety properties that matter most are proved for every value of the constants with
TLAPS.

Source paths are relative to `backend/app/` unless they begin with another top-level directory.

## The system

| Part | State | Operations | Speaks to |
|---|---|---|---|
| Evaluation queue, `services/evaluator.py` | `evaluation_runs`, the settings row, `portfolio_evaluator_configs` | switch automation, enqueue, poll (`claim_runs`), submit, fail, cancel, retry, delete | worker over HTTP; decisions; valuation for liquidations |
| Evaluator worker, `evaluator/` | asyncio tasks, subprocesses, temporary directories | poll, run a harness, watch for cancellation, submit, report | queue; external harness programs |
| Harness adapters, `evaluator/{muse,opencode,antigravity}.py`, `run_codex` | the stream of a process' events | list models, decode the root agent's last answer, judge it | harness programs |
| Decisions, `services/admin_ops.py` | `allocations`, `signals`, `positions` | create, edit, delete, reset | symbol validation over the network; queue tables |
| Administration, `services/admin_ops.py`, `model_catalog.py` | models, agents, prompts and their revisions, portfolios | create, edit, restore, archive | queue tables |
| Settings, `admin_ops.py`, `prompt_policy.py` | one settings table, revisions of its prompts | save, restore, read a policy | every claim and submission |
| Market data, `services/market_refresh.py`, `price_cache.py`, `massive.py` | `price_cache` rows, an advisory lock | refresh loop, catch-up after corporate actions, conditional upsert | Massive over HTTP |
| Trading calendar, `services/trading_calendar.py` | none | sessions, boundaries, `effective_date_for`, `is_locked` | everything that has a boundary |
| Valuation, rebuilt analytics, arena, `services/{valuation,rebuilt,arena}.py` | none | NAV of managed portfolios, evidence and policy of daily signals, pause cut-offs | decisions, prices |
| Analysis cache, `services/analysis_cache.py` | an ordered map and the calls in flight, one lock with one condition | `get_or_compute`, `clear` | web threads |
| Sessions, `security.py`, `api/auth.py` | session rows, the browser's cookie | sign in, load, record activity, sign out | browser |
| Supervisor, `production.py` | child processes, a stop event | start, restart with backoff, stop | web and worker processes |
| Schema, `models.py`, `alembic/` | tables, constraints, the texts of shared prompts | migrations before start | all services |
| Browser caches, `frontend/src/lib/api/` | responses, request generations, a prefetch queue | load, share, evict, invalidate, prefetch | public API |
| HTTP API, MCP server, pages, queue views | none of their own | routing, validation, presentation | the services |

What makes each part correct, and what makes it hard:

- **Queue.** One active run per portfolio, one decision per session, one scheduled run per session;
  attempts within their budget; cancellations and pauses that hold. Calls come from several workers and
  the administrator at once, late, twice or never, and a worker may die at any point. Queue-creating
  calls and polls lock the settings row, but they read the clock, the liquidated shorts and (through
  the valuation) version rows *before* that lock. Submissions and cancellations lock only their run.
  Rows locked by another transaction are skipped by each stage of a poll separately.
- **Worker.** A harness process must not outlive its lease, or two processes research one portfolio.
  Exit, deadline and cancellation race; every answer of the server may be lost.
- **Harness output.** Events of subagents, revised parts and abandoned messages are in one stream, and a
  process may end at any of them.
- **Decisions.** A decision freezes at its boundary and is validated as a whole, while symbol validation
  awaits the network in the middle of the transaction.
- **Administration.** An edit must not change what running work uses. Edits lock settings, runs,
  portfolios, agents and prompts in different orders.
- **Settings.** Rows are locked one after another and read without a lock; SQLAlchemy writes only what
  differs from what it loaded.
- **Market data.** Every web process refreshes; what was fetched before a boundary must not be stored as
  its price, an older pass must not take newer data away, and a corporate action counts once.
- **Calendar and analytics.** Exact rules with many boundary cases; nothing computed may look ahead or
  change what was published.
- **Cache, sessions, supervisor, browser.** Concurrent misses share one builder and nobody sleeps for
  ever; a signed-out session does not come back; a signal ends every process; an answer to a superseded
  request does not replace a newer one.

`PROJECT.json` lists every component with its status, and every hazard with its line and the properties
that would catch it.

## Modules

| Module | Models | Extends |
|---|---|---|
| `EvaluationLedger` | what the queue promises: work items and results | |
| `EvaluatorQueue` | the queue, which implements the ledger | |
| `EvaluatorWorker` | the queue composed with the worker's attempts | `EvaluatorQueue` |
| `ManualDecisions` | creation, edits and deletion of one portfolio's decisions across the network | |
| `Administration` | the catalogue: agents, prompts, portfolios, beside a portfolio's run | |
| `MarketRefresh` | the refresh of cached prices by several processes | |
| `Rational`, `Valuation`, `Rebuilt`, `Analytics` | fractions; the value of a book; evidence and policy; both over an unfolding market | each the one before |
| `TradingCalendar` | sessions, early closes, boundaries | |
| `SingleFlightLru` | the analysis cache | |
| `Sessions` | browser sessions | |
| `Supervisor` | the production supervisor and its processes | |
| `HarnessOutput` | the harnesses' streams and their decoders | |
| `Settings` | saves, restorations and readers of the settings; the position policy | |
| `PromptUpgrades` | what database revisions do to shared prompts | |
| `PublicQueries` | one browser tab's cache of public responses | |
| `MC…` | constants for TLC; `MCServices` composes the eight small services, `MCManualDecisions` the two sides of a write, `ManualDecisions` and `PublicQueries` | the modules they name |
| `Induction` | induction over the naturals, minima and maxima of finite sets, for the proofs | |
| `…Proofs` | theorems and proofs | the module they name; `EvaluatorQueueProofs` also the ledger, `ServicesProofs` six small services |

A definition whose comment begins with *Variant* is not part of the model: it is an action or
operator with a plausible bug, and substituting it for the definition after it breaks a property
(`PROJECT.json`, "mutants").

### EvaluatorQueue and EvaluationLedger

`runs` and `decisions` are the tables: a slot of `Run` or `Decision` holds a row or `None`, and `Run`
bounds the rows that coexist. A slot may be used again after a deletion, and then no call in progress
names the old row (`Erase`): such a call can only get 404. `decisions` holds allocations and signals
alike, as (portfolio, session); the positions are the subject of `ManualDecisions`.

| Action | Code |
|---|---|
| `UpdateSettings`, `ResumeVersion`, `PauseVersion` | `update_settings`, `update_version` |
| `BeginEnable`/`EnableAutomation`, `DisableAutomation` | `update_portfolio_config` |
| `BeginManual`/`EnqueueManual`, `BeginRetry`/`RetryRun` | `enqueue_manual_runs`, `retry_run` |
| `BeginClaim`/`ClaimRuns` | `claim_runs`, with its stages `RecoverStale`, `CancelDisabled`, `CancelLiquidated`, `EnqueueScheduled`, `SkipCompleted`, `Batches`, `Start` in the code's order |
| `BeginSubmit`/`SubmitRun` | `submit_run`: refused, cancelled, skipped or recorded |
| `FailRun`, `CancelRun`, `DeleteRun` | `fail_run`, `cancel_run`, `delete_run` |
| `CreateDecision`, `DeleteDecision`, `ResetPortfolio` | `create_allocation`/`create_signal`, `_delete_decision`, `reset_portfolio` |
| `Tick`, `Liquidate` | the clock; the market taking a short's value to zero |

A `Begin…` action is what a call reads before its lock, kept in a record of `calls`; the completing
action is everything under the lock and is atomic because every writer of the queue takes the settings
row or the run's row. `reads.loaded` and `reads.on` model SQLAlchemy's identity map: a version row
that the valuation of one managed short loaded is not read again by a later query of the same session, so
`AutomationSeen` may be older than the lock, for every portfolio of that version. `EnqueueManual` takes a
batch of portfolios, which are valued together before the lock.

A poll's stages skip rows that others hold, each with a query of its own. `seen` gives for each row the
first of the five locking queries that finds it free (`Sightings`, `FreeFor`); from then on the poll holds
it. All who hold a row that waits take the settings lock first, but two: a cancellation, which ends the
row, and a submission. So only a late submission, of an attempt whose run waits for the next one
(`HeldByAnswer`), can hide a row from one query and leave it to a later one.

Abstractions: instants are naturals; a session is a day with the instant its scheduled window opens and
its boundary, both given per portfolio. `trigger_kind` is the flag `scheduled`; retries and manual runs
differ only in `scheduled_for`. Attempt budget and timeout are constants, though the code copies them
from the settings to each run. The order in which a
poll takes queued runs is left open (`Batches` chooses any subset that fits), which admits more than
first in, first out. `cancelled=True` in `fail_run` adds nothing to the model, because a worker sets it
only after it saw `cancel_requested` or the row is gone. Liquidation follows only from a decision past
its boundary; deleting part of a history may undo it and a reset does.

`EvaluationLedger` knows no settings, locks, calls or leases. `work` maps each slot in use to an item
(portfolio, session, status, attempts, result) and `results` is a set of (portfolio, session). Items
move until they are closed, at most one open item a portfolio; attempts are counted, never given back,
and kept within their budget; a pending cancellation ends in *cancelled* (`Proceed`). A result is
recorded together with the success it belongs to (`Record`), or entered by hand (`Enter`), and what
vanishes leaves no item that points at it (`Erase`).
`KeepsTheLedger` says that the queue implements it under the mapping `WorkOf`, `ResultsOf`; a poll,
which moves many rows, is one abstract step.

### EvaluatorWorker

`attempts` is what the workers hold in memory. `Answer` completes a poll and hands its runs to the
worker or loses them; `Launch`, `Exit`, `TimeOut`, `Observe`, `Stopped` are the life of the harness
process (`_communicate_run`, `_wait_for_cancellation`, `_stop_process`); `Send`, `Submitted`, `GiveUp`,
`Report` are the calls of `evaluate_run` and their answers; `Shutdown` cancels every task. Time is the
queue's clock, with urgency (`InTime`): the clock does not pass an attempt's deadline while its process
lives, nor `Delay` after a poll's clock while its answer or the launch is outstanding.

`GraceAssumption`, `Delay + TimeoutLen < LeaseLen`, is an assumption about deployment. The code gives
a lease the timeout plus 60 seconds; the delay it must cover is the rest of the poll after it read its
clock, the answer, creating the process and up to 5 seconds of killing its group. The HTTP timeouts
(30 seconds to connect, 60 to read) would admit a longer delay than that.

The switches stay on, work is scheduled or retried, and no portfolio is a managed short: what those
vary is checked in `EvaluatorQueue`. A worker killed outright leaves its harness process running, since
that leads a session of its own; it appears in `Supervisor` (`Abandon`, `orphan`).

### ManualDecisions

Each client makes one call on one portfolio. `StartCreate` locks the portfolio and reads the time;
`CheckCreate` is everything after the network up to the decision to insert; `Save` is the insert and
commit, where a signal (which has a unique key) may still be refused. `StartSubmit`, `LockSubmit`,
`CheckSubmit` are the same for `submit_run`, without the queue. `StartEditAllocation` takes no lock,
`StartEditSignal`/`LockSignal` take the row's; `FinishEdit` replaces the positions the edit *loaded*.
`DeleteDecision` and `ResetPortfolio` take portfolio and rows. The variable `kind` says whether the
portfolio holds allocations (managed) or signals (rebuilt). A position row carries the call that inserted
it, which the table does not store.

### Administration

Calls that read before they lock, or lock one row after another, are several actions and keep what they
read and the locks they hold in `calls`: `BeginUpdateAgent`/`ReadAgentWork`/`UpdateAgent`,
`BeginUpdatePortfolio`/`CheckPrompt`/`UpdatePortfolio`, `BeginConfig`/`SetConfig`,
`BeginManual`/`EnqueueManual`, `BeginClaim`/`ClaimRuns`, `BeginCreateAgent`/`CreateAgent`. Every other
call (prompts and their restoration, creation and deletion, capabilities, reset, decisions, submissions,
cancellations) is one action, which needs the locks it takes to be free. `BreakDeadlock` is PostgreSQL
ending one of two calls that wait for each other. An edit that names an agent deleted since it began ends
unchanged (`_agent_for_assignment`). A portfolio's run is its latest; `EvaluatorQueue` has
the queue in full. A track is a mode and a direction taken together.

### MarketRefresh

Time is counted in published boundaries: `2d - 1` is the open of session `d` and `2d` its close. A price
is what tells prices apart here: whether it was final when fetched, and how often each split and dividend
has been applied to it. A pass takes its time (`Begin`), then the advisory lock (`Acquire`,
`NotAcquired`), merges the missing boundaries session by session (`Grouped`) and repairs a bounded batch
of histories (`Regular`). `Upsert` is the conditional write. Each database step is an action, so passes
interleave with `Tick`, `ClearCache` and `Crash`, which returns the lock with its connection. `Download`,
`FullPoint` and `GroupedPoint` are the provider: a developing close is shown before it is final, prices
are split-adjusted up to today, and a dividend's factor is cumulative.

### Valuation, Rebuilt, Analytics

`Valuation` is `PriceLookup`, `PreparedReference.rebase` and `value_portfolio` in exact fractions:
`Mark`, `Rebase`, `Equity`, `Trade`, `Advance`, folded over the boundaries by `Follow`. `Rebuilt` adds
`Targets`, `Policy` and `Evidence`. `Analytics` lets a market unfold: `Elapse`, `Publish` (a print may be
missing), `Repair` (it arrives late), `Decide`, and `Schedule` with `Answer`: a scheduled run is queued
before the boundary of its session and keeps that session when it, or a retry of it, is answered, which may
be long after the boundary (`submit_run` takes `run.scheduled_for`). After every step `shown` is everything the arena computes
from what is known, and the properties compare it with the step before and with independent definitions.
Decimal rounding, turnover, confidence intervals and the statistics of a finished series are left out.
Model session 1 is inside SPY's history.

### The small services

`MCServices` holds eight modules that share no state and call nothing of each other: a behaviour follows
one of them (`part`), the others stay as they began. It extends all of them, so what the run checks is
what `ServicesProofs` proves. Overlapping saves are checked in `MCManualDecisions`, where a behaviour follows
either the server's side of an administrator's writes or his browser.

- **SingleFlightLru.** A thread misses and becomes the builder (`Miss`), joins a flight and sleeps on the
  one condition (`Join`) or hits. `Succeed` and `Fail` end the build under the lock and notify all
  sleepers; `Wake` is a notified thread that has the lock again. `Clear` empties the map, not the flights.
- **TradingCalendar.** The walk over days applies the rules of holidays, observed days and early closes;
  `EffectiveDateFor` and `IsLocked` are asked in the minutes around each boundary of every day.
- **Sessions.** One browser, several tabs, one cookie; each request reads its session row (`Begin`,
  `LoadActiveSession`), decides and writes later (`RecordActivity`, `DeleteExpired`, `RequireAdmin`);
  `CreateAuthSession` replaces a row, `Logout` deletes it, and `Respond` sets or clears the cookie later.
- **Supervisor.** `run` (`WaitForWeb`, `Serve`, `WebTerminated`, `CleanUp`, `Leave`) and
  `_evaluator_supervisor` (`Check`, `Spawn`, `Watch`, `EvaluatorTerminated`, `Backoff`) with two processes
  that become healthy, end, crash or must be killed. Lengths of waits are left out: the evaluator may be
  killed (`_terminate`, ten seconds) before it has killed its groups (up to two waits of five seconds).
- **HarnessOutput.** Each harness' listing (`Probe`), its start and the events its agents emit, and the
  decoders `MuseResult`, `OpencodeResult`, `AgyDecoded`, `CodexResult` over the stream; `Judge` is the
  rest of `evaluate_run`. Events are modelled as the adapters read them. `Decoding` is OpenCode's decoder
  after each event of the stream.
- **Settings.** Saves and restorations take rows one by one (`LockRow`) and commit; a reader takes the
  policy's two numbers one after the other (`ReadMinimum`, `ReadMaximum`). One policy and one wrapper
  stand for all. `Accepted` and `Resolves` are the rules for a book of positions and its symbols.
- **PromptUpgrades.** A text is the document it descends from and the phrases some revision looks for.
  `Upgrade11` … `Upgrade30`, the supported downgrades, `SeedSettings` and `Edit` come in any order the
  revisions allow.
- **PublicQueries.** A tab's `entries` (the cache in order of use), its `queries` with their generation,
  requests under way and the prefetch queue. `Mount`, `ChangeView`, `Refresh`, `Focus`, `Hide`, `Prefetch`
  are the leaderboard's callbacks; `Serve` is when the server computes a response, `Answer` when it
  arrives. `SendSave`, `Commit`, `Acknowledge`, `SaveFails` are an administrator's changes: several forms
  may be under way (`sending`, `committed`), answered in any order, and each answer empties the cache.
  `emptied` is a history variable, what had been acknowledged when the query on show was last emptied. How
  old a response is and whether the page is visible is left open.

## What is checked

| Run | Instance | Shows |
|---|---|---|
| `queue_one` | 1 portfolio, 2 rows, 1 decision, 2 attempts, 2 sessions; 359,000 states | `OneActiveRunPerPortfolio`, `ResultsAreOwned`, `ScheduledOnce`, `PausedVersionHasNoQueue`, `NoAttemptForCompletedSession`, `OnlyHolderRecords` |
| `queue_short` | 1 managed short, 1 row, 2 decisions, 2 attempts; 165,000 states | `OneDecisionPerSession`, `KeepsTheLedger`, `LiquidatedShortGetsNothing` |
| `queue_live` | 1 portfolio, 1 row | `ExpiredAttemptEnds`, `QueueDrains` |
| `worker` | 2 portfolios, 2 rows, 1 process, 2 attempts, time past one lease | `ProcessHoldsLease`, `ProcessesWithinLimit` |
| `worker_live` | 1 portfolio, 1 row | `EndOfRunStopsProcess`, `EveryAttemptEnds` |
| `decisions` | 3 calls on a managed or a rebuilt portfolio; a browser with 2 saves, 2 URLs and 2 cached queries; 247,000 states | `OneDecisionPerSession`, `SignalsAreWhole`, `EveryCallEnds`; `SavesAreShown` |
| `admin` | 1 agent, 2 prompts with 2 revisions together, 1 portfolio, 2 tracks, 2 boundaries, 1 call beside the edits of the agent | `NoEditUnderRunningWork`, `DecisionsFitTrack` |
| `market` | 2 processes, SPY and a symbol first needed in session 2, which opens with a split and ex-dividend, downloads that may lack the latest boundary, batch of 1, 1 crash or clearing; 19,400 states | `PricesAreFinal`, `StaysOnBasis`, `NothingIsLost`, `CatchesUp` |
| `analytics` | 1 stock and SPY at prices 1 or 2, 4 boundaries, 2 decisions or scheduled runs, horizons of 2 and 3 steps, 1 move, 1 missing print; 73,700 states | `NoForesight`, `NavIsCompounded`, `PolicyEarnsEvidence`, `PauseOnlyTruncates`, `HistoryStands` |
| `services` | see below; 94,000 states | `SingleFlight`, `EveryCallReturns`; `CalendarIsTheExchanges`; `OnlyLiveSessionsAdmit`; `NothingOutlivesSupervisor`, `StopEnds`; `OnlyTheFinalAnswer`; `LastSaveStands`; `WrappersStayUsable`; `NoPageStaysBlank` |
| `queue_pause`, `market_basis` | | a counterexample each: see Findings |

`services` has 3 threads, 2 keys and 1 cache entry; 1815 days of calendar from January 2024; 2 tabs and 2
tokens with an idle limit of 1 and an absolute one of 2; 2 health probes; 4 events of output; 2 clients
of the settings with 2 policies and 3 revisions; every way up and down the database revisions with 3
revisions of a text; 2 URLs, 2 cached queries and one change of the server's data.

Two properties of `queue_one` and `queue_short` make an exception. `NoAttemptForCompletedSession` and
`LiquidatedShortGetsNothing` say that a poll starts no attempt for a session that has its decision, nor for
a short that it found liquidated. A waiting run whose row a late submission holds at that check, and lets go
before the poll takes its batch, is started all the same (`HeldByAnswer`); without the exception TLC finds
it. The attempt is research in vain, and no more: its submission is skipped or refused, as
`OneDecisionPerSession` and the second half of `LiquidatedShortGetsNothing` say without exception.

`StaysOnBasis` has hypotheses, which it states: the row of the symbol ends yesterday or today on the basis
of that session, passes store in the session they began in and have no other to catch up, and a download
lacks no more than the latest boundary. Then all that a pass stores is on today's basis, a factor applied
neither twice nor to a part. That every row always is on one basis (`OneBasis`) is false: `market_basis`
shows one way, and Findings names others.

Configurations that are not among the runs check more: `EvaluatorQueueTwo.cfg` (with `MCEvaluatorQueue`)
that a claim never takes a harness above its limit, for 2 portfolios and limits 1 or 2; `ServicesMore.cfg`
(with `MCServices`) `ShownPoliciesAreFeasible`, `UneditedPromptsAgree`, `EditsStand`, `EvaluatorReturns`,
`EverySettingCallEnds`. Both hold.

**Bounds.** *Queue:* two rows of one portfolio are the fewest in which a run meets its retry or a manual
run meets the scheduled one, and every invariant relates at most two rows; two decisions are the fewest
that can share a session. Two attempts distinguish the current from a superseded attempt and the last
from one with a retry left. One call between its reads and its lock (`MaxCalls`), beside one poll per
harness, meets any number of complete calls of others. Two instants and a lease of one put a session's
boundary and a lease's end between any two steps; the *worker* needs three, for the poll, the deadline
and the end of the lease to differ. The second session never closes within the horizon, so every instant
has a next boundary, which the calendar guarantees (`CalendarAssumption`). *Decisions:* three clients are
a creator and two edits, or an edit, a deletion and a new entry. *Administration:* the agent's edits are
always in progress beside one other call, and two prompts are an exchange. *Market:* two sessions are the
fewest with a boundary that is history for a corporate action; two processes are one that stores late and
one that stored meanwhile. *Analytics:* four boundaries hold two entries of a phase and an expiry of the
shorter horizon; horizon 3 overlaps two sleeves; two decisions are one that is shown and one that is
answered late, before or after it. One move and one gap, placed anywhere, are enough to
tell marks apart; exact fractions would grow with more. *Calendar:* five years contain a leap year, each
fixed holiday on a weekend, and early closes that fall away. *Services:* three threads are a builder and
two waiters; two tabs are one that signs out and one that reports late; two tokens are a session and its
successor; four events are an agent, its subagent, a part and its revision; two URLs are a page and a
view that is warmed; two saves are enough for one answer to take a query out of the cache and the next to
miss it.

Slots, portfolios and calls of one kind are interchangeable, so safety runs use symmetry; runs with
liveness do not.

**Deadlock** is checked for the worker and the market. The other runs switch it off: clocks, slots,
horizons, events, revisions and each client's calls are bounded, and an instance that has used them up
stops.

**Fairness** is what schedulers, timers and supervisors provide, and nothing of what people or harness
processes do.

- *Queue:* the clock advances; each harness polls for ever (`scheduler` loops for ever and
  `production.py` restarts it); and since a row lock lasts one short transaction, a worker that polls
  again and again meets polls whose first query finds every row unlocked (strong fairness of `Claim(c, seen)` with `seen`
  1 for each row).
- *Worker:* asyncio runs what is ready, deadlines fire, requests time out (`httpx.Timeout`) and polls
  are answered. No process ends by itself, no submission has to be answered.
- *Decisions, settings:* a transaction in progress goes on, and PostgreSQL hands a lock to a waiter.
- *Market:* each process's loop goes on (weak fairness of `Begin`, `Grouped`, `Regular`); a process that
  asks for the advisory lock again and again gets it from time to time, and the provider answers a repair
  in full from time to time (strong fairness of `Acquire`, `AnsweredInFull`). Without the latter no code
  could catch up.
- *Cache:* builders return or raise, and a notified thread gets the lock.
- *Supervisor:* its two coroutines go on, `_terminate` kills after ten seconds, and an evaluator that is
  stopping kills its groups (`_stop_process` after five). No process has to heed a signal or become
  healthy.
- *Browser:* each request is answered or fails, and the refresh timer of an open page fires, since the
  page is visible from time to time.

`ExpiredAttemptEnds` and `EveryAttemptEnds` speak of deadlines within the horizon.

## What is proved

For every number of portfolios, rows, decisions, sessions, attempts, agents, prompts, revisions, clients,
policies, threads, keys, processes, symbols, boundaries, prices, horizons, tabs, tokens, events and URLs, from the assumptions named in the modules
(`ConstantsAssumption`, `SentinelAssumption`, `CalendarAssumption`, `FiniteAssumption` of `EvaluatorQueue`;
`StockAssumption`, `PricesAssumption`, `WeightsAssumption` of `Analytics`: finitely many stocks, positive
prices, and weights that add up to at most the book, as `services/symbols.py` validates them;
`GraceAssumption` of `EvaluatorWorker`, which the code does not guarantee; `CatalogueAssumption`;
`DecisionsAssumption`; `CacheAssumption`; `RefreshAssumption` and `SentinelAssumption` of `MarketRefresh`;
`SettingsAssumption`, `UpgradesAssumption`, `DisplayAssumption`, `StepsAssumption`, which only tell
sentinels from data and bounds from zero). Beyond them three theorems have a hypothesis: `LimitsAreLengths` for sessions, and that there
is no managed short for `PausedMeansEmpty` and `NoEditUnderWork`.

**EvaluatorQueueProofs.** `TypeCorrect`, `SingleActiveRun`, `SingleDecision`, `ResultOwnership`,
`SingleSchedule`, `BudgetRespected`, and the action properties `CancellationWins` and
`FinishedForGood`. The inductive invariant is `IInv == TypeOK /\ TableInv(runs) /\
OneDecisionPerSession /\ Owned`, in effect the conjunction of those invariants, each of which needs
others: one result per decision needs unique results across rows, and requeueing a lost run keeps the
slot of its portfolio only because a leased run occupies it too. `TableInv` is stated of any table, so
that it can be carried through the stages of a poll. What a stage may do to a row is `Follows`; stages
that create and delete nothing satisfy `Advances`, which is transitive (`AdvancesTransitive`) and keeps
`TableInv` (`AdvanceKeepsInv`). Every action is then an advance, an insertion, an erasure or a recorded
result, and the action properties are read off `Follows`.

A second group says what a poll may take, and follows one row through all of its stages
(`LeftByClaim`, `Claimed`): `SwitchesRespected` (no attempt starts while a switch is off in the locked
rows), `NoNeedlessAttempt` (none for a session that has its decision), `LiquidationRespected`, both with
the exception of rows that a late submission held, and
`HolderRecords` (only the attempt that holds a live lease records). What the first query that finds a row
free is differs from row to row, so the stages are followed for each row from its own query on. `LimitRespected` counts: the batch
fits beside the leases a harness still has (`LeasedWithinBound`). `OnlyShortVersionsWaitPaused` says which
queued work a pause can miss (`PausedQueueHasShort`): that of a version with a managed short, whose
valuation loads the version's row before the lock; the work may be the short's or any other portfolio's of
that version. `PausedMeansEmpty` follows where there are none, and `queue_pause` shows the exception.

Last comes the refinement, `QueueImplementsLedger`: `Spec => Ledger!Spec`. The invariant above shows that
the mapped table is one of items and that a decision stands for its session alone; each kind of step then
maps to `Proceed`, `Record`, `Enter`, `Erase` or a stutter. Budget, finality, cancellation and single
results of the queue follow for the ledger at once.

**EvaluatorWorkerProofs.** `LeaseOutlivesProcess`, `ProcessesDoNotCompete`, `ProcessesShareTheLimit`,
all three beside runs that were deleted. The queue's invariant carries over, since the workers use the
queue by its own actions (`WorkersUseTheQueue`). `WInv` adds that an attempt with a process holds its
run's lease or its run is gone, with more of the lease left than the process may still take (`Backed`),
and that neither a poll nor an attempt is older than its delay or timeout (`Timely`, `CallsInv`): this is
where `GraceAssumption` is needed, because expiry is the only way a poll takes a lease away. Competing processes would then be two leased runs of a portfolio, and the limit
follows by an injection of processes into leased runs.

**AdministrationProofs.** `HistoryFitsTrack`, `LockedTimingStays`, `WorkKeepsItsPrompt`,
`NoEditUnderWork`. The argument is about locks. `Relies(c)` says of each call in progress that what it
found when it looked still holds, because it has locked what others would have to change; `OneEdit`
that portfolios are edited one at a time; `TablesInv` ties the tables together. With `DecisionsFitTrack` they
are inductive. Every step moves the prompts, the runs or the portfolios (`PromptStep`, `RunStep`,
`PortfolioStep`), and the theorems follow from what each kind may do to a portfolio and its run. A
poll that values managed shorts breaks the last one: it renders what it loaded before its lock
(`AdministrationStale.cfg`). `WorkKeepsItsPrompt` needs no such hypothesis: once claimed, a run's
revision, its portfolio's prompt and that prompt's text stay to the end of the run.

**ManualDecisionsProofs.** `TypeCorrect`, `SingleDecision` (for both kinds: the portfolio lock suffices
without the unique key), `SignalsAreOneProposal` (where it needs that an edit holds the row from its read
to its commit), `LateEditsRefused` (an edit that begins after the boundary changes nothing). The invariant
adds that a call past its check holds the portfolio (`CheckIsLocked`) and that what it checked still holds
(`CheckHolds`), that a decision's creator has ended (`CreatedByEnded`), that a signal's edit holds its row
(`EditIsLocked`), and for the last theorem that an edit in progress began before its boundary
(`EditIsTimely`).

**MarketRefreshProofs.** `OnlyFinalPrices`: whatever lags, fails or dies, every cached price is its
boundary's settled price. The invariant says it also of what a pass keeps to store later, and that no pass
is ahead of the clock (`CacheSettled`, `PassesSettled`): cutting a response at the pass's *older* time is
what makes it safe. `NoPriceIsLost`: no step but a clearing takes a boundary out of the cache. It needs
that only the process with the advisory lock works on the cache, and that what it holds contains all that
is cached (`HolderHasAll`); every stage of a pass then adds to that or leaves it (`StepKeeps`).
`StaysOnOneBasis`: the factor of the day lifts a row that ends yesterday, and is 1 for one that shows the
day (`FactorLifts`); a repair downloads the whole of a row that ends yesterday again
(`RepairStartsEarly`, `RepairPutsOnBasis`), and adds prices on the day's basis to one that is on it.

**AnalyticsProofs.** `ShownIsKnown`, `NoForesightAlways`, `HistoryStandsAlways`,
`PauseOnlyTruncatesAlways`, `NavIsCompoundedAlways`, `SleevesFitAlways`, `PolicyEarnsEvidenceAlways`. The
inductive invariant is `Coherent`: every page shows `Analyses` of what is
known, no two decisions are of one session, and each decision, recorded or still to be answered by a
scheduled run, lies at the first boundary of its phase after it was asked for (`Timely`), however late the
answer is. The rest
is about the computation. Its recursions (`Rebasing`, `Runs`) have solutions, and these are prefixes of
those over more boundaries (`RebasingIs`, `RunsAre`, `RunsExtend`). A mark, the reference and a run are
the same where the prints and the trades up to there are the same (`SameMark`, `SameRebase`, `SameRuns`), so a
run stands while what changes lies later, and a shorter run is the longer one cut off (`FollowStands`,
`FollowTruncates`); likewise the outcome of a signal (`EvidenceStands`). A step of the market or a
decision then leaves alone what took effect before it (`ProceedingStands`): a step may add one decision,
and it keeps every value before that decision's boundary. A decision made at once has none but boundaries
ahead (`EffectiveSessionIs`), so all that was shown stands; one answered late changes what was shown from
its own boundary on and nothing before. So far nothing is assumed of prices and
weights.

What the values are rests on the algebra of fractions. A fraction in lowest terms is one pair whatever
terms it was computed from (`RatioSame`), which makes the laws identities between integers (`PlusLaws`,
`TimesLaws`, `Exchange`, `Marked`); a sum over a finite set does not depend on the order in which it is
taken (`SumTakesAny`), so it can be scaled, added and restricted. Units, entries and collateral of a trade
then add up to its value times a growth (`EquityIs`). A run that goes on without error holds the book of its
latest trade (`Holding`), whose prints and reference stay good (`HeldIsValuable`), so each value is that
product (`RunCompounds`, `NavIsCompoundedAlways`). Signals of one phase that overlap began at boundaries
of one parity, which leaves each a sleeve of its own (`ActiveFit`), and the sleeves fit in the book
(`TargetsAre`). With one sleeve the policy is moved to a signal's weights at its entry (`SoleTarget`) and
trades no more before the horizon (`RotationsWait`); its reference from there is the one the evidence
starts afresh, times what it was at the entry (`ReferenceRestarts`), for longs because growth is a ratio
of two prices and for shorts because a close settles both. Where a short enters at an opening that is false,
and `PolicyEarnsEvidence` excludes it.

**ServicesProofs**, one section for each of six small services and one for the harnesses' output.

- *Analysis cache*, `TypeCorrect`, `OneBuilder`, `NoWakeupIsLost`. The invariant adds that an unlanded flight
  has exactly one builder (`FlightsHaveBuilders`).
- *Sessions*, `OnlyLiveSessions`. The invariant relates each row to what its token was issued and last used
  for, gives an ended token no row (`RowsAreUsed`), and lets a request name only issued tokens and know of
  their end (`RequestsAreTokened`).
- *Supervisor*, `SupervisorLeavesNothing`. What each coroutine waits for tells how its process stands, and
  `main` leaves only when both are through (`SupervisorInv`).
- *Shared prompts*, `WrappersUsable`. No revision may take the holes a wrapper is rendered through
  (`KeepsUse`); only the first meets a database without the wrapper.
- *Settings*, `LastSaveIsWhole`. A save writes only what differs from the rows it read. Rows are locked in
  one order, so those a call holds are still as it read them (`LockedInOrder`) and its commit leaves the
  whole of what it was asked to save.
- *Browser*, `SavesShown`. Between callbacks and within one, every query in use exists, and what it has or
  its live request is about to bring is not from before the last answered save (`Sound`); between callbacks
  there is no garbage, so a new query is really new (`Clean`). What is meant by the last save differs
  (`Since`): for a query in the cache the last one answered, for one that is only shown the last whose answer
  emptied it. No number of overlapping saves, and no size of the cache, is assumed.
- *Output*, `FinalAnswerSubmitted`, for streams of any length. The invariant (`Emits`) relates the stream to
  the root agent, in each format its own way. Muse: the first event starts the root, and exactly one ends it
  once it has ended (`MuseStands`). OpenCode: after every event the decoder's message, reason and texts are
  those of the root agent's message under way, its parts numbered as they were first written (`Follows`);
  one more event of the root moves both alike, one of a subagent neither (`OneMoreDecoded`,
  `OpencodeWrites`).

**Only model-checked.** Liveness (`ExpiredAttemptEnds`, `QueueDrains`, `EndOfRunStopsProcess`,
`EveryAttemptEnds`, `EveryCallEnds`, `CatchesUp`, `EveryCallReturns`, `StopEnds`, `NoPageStaysBlank`) is
out of the prover's reach. `CalendarIsTheExchanges` compares the rules with five published years, which are data
of the instance. Every other property of the passing runs is proved. Induction over boundaries and
events is done by hand in `Induction`, with sets of numbers in place of predicates.

## Findings

1. **A pause may be missed** (`queue_pause`). `enqueue_manual_runs` values managed shorts before it
   locks the settings, which loads their version rows; its test of `evaluation_enabled` under the lock
   sees the loaded value. A pause that commits in between leaves a queued run on a paused version,
   where README.md says that pausing cancels queued work. The next poll cancels it.
2. **A dividend may count twice** (`market_basis`). A history downloaded on an ex-date, of which the
   provider has the distribution but not yet the bar, is already adjusted. The grouped response then
   finds no boundary of the session in the cache and applies the factor again, until the next full
   download.

TLC also finds a counterexample with each of these configurations, which are not among the runs.

| Configuration | Module | What it shows |
|---|---|---|
| `AdministrationAgentEdit.cfg` | `MCAdministration` | `update_agent` cancels the queued runs it read without a lock; a poll may start one in between, and the write makes it *cancelled* under a running worker instead of asking it to stop |
| `AdministrationStale.cfg` | `MCAdministration` | a claim for a managed short renders the prompt its valuation loaded before the lock, so an exchange of prompts may go unnoticed |
| `AdministrationTiming.cfg` | `MCAdministration` | `enqueue_manual_runs` and `update_portfolio` overlap: a run keeps the boundary the portfolio had |
| `AdministrationPrompts.cfg`, `AdministrationProfiles.cfg` | `MCAdministration` | a prompt, or a capability, changes under a portfolio or an agent that relies on what it no longer supports |
| `DecisionsFrozen.cfg` | `MCManualDecisions` | edits test `is_locked` before they validate symbols over the network, so positions may change after the boundary |
| `DecisionsBackdated.cfg` | `MCManualDecisions` | `create_signal` fixes its session before validation, so it may be saved for a session that has locked; `create_allocation` reads the time afterwards |
| `DecisionsMixed.cfg` | `MCManualDecisions` | two overlapping edits of an *allocation*, which take no lock, leave the positions of both |
| `EvaluatorQueueReset.cfg` | `MCEvaluatorQueue` | a poll cancels queued runs with the liquidated shorts it read before its lock, also after a reset has made the portfolio eligible |
| `EvaluatorWorkerDeleted.cfg` | `MCEvaluatorWorker` | deleting a running run frees its slot at once, while its process runs on until the worker's next control poll |
| `MarketRefreshStarved.cfg` | `MCMarketRefresh` | symbols the provider never answers can fill the bounded batch for ever |

Modelling also showed, without a configuration of its own:

- *Administration.* `update_portfolio_config` reads the mode before its lock, so a rebuilt portfolio may get
  a schedule that is not daily (`RebuiltRunsDaily`, with `Weekdays` both).
- *Decisions.* What `DecisionsFrozen.cfg` shows of allocations is true of signals too.
- *Browser.* A query that is shown but is no longer in the cache, evicted by newer ones or taken out by the
  answer to an earlier save, is not emptied by a save (`publicCache.ts` clears only what it holds): with two
  saves under way the page may show, until it loads again, what is older than the second. A save whose answer is lost after its
  commit empties nothing.
- *Market.* A symbol that is silent during a catch-up over several sessions lacks a factor until its next
  full download; a pass that has outlived its session downloads prices with the splits of the new day and
  not its dividends; a cleared cache comes back from a pass that had read it.
- *Analytics.* A signal that lost everything before its horizon is invalid again while a later print of SPY
  is missing. A short that enters at an opening is the one case in which policy and evidence measure the
  reference from different boundaries; `PolicyEarnsEvidence` excludes it.
- *Settings.* A reader under READ COMMITTED may see the minimum of one save and the maximum of another; a
  policy is read at the claim and again at the submission.
- *Prompts.* A wrapper that holds the direction's placeholder twice keeps one after the downgrade of 0020.
- *Calendar.* Closures that are announced rather than scheduled (such as 2025-01-09) are not in the rules,
  nor in the published calendars the model is compared with.
- *Sessions.* An older report of activity may move `last_seen_at` back, and a late answer to a logout clears
  a newer cookie; neither admits anything.
- *Supervisor.* A signal during the start is noticed only when the web becomes healthy or the probes end; an
  evaluator that crashes, or that is killed while it still stops its groups, leaves them behind.

## Not modelled

- HTTP routing and request validation, the MCP server's tools, evaluator heartbeats and the queue's
  read-only listings: they keep no state and decide nothing that the services behind them do not decide
  again.
- Page layout, formatting, and the statistics of a finished series (volatility, turnover, confidence
  intervals): no control depends on them.
- Harness command lines, environments and configuration files: they belong to external programs.
- The identity provider's exchange, API keys, and the network import of the model catalogue: one request
  each, without interleaving.
- Retries, paging and rate limits of the Massive client: a refresh sees only that an answer is complete,
  partial or absent, which is modelled.
- Revisions that only change the schema: they run once before anything else does.

`PROJECT.json` gives the reason for each component.

## Plan

1. The Massive client's retries and rate limit, beside the refresh that waits for them.
