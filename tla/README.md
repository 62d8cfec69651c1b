# AlphaBlock: a TLA+ verification project

AlphaBlock collects futures bars from an exchange, detects order blocks in
them and trades them on paper: orders, fills, positions, trades and a wallet
that live in SQLite and must survive every restart of the process that drives
them.  This directory holds TLA+ models of the parts of it whose correctness
depends on the order of things (writes between which the process may die,
threads that store bars of the same series, timers that race a late minute),
the TLC runs that check them, and theorems that TLAPS checks for every value of
the constants.  Paths below are relative to `src/`.

Contents: [the system](#1-the-system), [the modules](#2-the-modules),
[runs](#3-what-the-runs-check), [bounds](#4-bounds-and-fairness),
[proofs](#5-what-is-proved), [divergences](#6-where-the-code-departs-from-its-documents),
[not modelled](#7-what-is-not-modelled), [plan](#8-plan),
[how to run](#9-running-it).

## 1. The system

`common < config < data < strategy < execution < paper < live < dashboard < cli`;
`backtest/`, `qc/` and `reports/` are offline research.  Three long-lived
processes share SQLite databases and state files:

| process | started by | writes |
|---|---|---|
| collector (`data/collector.py`) | `cli` / service manager | bars, funding, universe, heartbeat |
| paper runner (`live/zone_limit_runner.py`) | `cli` / service manager | order journal, engine snapshots, open positions, trades, signals, sleeve, run state |
| health watch (`live/health_watch.py`) | a timer, once per check | watch state; restarts the collector |

The processes never call one another: the runner reads the bars, rates and
lists the collector stored, the watch reads what both left behind.

### Components, state, operations, interaction

**Paper runner** (`live/zone_limit_runner.py`).  Per cell (symbol, timeframe) a
cursor `_last_substep`, the last bar fed `_last_htf`.  Once a minute
`poll_series` feeds closed bars and replays the minutes since the cursor, each
through `on_substep`, `_handle_events`, `_check_exits` and `_save_state`; then
`expire_overdue`.  At a start: `restore_state`, `_reconcile_with_journal`,
`expire_stale_pending`, `discard_stale_pending`.  *Hard*: seven separate
transactions in a minute, any of which may fail or be the last; outages of any
length; a fill and a stop in one minute.

**Limit engine** (`live/limit_engine.py`, `live/limit_orders.py`).  Per cell
zones, the forming bar and its low, tapped bars, orders in memory.  Called by
the runner, calls back into the journal at each change of an order *before* or
*after* changing memory, depending on the operation.  *Hard*: the two can
disagree when the write raises.

**Order journal** (`live/order_journal.py`): one row per order with `status` and
`entry_status`.  *Correct* when an order is placed once, resolved once and only
a fill is judged, once.

**Engine snapshots** (`live/engine_state.py`): a row per cell, rewritten after
each minute, with a memory of what was last written that skips a write of what
is already there.  *Correct* when a skipped write would have changed nothing.

**Executor, ledger, open positions, wallet** (`live/executor.py`,
`paper/store.py`, `execution/`): entering opens a position in memory and writes
its row; exiting settles it in memory, writes the trade, removes the row.  At a
start the book comes from the rows and the wallet from the ledger's sum.

**Cells together** (`live/arm_rules.py`, `live/arm_signals.py`,
`data/universe_pool.py`, `execution/`).  The weekly list decides which
cells are watched and which fills may enter; the crowding rule counts the
signals of all cells in the hours before a fill; one wallet caps the notional of
a trade and of everything open.  *Hard*: cells replay one after another with the
times of the data, so one may judge a fill before another has recorded its
earlier signals; a list is saved some time after its week has begun; a cell
leaves the list while it holds something.

**Trend sleeve** (`live/tsmom_runner.py`, `paper/tsmom_ledger.py`): within the
runner's poll, one settlement per asset once its daily bar has closed, with the
funding of every day since the last one, and then one mark of the equity curve.
*Correct* when each day and each settlement of funding counts exactly once.

**Collector** (`data/collector.py`, `backfill.py`, `rest_poll.py`, `stream.py`,
`watchdog.py`, `gaps.py`, `repair.py`, `collection_plan.py`).  A start backfills
the fixed grid from its latest bars, repairs the gaps of a recent window, then
connects.  Each connection takes a snapshot of the latest bars and schedules a
catch-up thread from it (`TailCatchup`); a poller asks every minute for the bars
behind the latest stored one (`ClosedBarPoller`); a change of the list fills the
new series beside all that, adopts the new plan and connects anew
(`PlanTransition`).  *Correct* when no closed bar is forgotten.  *Hard*: stream,
catch-up, poller and fill store concurrently, and every one of them looks only
at the *latest* bar, so a hole below it is invisible to all until the next
start.

**Health watch** (`live/health_watch.py`): alerts with a cooldown, recovery
messages, failed deliveries undone, a capped restart of the collector; state in
one JSON file, saved after the restart and the messages.

**Pure parts**: zone detection and indicators (`strategy/`), sizing
(`execution/`), derived bars and gaps (`data/`).  **Read-only parts**: dashboard,
digests, integrity reports, Telegram commands.

## 2. The modules

| module | models | role |
|---|---|---|
| `OrderLifecycle` | what the order journal promises of an order | abstract specification |
| `PaperRunner` | one cell of the paper runner, write by write | detailed specification |
| `PaperRunner_proofs` | type correctness, the refinement, the memory of snapshots | TLAPS |
| `PaperRunnerOrders_proofs` | resting orders: no row forgotten, ages, deadlines, what a stop leaves | TLAPS |
| `PaperRunnerMoney_proofs` | position and money: book and store, fills and trades, wallet and ledger | TLAPS |
| `SharedBook` | several cells: list, crowding, wallet, polls and restarts | composition |
| `SharedBook_proofs` | types, entries listed, open cells watched, the cap, the whole crowd, minutes judged once | TLAPS |
| `TrendSleeve` | settlements, funding and marks of the daily sleeve | detailed specification |
| `TrendSleeve_proofs` | type correctness, tiling, funding once, wallet, curve | TLAPS |
| `AlertChannel` | what the phone may be told | abstract specification |
| `HealthWatch` | a check: load, restart, messages, save | detailed specification |
| `HealthWatch_proofs` | type correctness, file and phone, the refinement, restarts capped, outages answered | TLAPS |
| `BarCollector` | the collector's bars: start, stream, catch-up, poller, plan changes | detailed specification |
| `BarCollector_proofs` | type correctness, no hole is forgotten, the poller makes none | TLAPS |
| `NumberFacts` | least and greatest of a set of naturals, units of time, sums over finite sets | TLAPS, shared by the proofs |
| `MCPaperRunner`, `MCSharedBook`, `MCTrendSleeve`, `MCBarCollector` | values of constants | model checking |

### PaperRunner

State and code:

| variable | code |
|---|---|
| `journal`, `nextRow` | `live_limit_orders` and its autoincrement id |
| `snap`, `written` | the cell's row of `live_engine_state`; `EngineStateStore`'s memory of what it last wrote |
| `openPos`, `trades` | `open_positions`, `paper_trades` |
| `eng` | the engine's `_SeriesState` (forming bar, its low, last minute, last window, tapped bars, orders) |
| `cursor`, `minute` | `_last_substep`; the minute bar in `poll_series`' loop |
| `book`, `equity` | the execution engine's position of the cell; the wallet |
| `visit`, `fills`, `closing`, `pc` | where the synchronous code stands: what a loop has yet to visit, the fills the handlers have yet to take, the position being closed |
| `now`, `tape`, `past` | the wall clock; the minute bars stored so far, and what the forgotten ones did to the zones |

One action per write.  A minute is the sequence
`BeginMinute; EndFeed (CancelInvalidated ...); CommitOrder ...; EndCommit;
ArmZone ...; EndArm; KeepOrder | FillOrder | EndOrder ...; EndPrice;
TakeFill; Judge; RecordOpen; RecordEntryResult ...; CheckExits; PersistTrade;
RemoveOpen; SaveState`, a poll ends with `BeginTail`, `ExpireOverdue` and
`EndPoll`.  Every write takes `ok`: with `ok = FALSE` it raises, and `Abort` is
the `except` of `poll_once` (the minute is given up, the save at the end of the
poll still happens).  When more than one bar lies between a minute and the one
consumed before it (`Skipped`), `DiscardOrder` takes the place of `CommitOrder`:
the engine gives its orders up (`limit_engine.py:334`), first in the journal, row
by row, then all at once in memory (`EndCommit`).  Only a failing write leads
there, because minutes come without holes: the first minute of a cell raises
after its prices were judged, the runner keeps no cursor, and the next minute
comes more than a bar later.  `_handle_fill`'s `finally` is `Fallback`.  `Crash` may come
between any two steps and leaves `durable`; `Boot`, `ExpireStale` and
`DiscardStale` are the start.

A trade is worth one unit, so `equity = Cardinality(trades)` says that the
wallet is the ledger's sum.  A minute is the lowest level it reaches; only longs
exist in this arm.  What decides a fill at the limit (band, exit rule) and an
entry (rotation, %K, stop floor, crowding, sizing) is a free verdict, so the
properties hold for every decision these may make.

`ImplementsOrderLifecycle` maps each row to `OrderLifecycle!life` and states that
every step of the runner is a step of the journal's life or a stutter.

### SharedBook

What `PaperRunner` leaves free, over several cells.  Writes that no other cell
can tell apart are one action; the order of a fill's writes is kept because
others see them: journal (`FillOrder`), signal (`RecordSignal`), the stop of the
position before it (`StopFirst`), the verdict with entry and size (`JudgeFill`).

| variable | code |
|---|---|
| `lists` | `universe_rotations`: the weeks saved so far |
| `watched`, `next`, `kept` | `self.series`; cursor and order in a cell's snapshot |
| `pending`, `held`, `wallet` | pending rows of the journal; the engine's open position of a cell; its equity |
| `signals` | `arm_signals` |
| `verdicts` | history: for each fill judged, what `crowd_decision` counted and which cells were behind |
| `pc`, `todo`, `at`, `reach`, `zone` | the poll: place, cells to visit, minute, end of what was loaded, zone filled |

`SyncSeries` is `sync_series` at the start of a poll and of the process,
`Desired` is `desired_series`, `ListAt` is `UniverseStore.at`.  `Size` is
`resolve_book_sizing` followed by `size_with_reason`, in units of the wallet.
`BeginCell` may load fewer minutes than have closed, since the collector may be
late.

### TrendSleeve

| variable | code |
|---|---|
| `bars`, `predicted`, `confirmed` | the daily bars and the funding rows another process stores |
| `ledger`, `marks`, `wallet` | `tsmom_rebalances`, `paper_equity_marks`, the engine's equity |
| `turn`, `unpaid`, `done` | the loop over the assets: its place, the row not yet in the wallet, the days written |

A tick is `BeginTick; (HoldOn | Rebalance; ApplyExternalPnl) ...; EndTick`.  A row
names the interval it settles and the funding rows it charges instead of their
money, and the wallet counts rows, so both properties "once" can be read off.

### HealthWatch

| variable | code |
|---|---|
| `condition` | what the health view shows of each series |
| `file` | the state file: ages of the open alerts, recent restarts |
| `previous`, `next` | the loaded state; the one `reconcile` returned |
| `todo`, `undelivered` | messages yet to send; those the sender reported as failed |
| `phone`, `signals` | the environment: what the phone was told and how long ago; the restarts sent |

`CheckQuietly`, `CheckHelpless` and `CheckRestarts` are `check_once` up to its
first message, by the outcome of `_collector_backstop`; `Notify` sends one
message, `Save` applies `apply_delivery_failures` and writes the file, `Crash`
ends the check before that.  `ImplementsAlertChannel` maps the phone to
`AlertChannel`.

### BarCollector

| variable | code |
|---|---|
| `now` | bars that have closed (the market) |
| `stored` | the rows of `ohlcv`, per series |
| `listed`, `plan`, `filling` | what is listed or held; the plan collected; `PlanTransition`'s fill task |
| `phase` | how far `run_collector` has come |
| `conn`, `wire` | the sockets: off, open but unread, consumed; their unread closed-bar events |
| `task`, `pending` | the snapshot of the running `TailCatchup._run_once`, and `TailCatchup._pending` |
| `todo`, `fetch` | the loops of `backfill_all` / `backfill_pairs` / `repair_all`, and the page loop of `backfill_symbol` |
| `completed` | `TailCatchup._completed > 0` |
| `request` | the poller's `backfill_symbol` |
| `lost` | history: series that were outside the plan with a hole |

`Schedule` is `on_connect`: one atomic step of the event loop, after all sockets
are open and before anything is read from them.  `FetchPage` writes one page;
pages interleave with `Deliver`, `PollSeries`, `PollFetch` and `FillSeries`.
`FetchFails` is the three catchers of a request that raises: none in the start
(the process ends), the whole run in the grid's part, one series in the arm's.
`Rotate` changes the list, `BeginFill`, `FillSeries` and `Adopt` are
`PlanTransition`: the fill goes on through the end of a connection, `Adopt`
replaces the plan, takes the running catch-up's arm part along (`OfPlan`) and
leaves the connection; `FillFails` is a fill that raises as a whole.  `Drop`
empties the sockets; `Crash` ends the process (host, operator, watchdog).

Abstractions: bars are numbered and all series have the same length; a new
series is filled from its latest stored bar or from the beginning of the model's
history; the repair of a series, the fill of a new series and a poll request are
one write each (with failures: an initial part of it).  A frozen stream needs no
action: nothing obliges `Deliver` to happen.  A poll round is one visit per
series; the plan and `hold_long_gaps` are read at the visit although the code
reads them once per round, which only lets an old round act as the next one
will.

## 3. What the runs check

| run | properties | shows |
|---|---|---|
| `PaperRunnerRestart` | `TypeOK` `StopIsInvisible` `BookMatchesStore` `ElapsedCountsBars` `RejectedHoldsNothing` `ImplementsOrderLifecycle` `ExpiryIsNotEarly` `LastMinuteIsJudged` `FillsAreTimely` | a crash anywhere: the next start rebuilds what the dead process held, orders keep their deadlines, the journal its promise |
| `PaperRunnerPair` | `WalletIsLedger` `PendingRowsAreTracked` `HoldIsBounded` `FillsAreJudged` | two zones: stop before entry in one minute, exits on time, wallet = ledger; two failing writes: no row is forgotten, also where the engine gives its orders up |
| `PaperRunnerFaults` | `PendingRowsAreTracked` `StoreIsCurrent` `OrdersAreResolved` `PositionsAreClosed` | a crash *and* a failing write anywhere: nothing stays pending, nothing stays open, no needed write is skipped |
| `SharedBook` | `TypeOK` `EntriesAreListed` `OpenCellsAreWatched` `CrowdIsComplete` `NotionalIsCapped` | cells, list, crowding and wallet through rotations, replays and a crash |
| `TrendSleeve` | `TypeOK` `WalletIsLedger` `DaysAreSettledOnce` `FundingIsChargedOnce` `SettlementsReachTheCurve` `EveryDayIsSettled` | late bars, missed days, failing ticks and deaths: each day and each funding settlement counts once |
| `HealthWatch` | `TypeOK` `PhoneIsRecorded` `RestartsAreCapped` `ImplementsAlertChannel` `StandingIsFresh` `StandingIsTold` `OverIsClosed` `OutageIsAnswered` | undelivered messages, refused restarts, unreadable files and cut-short checks |
| `BarCollectorGrid` | `PollerLeavesNoHole` `EveryBarIsStored` | two reconnections, a crash, late and frozen streams: no bar is forgotten and all arrive |
| `BarCollectorArm` | `TypeOK` `HolesAreAwaited` | grid and arm: their order, stale tails, changes of the plan, failures of any part |
| `PaperRunnerDouble`, `PaperRunnerFlash`, `SharedBookReplay`, `BarCollectorRetry` | one each | the divergences of section 6 |

What the deeper ones say:

* `StopIsInvisible`: at every moment between polls, what `restore_state` would
  rebuild from the stored snapshot and the journal *is* the state in memory.
  The snapshot's forming-bar low, tapped bars and elapsed counts all matter.
* `StoreIsCurrent`: whatever failed before, when a save is skipped because
  nothing changed, the row in the database holds what is to be saved.
* `ElapsedCountsBars`: deadlines are kept twice, by counting bar boundaries in
  the engine and by the wall clock; the two agree through any replay.
* `LastMinuteIsJudged`: a zone broken in a bar takes its order away only after
  that bar's own minutes have been judged.
* `CrowdIsComplete`: a verdict counted every signal of its window, unless some
  cell had minutes of that window yet to replay.
* `NotionalIsCapped`: the sizing gives `size_with_reason` a made-up open
  notional; that this makes the *sum* over cells respect the cap is not visible
  at either place.
* `FundingIsChargedOnce`: two half-open windows meet at midnight, the rate of a
  settlement is stored first as predicted and later as confirmed, and a window
  may span missed days; a settlement over which something was held is charged
  once.
* `PhoneIsRecorded`: `apply_delivery_failures` undoes exactly what was not
  delivered, for alerts and for closing messages.
* `HolesAreAwaited`: for each missing bar below a stored one there is someone who
  will still store it: the running or the pending catch-up, the poller's
  request, or the repair of the start; also for a series that has just entered
  the plan.
* `PollerLeavesNoHole`: whatever was stored during the poller's request, its
  write opens no hole, i.e. the hold on long gaps is enough.

`HolesAreAwaited`, `PollerLeavesNoHole` and `EveryBarIsStored` are about
histories without a failing request (`failures = 0`); the runs still take failing
steps, which `TypeOK` covers, and section 6 says what goes wrong after one.
`PhoneIsRecorded` and `OverIsClosed` are about histories without a cut-short
check (`lapses = 0`), for the same reason; after a lapse `OverIsClosed` asks
nothing any more, not even of issues that begin later.  `WalletIsLedger`,
`HoldIsBounded` and `FillsAreJudged` of the runner are about histories without a
failing write (`failures = 0`); of the runs with failing writes, only
`PendingRowsAreTracked`, `StoreIsCurrent` and the two liveness properties say
something after one.

Each property of a passing run has a mutant of the code (a dropped guard, an
off-by-one, a reset forgotten) under which TLC finds it violated; the mutants
are definitions next to the ones they replace.

## 4. Bounds and fairness

**PaperRunner.** `BarMinutes = 2`: a bar has a first and a last minute, the two
that behave differently.  `LimitValidBars` 1 or 2 and `HoldBars` 1 or 2: a
deadline within and beyond the next boundary.  `MaxMinute` 4 to 7: two bars or
more, so that an order is placed, waits, expires, and its zone is broken, with
a replay of several minutes after a crash; `CatchupMax` 3 or 4 lies below the
longest outage the clock allows, so both a replayed and an abandoned outage
occur.  `PaperRunnerPair` has six minutes and two failing writes: one in a
first minute and one while the orders are discarded a whole bar later.  `MaxNow > MaxMinute` lets the market fall silent while the clock goes on.
Price levels: above the limit, through it, and below bottom and stop; for two
zones the lower limit lies on the upper stop, so one minute may stop and fill.
`MaxRows = 3` is more orders than these zones can place.  One crash suffices
for the restart's own invariants because they are stated after each start, and
the theorems remove the bound.

**SharedBook.** Two cells and one zone, bars of two minutes in weeks of three, so
that a week ends within a bar; `HoldBars = 1`; `CatchupMax = 3` of
`LastMinute = 4`, so that a restart may or may not replay; a crowding window of
two minutes which skips at exactly one signal; `TradeCap = 2`, `BookCap = 3`, so
that the second entry is cut or refused; an exit may earn or lose.  One crash.
The bounds force a second entry, a list saved late or not at all, and a cell
that leaves while it holds a position (2.9 million states).

**TrendSleeve.** Two assets, one of them with funding; targets of zero or not
zero; three days; two faults, each a raising tick or a death.
`CHECK_DEADLOCK FALSE`: the calendar ends.

**HealthWatch.** One series of the base grid, one other; `Cooldown` and
`RestartCooldown` 2, `Day = 5`, `MaxPerDay = 2`: cooldown, cap and the return of
the right to restart all occur.  Time is unbounded, as ages stop being counted.
One failure (delivery or restart) and one lapse (cut-short check or unreadable
file).

**BarCollector.** `PollDepth = 2` (the code: 500): a gap of one bar, which the
poller may lose to the stream in a race, one of two, which is within its reach,
and one of three, beyond it.  (With 1 the pace assumption below would let the
poller always win the race.)  `MaxBar` 5 or 4.  `PageBars = 1` makes a fetch of
several bars take several writes; `BarCollectorArm` takes 2.  The grid has two
ends of a connection: a third connection finds a pending snapshot to merge with.
The arm has two changes of the list: a series leaves and comes back.
`MaxEvents` bounds drops, changes, crashes and failures together: 2 in the arm,
4 in the grid.  One arm series alone (`Base <- NoSeries`) was also checked with
drops and changes and `MaxEvents` up to 5.  `RepairWindow = 4` covers the longest
catch-up in these bounds, as 7 days do in practice (the other case: section 6),
except for the weekly series: the last closed weekly bar opened seven days ago or
more, so that none of their holes lies inside the repair's window.  A bound of
`MaxBar <= RepairWindow` therefore excludes weekly bars.
`Punctual` states the pace assumed: a fetch of one series, and the poll rounds
of a gap within reach, take less time than `PollDepth` bars (500 minutes for
1m).  `CHECK_DEADLOCK FALSE`: when all bars have closed and are stored nothing is
left to do.

**Fairness.** `PaperRunner`: `WF(Poll)` (the process runs), `WF(Start)` (a
supervisor starts it again), `SF(Tick)` (the runner sleeps between polls, so the
clock advances however often a poll is enabled).  None for `Crash`, for failures
or for the choice of a price.  `TrendSleeve`: `WF(Tick)`, the runner polls for
ever.  `HealthWatch`: `WF(Watch)` (the timer starts it again and again, and a
check goes on) and `SF(Tick)` (time passes between checks).  `BarCollector`:
`WF(Boot)`, `WF(Connect)` (`run_with_recovery` reconnects for ever),
`WF(Schedule)`, `WF(CatchUp)`, `WF(ChangePlan)` (`_wait_plan_change` looks again
and again), `WF(Poll)`, and `SF(PollSeries(s))` since a round is a loop over all
series, which reaches each one although another's request disables it for a
while.  None for `Tick`, `Deliver`, `Rotate`, `Drop` or `Crash`: a connection may
stay open and silent.  `SharedBook` states no liveness.

## 5. What is proved

For every value of the constants that satisfies the named assumptions of the
modules.  These say that bounds are naturals, that lengths which divide or delay
are positive, that sets of keys, zones and series are finite, and in
`WatchAssumption` that the restart's cooldown is no longer than a day.  Every
safety property of a passing run is stated by a theorem.  Where a theorem has a
condition it is the run's own, or weaker, and TLC finds the property violated
without it (section 6); the one exception known is `NoFillIsBookedTwice`, which
may not need that no write raises.

**`PaperRunner_proofs`** (`ZonesAssumption`, `TimeAssumption`,
`VerdictsAssumption`):

* `TypeCorrect == Spec => []TypeOK`, under any number of crashes and failing
  writes.  `TypeOK` is not inductive: a step that reads `tape[minute]` keeps the
  types only if the minute is on the tape, and `equity` restored as the size of
  the ledger only if the ledger is finite.  `TypeInv` adds these and where
  `minute` may be `None`.
* `LifecycleImplemented`: if no write may fail (`MaxFailures = 0`), then
  `Spec => ImplementsOrderLifecycle`, however often the process dies.  The
  inductive invariant `FaultlessInv` relates memory to the journal:
  rows are allotted in order; a pending order in memory has a pending row
  unless it is a fill being handled; what a loop has yet to visit is in the
  engine; a fill not yet judged is filled in the journal; the orders of the
  snapshot have rows, so a restored order is pending exactly when its row is.
  Its part `TimesAgree` says that the runner's cursor and the engine's clock tell
  the same time, in memory and in the snapshot; a minute then follows the one
  before it, so no bar is skipped and no order discarded
  (`NothingIsDiscarded`).
  Each conjunct is what one of the write sites needs to be a legal step of
  `OrderLifecycle`: without the part on fills, for example, a second verdict of
  a row could not be excluded.
* `SavedStateIsCurrent == Spec => []StoreIsCurrent`, with crashes and failing
  writes: `MemoryInv` says that the memory of what was written is empty or equals
  the row.

**`PaperRunnerOrders_proofs`**:

* `NoRowIsForgotten == Spec => []PendingRowsAreTracked`, with crashes and failing
  writes anywhere.  `TrackInv` follows a pending row through the steps in which
  the engine does *not* hold it: in the list of a loop that has still to visit
  it, in the snapshot of a dead process, among the rows a start has still to
  expire or discard, and among the orders the engine is giving up over a skipped
  bar.  It needs `MarketInv`, that the engine never looks beyond
  what has closed, because a zone that is gone in the window must still be gone
  when the same window is read again (`GoneIsSettled`).
* With `MaxFailures = 0` and any number of crashes: `AgeIsCountedInBars`
  (`ElapsedCountsBars`), `NoLateFill` (`FillsAreTimely`), `NoEarlyExpiry`
  (`ExpiryIsNotEarly`) and `StopLosesNothing` (`StopIsInvisible`).  `ClockInv`
  says of every order, in memory *and* in the snapshot, that its count of bars is
  the forming bar less the bar of its placing; a restart goes back to a snapshot
  and replays, so the count in memory alone is not inductive.  `StopIsInvisible`
  then follows, as the rows' status decides what `restore_state` keeps
  (`FaultlessInv`), and dropped orders have ended rows (`DroppedHasEnded`).
* With `MinutesLag = FALSE` as well, `LastMinuteCounts` (`LastMinuteIsJudged`):
  `TapeInv` says that nothing that has closed is missing behind a cursor, in
  memory or stored, so the tail is fed after the bar's own minutes.

**`PaperRunnerMoney_proofs`**:

* With `MaxFailures = 0` and any number of crashes: `BookIsStored`
  (`BookMatchesStore`) and `NothingRejectedIsHeld` (`RejectedHoldsNothing`).
  `BookInv` names the few places between two writes at which the engine's book
  and `open_positions` differ.  `HeldInv` says that what is held was filled and
  that nobody still holds it as a fill to be refused, which is why `Fallback`'s
  `rejected` can only meet a row that opened nothing.
* Within one life of the process (`MaxCrashes = 0` as well, as a crash breaks each
  of them): `EveryFillIsJudged` (`FillsAreJudged`), `NoFillIsBookedTwice`
  (`OneTradePerFill`), `HoldEndsInTime` (`HoldIsBounded`, for `HoldBars > 0`; the
  arm has 4, `live/arm_rules.py:70`) and `WalletPartsOnlyByTheKey ==
  Spec /\ KeyNamesATrade => []WalletIsLedger`: while no trade replaces another
  under the ledger's key, the wallet is the ledger's sum, so the key is the only
  way for the two to part in one life.

**`SharedBook_proofs`** (`BookAssumption`), under any number of cells, zones, weeks
and crashes:

* `EntriesStayListed` and `OpenCellsStayWatched`, proved together with `Shape`
  (the cell being visited exists and is watched): a fill is judged for `Cell`, so
  its being in the list of its week needs that saved lists never change.
* `TypeCorrect` and `BookStaysCapped == Spec => NotionalIsCapped`.  The open
  notional is a sum over cells; that an entry adds its own size to the sum of
  the others (`SumMoves`) is where the made-up open notional of
  `resolve_book_sizing` meets the cap.
* `CrowdStaysComplete` and `NoMinuteIsJudgedTwice` (`MinutesAreJudgedOnce`), if a
  bar is no longer than a week and than what a start replays:
  `BarMinutes <= WeekMinutes`, `BarMinutes - 1 <= CatchupMax`.  The code's replay
  is 48 hours by default (`zone_limit_runner.py:133`), longer than its bars but
  for the weekly ones, where `SharedBookReplay` shows the second to fail.  `PlaceInv`
  says for every verdict where each cell may still go: not below the fill
  itself if it was on the list of that week, else not below the beginning of the
  week, unless the runner has dropped it (`Left`), and then only a later week's
  list brings it back.  The first minute a new cell is judged on is the first of
  its forming bar, which the conditions keep above that floor.

**`TrendSleeve_proofs`** (`SleeveAssumption`): `TypeCorrect`, `NoLookAhead`
(`SettledAtTheClose`: a row is of a day whose bar is final), `WalletFollowsLedger`,
`RowsTileTheDays`, `FundingChargedOnce` and `SettlementsAreMarked`
(`SettlementsReachTheCurve`).  `SleeveInv` states that each asset
with rows has a last one and that rows are of closed days, `Paid` that a row in
the ledger and not in the wallet is the one under way.  For the tiling a new row begins where
the last one ends; `Covered` adds that the days between the first and the last
row are all settled and `ChargeInv` that a row's funding is what its window
selects; a settlement then lies in at most one window, which has at most one row
of it.  `CurveInv` follows a row to the curve: it is in a mark, or a day of this
tick, whose mark is still to come, or the one about to be paid.

**`HealthWatch_proofs`** (`WatchAssumption`):

* `TypeCorrect`, `FileFollowsPhone`
  (`PhoneIsRecorded`), `ChannelImplemented` (`ImplementsAlertChannel`) and
  `StandingStaysFresh` (`StandingIsFresh`, for a cooldown above zero).  `WatchInv`
  carries through a check, message by message, that the phone still holds the
  loaded state where a message waits, and the new one, or the old one after a
  failure, where it does not (`SendInv`).
* `RestartsStayCapped` (`RestartsAreCapped`).  Cap and cooldown are one argument,
  with windows of `Day` and `RestartCooldown`: `Window` says that for *every*
  age the restarts sent since then are at most those the watch knows
  of plus a full window for each lapse.  For one age alone it is not inductive,
  as restarts grow older and leave the window together with what is known of them.
* `OutageStaysAnswered` (`OutageIsAnswered`, for a cooldown above zero): every
  restart that is remembered was really sent, so a check that holds back because
  of one has one to show.

**`BarCollector_proofs`** (`SeriesAssumption`, `BoundsAssumption`):

* `TypeCorrect`, under any faults.
* `PollerMakesNoHole == Spec => PollerLeavesNoHole`, assuming `Punctual`.
  `PollInv` has, while no request has failed, two parts.  `Behind`: every
  snapshot, fetch and request begins no later than after the latest stored bar.
  `Keeping`: the poller can reach each series of the plan in one request once a
  catch-up has had its turn with it or the fill has; this is what
  `hold_long_gaps` and filling before adopting are for.  `Punctual` is used in
  `Tick` alone.
* `HolesStayAwaited == Spec => []HolesAreAwaited`, assuming also
  `MaxBar <= RepairWindow`: the repair of a start sees every hole (seven days in
  the code, see section 6 for a shorter one; it does not hold of weekly series,
  see section 4).  The inductive form `CoreInv` adds
  `Whole`.  `HolesAreAwaited` alone is not inductive: the stream makes a hole when
  it stores the first bar it receives, so what a connection *missed* must be
  awaited before it is a hole.  `Due` is the holes and, on a live
  connection, the bars that are neither stored nor still in its socket.  Then
  `Schedule` is the only step that makes something due, and it begins with a
  snapshot that covers it; every other step only stores (`FillsOnly`: bars
  that join the latest one make no hole), and hands what is due from one to the
  next: backfill to repair, snapshot to fetch, page to page, pending to running.

**`NumberFacts`**: the least and the greatest of a set, the unit of time a minute
falls in, and sums.  `SumExists` says that a sum over a finite set may be taken
apart element by element, `SumType`, `SumRemoves`, `SumAgrees` and `SumMoves` what
follows.  The library's induction theorems take an operator, which the provers
cannot instantiate, so these argue by a least counterexample
(`WellFoundedInduction`).

Only model-checked: liveness (`OrdersAreResolved`, `PositionsAreClosed`,
`EveryDayIsSettled`, `StandingIsTold`, `OverIsClosed`, `EveryBarIsStored`), which
is out of the prover's reach.  No module declares a `RECURSIVE` operator.

## 6. Where the code departs from its documents

Each has a violation run; a reader can replay the trace with
`tlc -config <run>.cfg <module>.tla`.

1. **`PaperRunnerDouble`** (`paper/store.py:4`): a crash between the trade's write
   and the removal of the open position books the fill twice, under two exit
   times, when the outage is too long to be replayed.
2. **`PaperRunnerFlash`** (`paper/store.py:157`): two positions opened and closed in
   the same minute share the ledger's key, and the first trade is replaced.
3. **`SharedBookReplay`** (`zone_limit_runner.py:262`): a cell without a cursor
   begins with the first minute of the forming bar.  After an outage beyond the
   catch-up limit within one (weekly) bar its snapshot is gone, and minutes that
   were judged before are judged again.  Where the limit
   is no shorter than a bar, `MinutesAreJudgedOnce` is proved to hold
   (`NoMinuteIsJudgedTwice`).
4. **`BarCollectorRetry`** (`collector.py:192`): a failed catch-up is said to be
   tried again at the next connection; that connection's snapshot begins behind
   the hole the stream has meanwhile closed over.

More appear when a constant or the property of a run is changed.

*Paper runner*

* `PaperRunnerRestart` with `MaxMinute = 4`, `MaxNow = 6` and `FillsAreJudged`
  (`zone_limit_runner.py:1069`): a crash between `record_filled` and
  `record_entry_result` leaves a fill that no start judges.
* `PaperRunnerRestart` with `MaxMinute = 4`, `MaxNow = 6`, `MaxCrashes = 0`,
  `MaxFailures = 1` and `RejectedHoldsNothing` (`zone_limit_runner.py:729`): a
  failing `record_open` makes the `finally` write `rejected` for a position that
  is held.
* `PaperRunnerPair` with `MaxCrashes = 1`, `MaxFailures = 0` and `MaxRows = 4` (a
  restart places orders again): `WalletIsLedger` fails (a crash between `persist`
  and `remove_open_position`; the restored position is exited twice), as do
  `HoldIsBounded` and `OneTradePerFill`.
* `PaperRunnerRestart` with `MaxFailures = 1`: `StopIsInvisible` fails (the save at
  the end of a poll stores the engine's cursor ahead of the runner's), and
  `ExpiryIsNotEarly` fails (an order whose write failed is visited twice).
* `PaperRunnerPair` with `FillsAreTimely` (`zone_limit_runner.py:262`): in a cell's very first minute the row of the
  second order raises.  The cursor and the engine's last minute stay empty and
  the first order stays in memory; the bars that follow begin as if they were
  the first, so that its age is not counted, and it fills after its deadline.
* Of the same kind, an aborted minute leaving memory and store apart, with
  `MaxFailures = 1`: `ElapsedCountsBars`, `BookMatchesStore` and
  `LastMinuteIsJudged` (`PaperRunnerRestart`), and `HoldIsBounded`,
  `FillsAreJudged` and `WalletIsLedger` without their `failures = 0`
  (`PaperRunnerPair`).
* `PaperRunnerRestart` with `MinutesLag = TRUE`: `LastMinuteIsJudged` fails (a bar
  stored before its last minute is fed by the tail feed).
* `PaperRunnerPair` with `MaxFailures = 1`, `MaxMinute = 5`, `MaxNow = 9` and the
  property `ImplementsOrderLifecycle`: `expire_overdue` overwrites a fill, since
  `record_cancelled` has no guard on the old status.

*Cells together*

* `SharedBook` with `CrowdIsAlwaysComplete`: cells are replayed one after another,
  so a fill is judged before the earlier signals of a cell later in the poll.
  `live/arm_gate.py:11` says so of a replay cell by cell, collects the signals in
  a first pass and takes that complete table for the one the live runner sees
  (line 13), and `live/engine_state.py:8` wants a runner that decides as if it
  had never stopped; after an outage the runner itself replays cell by cell.  A crash between `record_filled` and the
  signal's record loses that signal for good.

*Trend sleeve* (holds of every day, but the curve is thinner than its comment)

* `tsmom_runner.py:16` says both assets are settled before the mark; when one
  asset's bar is late the mark of the day is written after the other alone, and
  the late asset's tick overwrites it.
* A tick that raises, or a death, between the last row and the mark leaves the
  day without a mark of its own (hence `faults = 0` in
  `SettlementsReachTheCurve`).
* A settlement without a predicted row whose confirmed row arrives after its
  window was settled is never charged (hence `s \in predicted[a]` in
  `FundingIsChargedOnce`).

*Health watch*

* `OverIsClosed` without `lapses > 0`: a check cut short after an alert was sent
  and before the save leaves an alert that is never closed.  `StandingIsFresh`
  without `lapses' = 0` fails in the mirrored case.
* The alert that a restart is impossible is closed as recovered when only the
  cooldown keeps the watch from trying, with the base grid still empty.
* A crash between the signal and the save forgets that restart, an unreadable
  file forgets all (hence the factor in `RestartsAreCapped`).

*Collector*

* `BarCollectorGrid` with `Punctual = FALSE`: `PollerLeavesNoHole` fails.  After the
  first catch-up nothing holds the poller back, so after an outage longer than
  `max_bars` inside a running process it jumps.
* `BarCollectorArm` with `PollerLeavesNoHole` without its `failures = 0`
  (`collection_plan.py:296`): a failing arm series is swallowed and the catch-up
  counts as completed, so nothing holds the poller back and it jumps over the
  rest of that series' history.
* `BarCollectorGrid` with `RepairWindow = 1`: holes are forgotten (a crash during a
  catch-up; the restart looks for gaps in its window only).
* `BarCollectorArm` with `HolesAreAwaited` over all series instead of
  `Series \ lost`: a series that leaves the plan while the catch-up is still at
  the grid keeps the hole the stream has closed over, and when it comes back the
  fill starts at its latest bar.
* `BarCollectorArm` with `HolesAreAwaited` also after a failed fill: the plan is
  adopted although a new series was not filled (`collector.py:460`), and the
  poller jumps over the gap before the new connection's snapshot is taken.

## 7. What is not modelled

* *Of the runner*: windows with holes (`_note_gap_skip`), zones that leave the
  detection window or are found late; the daily breaker, which
  `engine_settings_for` switches off whenever the arm or the sleeve runs; how
  members are ranked; what is written for dashboards only.
* *Of `SharedBook`*: writes that raise, several orders of a cell, and the write by
  write order inside an exit: these are `PaperRunner`'s.
* *Of the sleeve*: the weights of a target, costs, the memory of which failure was
  told.
* *Of the health watch*: how the health view judges a series; the wording.
* *Of the collector*: extension of the history backwards, derived timeframes,
  funding and universe tasks, the watchdogs' timing (they are a crash at any
  time).
* *Detection and indicators*: numerical functions of a window, covered by the
  repository's parity tests; nothing here depends on their values.
* *Telegram commands* only read, and a lost or repeated one changes nothing.
* *Dashboards, digests, reports, messages, configuration, command line,
  backtests*: no state of their own, or no part of the running system.  The
  research under `backtest/` is by far the largest part of the repository; it is
  offline computation over stored bars.

`PROJECT.json` lists each component with its status, and the hazards of the code
with the properties that cover them or the reason why none does.

## 8. Plan

Done: `PaperRunner` with `OrderLifecycle`, `BarCollector` with plan changes,
`HealthWatch` with `AlertChannel`, `TrendSleeve`, the write memory of the engine
snapshots (in `PaperRunner`), `SharedBook`, and their theorems.

Every safety property of a passing run is a theorem, some of them under a
condition (section 5).  Left, in this order:

1. `PaperRunner` with failing writes: which of the theorems that assume
   `MaxFailures = 0` hold for the part of a history before its first failure
   (`failures = 0 => ...`), as the collector's do, and
   `NoFillIsBookedTwice` with failing writes, where TLC finds no counterexample.
2. Series of different lengths in `BarCollector`, for derived bars and their holes.
3. Zones that enter and leave the detection window, in `PaperRunner`.

## 9. Running it

    tlc -workers 2 -config PaperRunnerRestart.cfg MCPaperRunner.tla
    tlc -workers 2 -config SharedBook.cfg         MCSharedBook.tla
    tlc -workers 2 -config TrendSleeve.cfg        MCTrendSleeve.tla
    tlc -workers 2 -config HealthWatch.cfg        HealthWatch.tla
    tlc -workers 2 -config BarCollectorArm.cfg    MCBarCollector.tla
    tlapm PaperRunner_proofs.tla

`MC*` modules are named after the module they instantiate, configurations after
the run.  Passing runs take between a few seconds and two minutes.  The proofs
have

| module | obligations |
|---|---|
| `BarCollector_proofs` | 2142 |
| `PaperRunnerOrders_proofs` | 1947 |
| `SharedBook_proofs` | 1434 |
| `PaperRunner_proofs` | 1370 |
| `HealthWatch_proofs` | 1310 |
| `PaperRunnerMoney_proofs` | 993 |
| `TrendSleeve_proofs` | 878 |
| `NumberFacts` | 343 |

each counted without those of the modules it extends.
