# nifty-theta-engine: verification

A TLA+ development of the trading bot in this repository: modules translated
from its Python source, TLC runs that check them on small instances, and
theorems about them proved with TLAPS for every instance.

The bot sells put spreads on Indian index options.  One process (`main.py`)
runs a scheduler (`core/scheduler.py`), a websocket monitor
(`core/ws_monitor.py`) and several threads that all drive
`strategies/wheel_strategy.py` against one PostgreSQL database, one Upstox
account and, shared with other bots, one Redis token bus.  What can go wrong is
mostly in the gaps: between an order and the row that records it, between two
threads, between a cancelled order and its late fill, between two bots that
refresh one token.

## 1. Inventory

Paths are relative to the repository root.  "State" is what outlives a call.

### 1.1 Live trading

| Part | State | Operations | Talks to |
|---|---|---|---|
| Spread engine, `strategies/wheel_strategy.py` (`execute_daily_cycle`, `check_exits`, `_execute_exit`, leg helpers) | row of `index_spread_state`, `trade_history`, advisory lock; `self.state` per wheel object | entry: lock, gates, buy hedge, sell short, unwind on failure, save; exit: buy to close, sell to close, archive, save | REST client, PostgreSQL, notifier |
| Real-time exit, `on_realtime_tick`, `refresh_exit_thresholds`, `active_instrument_keys` | `_exit_thresholds`, `_breach_first_seen`, `_exit_in_progress` of the monitor's wheel | debounce a threshold breach, then the same `_execute_exit` | websocket thread, scheduler threads |
| Scheduler, `core/scheduler.py` | module globals `_ws_monitor`, `_ws_wheel`, `_ws_fallback_alerted` | Friday and mid-week entry, hourly exits, startup sweep, missed-entry catch-up, websocket start, stop and restart | APScheduler thread pool, all of the above |
| Websocket monitor, `core/ws_monitor.py` | `_desired`, `_subscribed`, `_connected`, `_stopping` | subscription updates, connection callbacks, tick dispatch | Upstox SDK streamer thread |
| Token resolution, `core/auth.py` and the 401 healing of `core/client.py` | token in Redis, token file, login lock in Redis | fast paths, login lock with TTL, waiting for the winner, TOTP login, publishing | other bots on the same bus, Upstox login |
| REST client, `core/client.py` | access token, instrument master on disk | orders, quotes, funds, chain, master download under a file lock | Upstox REST, file system |
| Gates and sizing, `core/sizing.py`, `core/ivr.py`, `core/trend_filter.py`, `config/event_calendar.py`, `config/settings.py` | none | VIX regime, IV rank, moving average, event blackout, lots per margin and per risk budget, fees | called by the entry |
| Reconciliation, `reconcile_positions` | none | compares broker positions with the rows at startup | client, notifier |
| Same-week re-entry, `maybe_reentry`, `_same_week_reentry_eligible` | none | enter again in the week of an early exit | scheduler |
| Notifier, `core/notifier.py`; `main.py`; `dashboard.py` | none | wording, wiring, display | Discord, Streamlit |

### 1.2 Research and back-testing

| Part | State | Operations |
|---|---|---|
| `research/engine.py`, `execution.py`, `metrics.py`, `events.py` | trades of one simulation | entry days, day walk with pending exits, expiry settlement |
| `research/rv.py`, `iv.py`, `phase_b.py`, `run_*.py` | none | volatility estimates, parameter sweeps |
| `research/futures.py`, `corp_actions.py` | tables built once; archive of daily files with a manifest | download, continuous futures, adjustment factors |
| `research/index_changes.py` | tables built once | press releases read into changes; repeats merged, withdrawn changes cancelled |
| `research/bhavcopy.py`, `deals.py`, `equity*.py`, `quality.py`, `reference.py`, `stock_id.py`, `benchmarks.py` | files on disk, manifest | data loading and repair |
| `research/e1_inclusion.py` .. `e4_whale.py` | positions, cash and carried losses of one simulation | four strategy studies |
| `backtest.py`, `stress.py` | trades and equity of one simulation | put-spread back-test, walk-forward windows, stress scenarios |
| `core/smart_money.py`, `loader.py`, `chain_loader.py` | shares of the companies in a file under a lock, deal lists per object, file of scores | screen of institutional buying, option-chain loaders |

### 1.3 What is hard here

* **Concurrency.** Scheduled jobs run in a thread pool and each builds a wheel of
  its own; the startup thread runs the sweep and the catch-up while the
  scheduler is already started; the websocket thread runs exits of its own.
  Only entries take the advisory lock.
* **Unknown outcomes.** An order may trade after its last poll, its cancel may
  fail unseen, its reply may be lost, its status query may fail.
* **Failure.** The process may die anywhere; `_load_state`, `_save_state` and
  `_archive_trade` swallow every `psycopg2.Error`.
* **Staleness.** The stage is read before the lock, the exit thresholds are a
  copy of a position that another thread may have closed.
* **Shared tokens.** Several bots heal the same expired token through a lock
  that expires by itself.
* **Shared files.** The instrument master and the shares of the companies are files
  that several processes rewrite in place under a lock that times out, and read
  without it.
* **Answers that lie.** An archive says "no rows" for a session, a press release
  repeats or withdraws what an earlier one said without saying so.
* **Long walks.** The books of the studies meet rolls, holes in the quotes, leftover
  sales and year ends in every order, and one mark taken twice makes money.

### 1.4 What makes each part correct

* Spread engine: the account never owes an unhedged short; at most one spread is
  open; the row and the account agree; no booking is lost or doubled; entries
  are exclusive; every job ends.
* Real-time exit: a position is closed once, on its own thresholds, after a
  breach that lasted.
* Websocket monitor and scheduler: one monitor at a time, every key of an open
  position ends up subscribed, one alert per failure episode.
* Token bus: one login per refresh, the bus ends up with the token that works.
* Gates and sizing: the lots bought respect both budgets; a blackout day blocks.
* Instrument master, smart money: one download per day; what a dead or failed
  process left behind is replaced, not trusted.
* Archives: no session is ever taken for a holiday.
* Research: every simulated position is closed once, by its expiry at the
  latest; losses stay inside what the position was sized on; the books explain their
  money and set off a loss once; the continuous series moves as the market does; the
  archive of index changes is what happened.

## 2. Plan

In this order; a module marked * is written.

1. *`HedgedBook`*: the abstract account. `SpreadEngine`*: entries, scheduled
   exits, broker, database, lock, crash. `MCSpreadEngine`*: instances.
   `SpreadEngineProofs`*: theorems.
2. `TokenBus`*: token resolution of several bots, the expiring login lock, the
   401 healing. `MCTokenBus`*, `TokenBusProofs`*.
3. `RealtimeExit`*: EXTENDS the engine with the scheduler's websocket globals,
   the monitor's thresholds and its ticks. `MCRealtimeExit`*,
   `RealtimeExitProofs`*.
4. `Sizing`*, `SizingProofs`*: `risk_lots` and what it bounds, shared by the live bot
   and the back-tests.  `EntryGates`*: one entry attempt - VIX, IV rank, trend, calendar,
   strike selection, sizing, requote prices.  `MCEntryGates`*, `EntryGatesProofs`*.
5. `SimBook`*: the abstract book of a back-test.  `DayWalk`*: the research engine's
   entries and its day walk with pending exits.  `MCDayWalk`*, `DayWalkProofs`*.
   `BacktestWalk`*: `run_pcs_backtest` and `walk_forward`, a second
   implementation of `SimBook`.
6. `WatchedKeys`*, `InstrumentMaster`*, `DayFetch`*, `SmartMoney`*: the monitor's key
   sets under the SDK's callbacks, the file lock of the master download, the
   manifests of the archives, the shares' file and the screen. `MCFeeds`*,
   `FeedsProofs`*.
7. `ContinuousFutures`*, `ReleaseParser`*, `ChangeLedger`*, `TrendBook`*,
   `MomentumBook`*: roll factors, the reading of press releases and the merge of their
   announcements, the books of two strategy studies. `MCResearch`*, `ResearchProofs`*.

Every safety invariant and action property of the runs has its theorem; what is left to TLC
alone is named at the end of section 5.

Runs per module: one without faults and with the deep properties, one with
every fault and the properties that survive it.  Modules that share no state with
any other have one run together, in which one of them moves.

## 3. How the modules correspond to the code

`PROJECT.json`, under "map", names for every definition the lines it models;
this section says how to read the correspondence.

### 3.1 `SpreadEngine`

One thread of the bot is one element of `Workers`; `job[w]` is the call of
`execute_daily_cycle` (an Entrant) or `check_exits` (an Exiter) it is inside.
A thread's program counter `pc` stands at the points between which other threads
can matter: the database calls, the lock calls, and each REST call of an order.

| Model | Code |
|---|---|
| `row`, `history`, `lock` | row of `index_spread_state`, `trade_history`, `pg_advisory_lock(hashtext(symbol))` |
| `job[w].mem` | `self.state[symbol]` of the wheel that the job built |
| `hedge`, `sold` | net quantities at the broker, in units of one entry |
| `stray` | orders that work at the broker although their job gave them up |
| `expired` | spreads past their expiry: both legs cash settled, orders lapsed |
| `LoadState`, `SaveState`, `ArchiveTrade` | `_load_state`, `_save_state`, `_archive_trade`: one transaction each, `psycopg2.Error` swallowed |
| `StartEntry` .. `Unlock` | `execute_daily_cycle` from `_load_state` to the `finally` |
| `PlaceAccepted`, `PollComplete`, `PollRejected`, `PollTimeout`, `CancelOrder` | one order of `_place_entry_leg_with_requote`, `_unwind_hedge` or `_execute_exit` |
| `AfterFill`, `AfterGiveUp` | what each caller does with the leg's outcome |
| `StartExit` .. `SaveClosed` | `check_exits` and `_execute_exit` |

Prices, premiums and quantities are abstracted: an order fills whole or not at all, so
that an order cancelled after a partial fill, which the code places again in full
because it never reads the filled quantity (`client.py:299-325`, `wheel_strategy.py:737`), is
not modelled.  A spread is a model value, the
gates are a free choice (`PassGates`, `BlockedByGate`), every trade earns one
unit so that a lost or doubled booking is a difference of counts.  Only one
symbol is modelled: rows and locks are per symbol and nothing is shared across.

`HedgedBook` is what the engine promises of the account and nothing else: five
actions on `hedge` and `sold`, two of them guarded by the margin between them.
`SpreadEngine` implements it under the identity mapping (`ImplementsBook`).

### 3.2 `RealtimeExit`

EXTENDS `SpreadEngine`.  A ticker is the wheel of one monitor; it is an
Exiter whose jobs start in `TickConfirmed` instead of `StartExit`.  `wsWheel` and
`wsMonitor` are the scheduler's module globals, `sockets[m]` counts the streams
that deliver to a wheel, `todo[w]` is the rest of a scheduled function after
its job: `Start` = `_start_ws_monitor`, `Refresh` = `_refresh_realtime_state`, each
cut in two where the code reads the globals a second time.  A scheduled thread
reaches every engine action through `ScheduledStep`, which appends the refresh at
the end of the job.

### 3.3 `TokenBus`

A caller is a thread with a client.  `pc` follows `_make_authenticated_request`
(`send`, `evict`, `compare`, `heal`, `retry`, `final`) and
`authenticate_and_save_token` (`fastpath` .. `release`).  Redis is `bus` and
`refreshLock`; the machine-local pair is `file` and `fileLock`.  Tokens are numbered
by login; `live` is the only one the broker accepts.  `token.json` has an age
instead of a time: under the anti-spam guard, under the maximal age, older.

### 3.4 `EntryGates`

One call of `execute_daily_cycle` after the stage test.  `pc` names the gate it
stands at, in the order of the code; each action reads its input (VIX, history,
quote, chain, margin) from the sets the configuration gives.

| Model | Code |
|---|---|
| `VixRegimeOtm`, `IvrAllowsEntry`, `InEventBlackout`, `TrendAllowsEntry`, `RiskLots` (in `Sizing`) | the functions of those names in `config/` and `core/` |
| `SessionAllows` | the chain of tests on session name and weekday |
| `ShortCandidates`, `HedgesFor`, `Acceptable`, `SelectTargetPut` | the filters, the loop body and the minimum of `_select_target_put` |
| `Size` | margin, capital ceiling, realised P&L of the paper account, `risk_lots` |
| `RequoteHedge`, `FillHedge`, `RequoteShort`, `FillShort` | the limit prices of `_place_entry_leg_with_requote` and the fills at them |

Prices are paise, percentages whole percents, distances and deltas thousandths, so
that every comparison of the code becomes one of integers; the rounding of
the floating-point division inside `risk_lots` is left out.  `round(x, 2)` of a binary float
rounds a tie either way, so `Rounded` is a set.  The Black-Scholes delta
is a constant operator: no property depends on its shape.  Which of several equally
good pairs wins depends on the order of the chain, so the choice is free.
`BookAssumption` says that a book is not crossed: with an ask below the bid the mid price
can be worse than the natural one, and the loss larger than the one sized on.
What becomes of a leg that is given up is `SpreadEngine`'s part; here the attempt
ends as `skipped`.

### 3.5 `DayWalk`

`run` and `_walk` of `research/engine.py`, one action per branch of their loops.

| Model | Code |
|---|---|
| `Pass`, `Enter`, `Finish` | one turn of the loop of `run`, and its end; `Pass` stands for every `continue` |
| `EntryDays`, `NearestExpiry`, `Spreads`, `Natural`, `RiskLots` | `entry_days`, `_select`, `risk_lots` |
| `SettleDay` | the first lines of `_walk`: the day on which the walk expects the settlement |
| `ExecutePending`, `SettleAtExpiry`, `Stale`, `Mark` | the branches of the loop of `_walk`, in its order |
| `Unvaluable`, `Hole` | the exceptions that end the program |
| `OpenAtEnd` | a walk that returns without an exit, and the `break` in `run` |

`sessions` are the days the exchange was open, `days` the days in the data: the code
sees only the latter, and must tell a holiday from a hole.  `LabelOn` is the exchange's
rule for the rows of a contract whose listed expiry is a holiday; `HasRows` says that
`_px` looks under the right label.  On any day one of the legs may still have no row
(`Stale` has no condition on the prices).

Prices are whole units and free on every day; `ParityAssumption` says that the settles of
one day are consistent: the put is worth at most the width more than its hedge.
Deltas are given with the chain, ties for the strike are free, fees are a choice, and so
is whether the short delta has reached `delta_manage`.  `Pass` may take any day, since a
gate or a missing strike can stop any entry.  A window that ends in mid-week has
its last open day among the `EntryDays`, as in the code.

`SimBook` is what a back-test promises about days: one position at a time, each opened
after the last one was closed, each closed by its settlement day.  `DayWalk` implements
it (`ImplementsSim`); `seen` is a history variable that only `ExitByTheRules` reads.

### 3.6 `BacktestWalk`

`backtest.py`: one action per branch of the loop of `run_pcs_backtest` (`Skip`, `EnterPcs`,
`Hold`, `Exit`, `EndRun`); `NextFold` is the outer loop of `walk_forward`, which starts the
same function again on the next, overlapping window.  `params` are the levers that
`sweep_exit_params` and the tests vary; `Disabled` is Python's `None`.  A path of spot and
VIX is fixed at the start, so that all windows see the same rows; the option price and the
delta are constant operators.  Prices are whole units and permilles round down, so fees
differ from the code's by less than a unit per order.  The position keeps `base`, the
equity it was sized on: no code reads it, `BacktestLossBounded` does.

### 3.7 `TrendBook`, `MomentumBook`

`TrendSession` is one turn of the loop over days of `e3_trend.simulate`: per market the
mark to the open, the roll or product switch with the order due (`RollAndFill`), the mark to the
close, the weekly decision (`Decide`); then the tax of a finished year.  `Choose` is the
monthly choice of products.  What is listed and quoted follows from `tape`.  `spent`, `costs`,
`taxes`, `taxedBase` and `closedPnl` are history: sums of what the code adds
to or takes from `nav`.  `sizedIn` in a slot is history too, read by `OrderFilledInItsProduct` only.

`MomentumBook` cuts a session of `e2_momentum.simulate` at its phases: `Mark` (every
position, pending sales, vanished names), `Rebalanced`, `PayDue`, `StartBuying` and
`BuyNext` (one rank at a time, so that the cash is read after each purchase),
`NextSession`, `SellAll`, `PayRest`.  A position is kept as its worth, rounded down.

### 3.8 `ContinuousFutures`, `ReleaseParser`, `ChangeLedger`

`Walk` is one date of `continuous`; which contracts are quoted on it is a free choice.
`Gap` finds the last date on which both contracts were quoted, the fallback for
neighbouring expiries and the stale one.  A contract's price is the market's plus a basis
of its own: `SeriesFollowsMarket` says that no basis shows in the adjusted series.

In `ReleaseParser` a line is a record of what the regular expressions of `parse` find in
it, and `printed` is what a reader of the release would note; `ctx` is the set of local
variables that `parse` carries from line to line.  `GroupLine`, `Sentence`, `SkipLine` and
`TableLine` are the branches of its loop.  A row that ends in a date (the "Effective Date" column
of 2012) takes effect on it, any other row on the last effective date of the prose above it
(`RowDate`); a date that no calendar has, which stops `parse`, is left out, and so are the
columns of name and symbol.  The second half of the module has no code behind it:
it says how a reader finds section, side, reason, date and serial of a line by looking back from
it, without carrying anything.  A release is `LaidOut` if what looks like a row is one and the
rows of the wanted indices say what is read off their place; of any other release the printed
rows cannot be told from its lines.  TLC evaluates it of every release of the instance
(`ReleasesLaidOut` in `MCResearch`).

`ChangeLedger` models the exchange as an external part that announces, repeats and
withdraws changes of one index; `Build` is the code, evaluated after every announcement.
`Repeats` is one: `merge_repeats` merges a row with the one before it, and of a chain of
three it keeps the date of the second, as the comment at `index_changes.py:449` says.
With two repeats `ArchiveIsHistory` does not hold.

### 3.9 `WatchedKeys`

| Model | Code |
|---|---|
| `desired`, `mirror`, `connected` | `_desired`, `_subscribed`, `_connected` |
| `wire`, `socket` | what the feed sends, the connection: external, seen through the streamer |
| `Update`, `CheckUp` | `update_subscriptions`, called by a scheduler job |
| `OnOpen`, `OnClose` | the callbacks, on the SDK's thread |
| `Diff`, `Unsubscribe`, `Subscribe`, `Store`, `SendRaises` | the lines of `_apply_subscriptions`, each a point where the other thread can get in |

`Store` assigns the wish of that moment, not the one the difference was taken from.
`disturbed` is history: since the last open a send raised or two threads were inside at
once.  `ReconnectRepairs` promises the feed in the undisturbed case only.

### 3.10 `InstrumentMaster`

`_ensure_instrument_master` and `get_lot_size` of several bots on one file.  The file is the
set of lot sizes its rows show, its age and whether it is whole; `Truncate` is the `open`
for writing, `WriteSome` and `EndWrite` the pieces that a reader without the lock can see
between.  A corrupt archive leaves an empty file of a new age.  `LockTimeout` is the ten
seconds of the lock, less than the fifteen of the request.  `askedAt` and `gaveUp` are history.

### 3.11 `DayFetch`

One module for two archives: `source` says which.  "mcx" is `_mcx_run` of
`futures.py`: workers of one event loop share a queue, `Take`, `McxRows`, `McxEmpty`,
`McxFails` are the turns of a worker up to its next await and `Tally` what it does after it.
"nse" is `run` and `fetch_day` of `bhavcopy.py`, one worker without awaits.  `done` is the manifest in memory and
`manifest` the one on disk, written every `SaveEvery` days and at the end (`EndRun`,
`Interrupt`), not when the process is killed (`Kill`).  `FalseEmpties` bounds the wrong
answers of one visit.

### 3.12 `SmartMoney`

A filter is one `SmartMoneyFilter` in one process.  `Load` .. `LockedOut` are
`_ensure_metadata_cache` and `_refresh_metadata`: `BeginDump` truncates the shared file,
`EndDump` completes it, a process may `Exit` in between.  `Screen` is
`process_smart_money` after its second look at the file, including the renaming of
the columns of the cached lists in place, which `WhaleScore` then does not find.  What the website
lists is fixed by `Deals`; which requests succeed is free.

### 3.13 `MCResearch` and `MCFeeds`

Modules that share no state are instantiated together: `study` and `feed` name the one
that moves, the others stay in one initial state.  The number of states is therefore the
sum, not the product, and every action is one of the module's own.

## 4. Runs

Every run bounds the number of jobs, calls or starts (the last lines of its cfg),
so the system may stop and deadlock is not checked; that calls end is `JobEnds` and
`CallEnds`.  What a run leaves out that its hazard names (a fault, a second thread) is said
in the note of the hazard in `PROJECT.json`.

| Run | Question | Bounds and faults |
|---|---|---|
| `crowd` | Does any overlap of four threads leave a naked short? | 2 entries, 2 exits, 4 jobs, crash, failed writes, lost lock |
| `serial` | Do row, ledger and account agree when one entry and one exit thread alternate? | 2 spreads, 5 jobs: enter, exit, enter again, with room for both overlaps; no faults |
| `all_faults` | With everything failing but the lock's session, are entries still exclusive and do jobs end? | 3 threads, 2 jobs |
| `token_one_bot` | Three threads of one bot: is the last login the one on the bus? | 1 boot, 3 calls, 2 expiries, slow logins, failing answers; `PromptSpec` |
| `token_heal` | Two bots heal two expiries, and may die | 4 calls, 2 expiries |
| `token_chaos` | With every fault, does the file lock keep two threads of one bot apart, does nothing leak it, does every call end? | 2 threads of one bot and 1 of a bot on a host without variables; 1 boot, 1 call, 1 expiry |
| `realtime` | A scheduled thread and two generations of monitors | 3 jobs, 2 monitors, crash, failed loads |
| `entry_gates` | Does what reaches the market respect regime, width, calendar and both budgets? | 256 chains out of 8 quotes (two expiries, wide, one-sided and missing books), 6 days, 5 answers for the VIX, 3 margins, drawdown and gain, 2 open risks, 2 requotes per leg |
| `day_walk` | Do the exits of a back-test follow the docstring, on every calendar? | 3 weeks, 9 calendars (holiday on an expiry, holes before and on it, early ends), 2 chains, 3 pairs of marks, 2 settlement prices, 3 exit modes |
| `research` | Do the studies keep their books, and do the tables tell what happened? | back-test: 60 paths of 6 weeks (20 seeds with a fall, 3 holiday calendars), all levers, plain and in windows; trend: 41 tapes of 18 sessions, 2 markets with 3 products; momentum: 90 tapes of 26 sessions, 5 names, 2 slots; series: 5 dates, 5 contracts, 9 listings per date; releases: every pair of section forms, 5 kinds of noise (page numbers, split rows, prose, dates by row, none); ledger: 5 announcements in 6 days |
| `feeds` | Does bad data heal instead of staying? | 3 days, 2 workers, 2 runs, 1 wrong answer (website) or 2 (files); 2 keys, 3 updates, 2 connections; 2 bots, 2 calls each, a file that lives 2 ticks of 4; 2 processes, 3 companies, days 0, 6 and 12 |
| `stale_read` | section 6 | the smallest instance that shows it |

The bounds are small because the hazards are: a double entry needs two jobs, a
doubled exit two exits after an entry, a re-entry three; two threads on either side
of a lock are the only ones that can tell it apart from none, and a third adds
permutations (the theorems cover any number).  Two spreads are enough to tell "the
position" from "another position".  Two expiries are needed to tell a token that is
stale from one that is older still.  The tapes of `research` are arithmetic that looks
random: enough of them to meet every branch of the books (a roll without a common
quote, a switch with an order pending, a vanished name, a year that ends in a loss), which
the coverage of the run shows.  Two workers are needed to leave a day noted in memory and
not on disk, two runs to ask for it again; two connections to have something to forget.
`Missing` is shorter than the distance of two rebalances, as in the code (5 sessions and a
month).

**Fairness.** `FairSpec` asks weak fairness of `Step(w)`, a step inside a job that
has started.  In the code every wait inside a job is a `time.sleep` of a fixed
length, a bounded loop or a request with a timeout, and APScheduler's threads are
preempted by the operating system, so a started job keeps stepping.  Nothing is
assumed of the broker, of ticks or of the start of jobs.  In `TokenBus` the file
lock is the one unbounded wait: a waiter's step is disabled while it is held, and its
holder goes on.

**Where a property needs its restriction.**  These were found by trying them without:

* `BusSettles` holds between the threads of one bot until one of them mirrors a token it
  has read before a login of another: the file is then new and its token old, and the
  guard of `auth.py:177` lets a third thread publish it.  `PromptSpec` leaves that step
  out (`CurrentMirror`), `MCTokenDeadGuard.cfg` shows it.  Across bots a login can overtake
  another on the way to the bus.
* `LoserGetsNewer` needs logins that succeed, bots that do not start up (a starting bot
  republishes its local token, `auth.py:186-190`) and, between two bots, at most two session
  ends: a thread that sleeps through three can publish a local token older than the one a
  loser has lost.  The theorem `LosersGetNewer` needs none of these but what they amount to:
  no login overtakes a token on its way to the bus (`CurrentPublish`, `TokenBusProofs`).  That
  way is a file write and a SET, and a login takes seconds.
* `OneStream` and `OpenPositionWatched` need one scheduled thread.  With two, one of
  two concurrent `_start_ws_monitor` calls leaks its stream, and an older refresh may
  overwrite a newer one.
* `NeverNakedShort` needs `TruthfulBroker`; `MCLateShort.cfg` shows why.
* `OneEntryInFlight` needs the session of the advisory lock to live.
* `NoSessionLost` needs at most one wrong empty answer per visit from the website, and
  fewer than `Asks` from the file archive: that many are taken for a holiday for good.
* `ReconnectRepairs` needs one updater at a time; `MCFeedsDisagrees.cfg` shows why.
* `ArchiveIsHistory` needs changes that are repeated once at most, and a company that is
  not announced again before the date of its withdrawn change has passed.

`MCResearchMore.cfg` checks three more properties on the instances of `research`:
`TrendLossUsedOnce`, `NeverBuysOnCredit` and, as a refinement, `BacktestImplementsSim`.

## 5. Proofs

`tlapm` proves every obligation of `SpreadEngineProofs`, `TokenBusProofs`,
`RealtimeExitProofs`, `SizingProofs`, `EntryGatesProofs`, `DayWalkProofs`, `FeedsProofs` and
`ResearchProofs`.

**Assumptions on the constants** are the named `ASSUME`s of the modules, which TLC
evaluates on every instance:

* `NoSpread` is no spread, `NoWorker` no worker, the workers are finitely many (a crash
  counts the orders it orphans), tickers are exiters and not entrants.
* Settings and account figures are integers of the right sign (`MoneyAssumption`,
  `AccountAssumption`, `RiskAssumption`, `SettingsAssumption`, `CeilingAssumption`,
  `FrictionAssumption`), no book is crossed, the exchange always lists a lot size
  (`MasterAssumption`), the SDK's thread is no scheduler job (`WatchedAssumption`).
* `DayWalk`: the data hold only days of the exchange, the settles of a day are consistent
  (`ParityAssumption`).  `BacktestWalk`: the rows of a path are in the order of their days
  (`PathAssumption`), an option's price is not negative (`PricingAssumption`).
* `MomentumBook`: closes are above zero (`TapeAssumption`), two names share no rank but 0, and
  two rebalances lie further apart than a name may be without rows (`MomentumAssumption`), years do
  not go back (`YearAssumption`).  `TrendBook`: prices are above zero, and a lot that can
  be sized carries a risk (`TrendQuoteAssumption`).
* `ReleaseParser`: a line without text holds a number, reasons are reasons
  (`ReleaseAssumption`), and no index has the name that stands for none (`NamesAssumption`).
* `ContinuousFutures`: prices are integers on every date with rows (`ContractAssumption`), each
  such date has a monthly contract (`QuoteAssumption`), and two expiries of monthly contracts that
  lie within a week are one contract's (`RedatedAssumption`): monthly contracts are a month apart.

**Assumptions on faults** stand in the theorems, for they are not true of every run of the
program:

| Name | Meaning |
|---|---|
| `TruthfulBroker` | no late fill, lost reply or status error |
| "session_lost" not in `Faults` | the session that holds the advisory lock lives |
| `OneThreadPerKind` | at most one thread enters and at most one exits at a time |
| `DatabaseKeeps` | no statement of the database fails |
| "crash" not in `Faults` | the process does not die between a fill and its save |
| `PromptRedis` | no slow login, no Redis error |
| `PlainAnswers` | the API answers 401 or with what was asked, Redis answers |
| `OneScheduled` | one thread runs the scheduled jobs and starts monitors |
| `Repeats <= 1` | a change is repeated once at most (`index_changes.py:449`) |
| `OneBot`, `LoginsPublished` | all threads share a host; nobody dies, no login fails, Redis answers |
| `LaidOut(release)` | what looks like a row of the release is one, and says what is read off its place |
| `FewFalseEmpties` | the number of wrong empty answers per visit |

The theorems about the row, the ledger and the account need the middle three because each of
them, taken away, gives a counterexample: `MCEmptyState.cfg` for the database, `MCRestart.cfg`
for the crash, `stale_read` for a second thread.

| Theorem | Inductive invariant | Why the property is not inductive by itself |
|---|---|---|
| `Typing` | `WellFormed` | an order's state makes sense only at some `pc`s, and a job that trades must know its spread |
| `EntriesExclusive` | `LockHeld` | exclusion follows from "whoever is inside holds the lock" |
| `AlwaysHedged`, `NeverNaked` | `Hedged` with `MarginCovered` | a sell order in flight will lower the margin later: every such order, watched or stray, must have an option of its own behind it |
| `EngineImplementsBook` | `Hedged` | the guards of the book's two sells are the margin |
| `JobsEndInSteps`, `TickJobsEndInSteps` | `StepsBounded` with `WellFormed` | an order can be requoted, timed out and given up in many ways: `StepsLeft` must count the lines and requotes before a job, and the one thing the broker may still do to its order |
| `RealtimeEntriesExclusive` | `LockHeld` | the engine's, kept because nothing the monitor does moves a job into an entry (`MonitorMoves`) |
| `RealtimeImplementsBook` | `Hedged` with `RealtimeOK` | the guards of the book's two sells are the margin |
| `BookNeverNaked` | `NeverNaked` and typing | it is inductive |
| `AlwaysRowKnown`, `PositionKept`, `BooksAgree` | `RowKnown` | a save writes what the job remembers: its memory must be the row, at each of its lines |
| `AlwaysAccounted`, `ShortAlwaysTracked`, `NeverOverClosed`, `OneSpreadOpen` | `Account` with `RowKnown` | the counts at the broker are bounded only by who owes them: the row, less the exit that has bought, plus the entry that has sold |
| `FileLocksExact` | `FileLockExact` | it is inductive once stated as an equivalence |
| `OneRefreshHolder` | `HolderHasLock` | a second holder is kept out only if the first one's key is still set |
| `ForcedWhenBusDead` | `TokensKnown` | the 401 is three steps old when the bus is asked: a token refused once must be refused still, through every login in between, since no token is newer than the last one |
| `OneBotSettles` | `LastDelivered` with `FileLockExact` | the bus may lag behind the login, but only while a thread inside the file lock carries it; and a file young enough to be published must hold it |
| `LosersGetNewer` | `BusNotBehind` | what the loser has read on the bus is several steps old when it finds a token there: the bus may have been emptied meanwhile, but must never have gone back behind it |
| `CallsEndInSteps` | the type invariant | `CallLines` must fall on every path through evicting, healing and waiting, up to the one final retry |
| `NoCircularWait` | `FileLockExact` | whoever holds the lock a thread waits for must be known, and be past the point where it could wait for the same |
| `RealtimeTyping`, `RealtimeNeverNaked` | `RealtimeOK`, `Hedged` | a refresh replaces the memory of a running exit: its typing, and that the wheel's spread stays a spread, must survive |
| `OneStreamOpen` | `Streams` | a new stream may be opened only because the old one has been closed: what a thread still has to do must be one of seven agendas, and while one is a restart no monitor runs |
| `OpenAlwaysWatched` | `Watching` with `Streams` | between reading the row and handing it to the wheel a tick may close the position: what was read must be true or moot; and an exit running on a wheel that a failed load has emptied must save nothing |
| `EntryRiskBounded` | `SizedOnWorstCase` | the size is fixed on the natural prices and the legs trade later: every limit price on the way must be at its leg's natural price or better |
| `SpreadAlwaysInsideBounds` | `ChosenInside` | the distance is that of the first gate, the pair is chosen with it four gates later |
| `BlindEntriesOnFridays` | `SessionHeld` | what the calendar gate has let through must still be true when the order is sent |
| `SimulatedLossBounded` | `SizedTrade` | the bound on a result follows from the size the trade was opened with, which must be kept through the walk |
| `RunImplementsSim` | `OnDays`, `SizedTrade` | the book's closing day is the walk's only if every step stays on the days of the data |
| `ExitsByTheRules` | `RulesKept` | an exit answers to an earlier settle: that it was the first to ask must be remembered until the fill |
| `BacktestLossAlwaysBounded` | `LossInv` | as above, in any window: what is open was opened in this run and sized on its equity |
| `FoldsAlwaysOneBook` | `BookInv` | windows overlap: what earlier ones counted must lie before the first row that counts now |
| `BacktestRunsImplementSim` | `PlainInv` | the trade closed last is found among all that were booked |
| `NeverRebuysToday`, `MomentumLossOnce`, `NeverOnCredit` | `MomInv` | a sale may be left over from a rebalance: the name it sells has had no row since, and cannot be in today's book; the cash holds a slot for every name still to be bought |
| `TrendNavAlwaysExplained`, `TrendLossOnce` | `TrendInv` | a market's lots, contract and mark go together, and a market that holds lots has a product |
| `SeriesAlwaysFollows` | `WalkInv` | a shift is a sum over all later gaps: every change of contract, at whatever row, must have exactly one gap of its date, of the size its kind says |
| `ParserReads` | `ReaderOK` with `Carries` | the rows read so far are right only if each variable carried is what a reader finds by looking back: the section told last or still to be told, the number pending, the last serial of this table |
| `ArchiveAlwaysHistory` | `LedgerInv` | what the next row will be taken for depends on the last row of its side: it must be over, unless it belongs to the change that is due |
| `BadMasterHeals` | `MasterTimes`, `ReadsFresh` | what a call found when it was sent to read must survive the others' steps, and a write they begin meanwhile only makes the file younger |
| `DownloadsOncePerDay` | `MasterTimes`, `LockedWriters` | only the holder of the lock fetches, and the file cannot become fresh while it does |
| `ReconnectsRepair` | `WatchTypes`, `Undisturbed` | at each line of `_apply_subscriptions` the feed is the mirror plus or minus the difference still to be sent |
| `ScreensKnowShares` | `WriterKnows` | a filter that leaves the refresh after its dump must already have had the shares while dumping |
| `SessionsKept` | `EmptyWasWrong` | the second empty answer settles a day, so that the first one on a session was a wrong one must be remembered in the visit |

**How the proofs go.**  `EntryGatesProofs` and `DayWalkProofs` are nonlinear arithmetic cut
into small lemmas: a floor times its divisor stays below the dividend, a rounded value
between two whole prices stays between them, a larger credit means a smaller loss.  They and
`ResearchProofs` rest on `RiskLotsFits` of `SizingProofs`: whatever `risk_lots` returns, that
many lots at their worst stay in the budget.

`SpreadEngineProofs` counts claims with cardinalities: `MarginCovered` is kept because a step
of one thread changes the set of claimants by at most that thread (`ClaimantsMove`), and a
crash turns each claim into at most one stray order (`HedgedCrash`).  `Account` needs no
counting: with one thread per kind a short is owed by the row or by one job, so the steps
only move the debt.  `RealtimeExitProofs` reuses the lemmas on claims: each step that the
monitor adds is either the step of an engine job or changes one job without adding a claim
(`MonitorJobSteps`).

`ResearchProofs` has sums over sets of any size (the marks of all positions, the lots of all
markets).  The induction theorems of the library take an operator and cannot be used, but a
statement about a finite set can be proved by a smallest counterexample, with the least
number principle for a set of numbers that is named explicitly (`LatestExists`,
`SmallestSubset`): that a sum does not depend on the order, that it distributes over a
pointwise sum, that it ignores what is zero.  With these, each step moves one amount between
two sums.  `Build` is evaluated on all rows in one step; the proof follows what one more row
does to it (`MergeNew`, `MergeRepeated`, `CancelNew`), so that nothing recursive is left.

`JobsEndInSteps`, `CallsEndInSteps` and `NoCircularWait` are the part of liveness that is safety:
a running job or call has a bounded number of steps before it, every step that changes it brings
it nearer to its end, and whoever waits waits for a thread that goes on.

**Only model-checked:** that jobs and calls end (`JobEnds`, `CallEnds`): what the theorems above
leave of it, that a running job or the thread waited for can take its step and does, is ENABLED
and fairness, out of the prover's reach.  And `LoserGetsNewer` without `CurrentPublish`, which is
true of two bots and two session ends (`token_heal`) and false of three ends.

## 6. Where code and documentation disagree

One is a run of `PROJECT.json` that TLC ends with a counterexample:

* `stale_read`: the stage is read before the advisory lock, so a second entry enters
  after the first one although the position is open.

More configurations reproduce counterexamples and are kept beside the runs:

* `MCLateShort.cfg` (`NeverNakedShort`): the cancel of a timed-out short order fails
  unseen, the order fills after its requote did, and two shorts stand on one hedge.
* `MCEmptyState.cfg` (`NoLivePositionOverwritten`): a failed load looks like an empty
  table (`wheel_strategy.py:190-195`) and the default record is written over the row of an
  open position, which `wheel_strategy.py:137-140` calls the outcome to avoid.
* `MCDropped.cfg` (`DroppedStillOpen`): when the data end on the day a holiday-shifted
  contract is settled, the settled trade is dropped as "still open when the data ends"
  (`research/engine.py:267`, `279`).
* `MCRestart.cfg` (`NeverDoubleEntered`): a crash between the short's fill and the
  save; the restarted process enters again.
* `MCRetriedExit.cfg` (`NoOverClose`): a buy-to-close fills after its failed cancel,
  the retry buys the short a second time.
* `MCResidual.cfg` (`ClosedOnlyWhenFlat`, quoting `docs/ISSUE_LOG.md:59`): a refused
  sell-to-close leaves the hedge in the account and the row CLOSED.
* `MCTokenServerError.cfg` (`ForcedOnlyWhenBusDead`): a `requests.Response` is false
  from status 400 up, so a retry answered with a 500 forces a login although the token
  is good.
* `MCTokenDeadGuard.cfg` (`ForcedRefreshIsFresh`, `BusSettles`), three threads of one bot:
  the anti-spam guard trusts the age of a file that was rewritten with an old token, hands
  back the dead token and publishes it.
* `MCTokenLateLoser.cfg` (`NoSessionKilled`): a bot that asks for the refresh lock just
  after the winner has released it logs in again and ends the winner's session.
* `MCRealtimeStale.cfg` (`TickExitsOpenSpread`): a tick closes the spread of old
  thresholds, not the one in the row it has just loaded.
* `MCResearchDisagrees.cfg`, three properties; TLC stops at the first, removing it from the
  file shows the next.  `WorthlessExpiryTradesNothing` (`backtest.py:389`): the take-profit
  test comes first and holds of a cost of zero, so a worthless expiry pays the haircut.
  `EveryTestEntryReported` (`backtest.py:467`): an entry still open when its window
  ends is in no window's result.  `OrderFilledInItsProduct` (`e3_trend.py:242`): an order
  sized in lots of one product and unfilled until the switch is filled in the other.
* `MCFeedsDisagrees.cfg`, likewise.  `NeverUndersized` (`settings.py:157`): a reader of a
  half-written master sees the smaller of two lot sizes only.  `MirrorIsOnWire`
  (`scheduler.py:117`): two threads apply different wishes, or a send fails, and a key is
  believed subscribed that the feed does not send.  `ScoresAgree` (`smart_money.py:371`): after
  a screen has renamed the columns of the cached lists, the single score is 0 for a whale.

Read in the code and not turned into a run: the first-breach time survives a change
of the thresholds, so the first breach of the next position can exit without a
debounce; the hourly exit and a tick close one spread twice (`_exit_in_progress` is
per wheel); `maybe_reentry` looks for `last_exit_reason`, which the table does not
store, so it never fires on a reloaded state;
the back-test sizes on the smaller of the realised and the initial equity
(`research/engine.py:258`), its docstring says "on realised equity" (line 14).

## 7. Not modelled

* `maybe_reentry`: it never fires on a state loaded from the database (section 6), so there
  is no behaviour to check; `reconcile_positions`, spread sampling, the fallback alert and the
  heartbeat of the scheduler write messages or samples and change no state of the bot.
* Of the gates, the download and cache of histories, the fee schedules and
  `lot_size_from_master`'s fallbacks; of the client, quotes, chain, margin and the mock market,
  which only shape data that the other modules take as inputs.
* `stress.py`, `rv.py`, `iv.py`, `phase_b.py`, `run_*.py`, `metrics.py`, `corp_actions.py`: floating
  point on data frames, with no state that outlives a row.
* `e1_inclusion.py` and `e4_whale.py`: each event is bought and sold by itself; statistics
  over tables, no book whose steps depend on each other.
* The parsers of the exchanges' files, the matching of company names to symbols, the
  quality checks and the identifier tables: text in, tables out.
* The notifier, the dashboard, the command line and deployment: output and wiring.

`PROJECT.json` lists each with its reason.
