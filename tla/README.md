# Formal model of crypto-forward-tester

The repository runs trading strategies on live market data, keeps paper trades for
each of them in a table (`forward_trades`) and, for a few strategies, carries these
trades over to Binance futures and cTrader accounts. Next to that it has Polymarket
bots, daily ledgers of stocks, drawdowns and option walls, and a web application with
guest passes and dashboards. What can go wrong in it is mostly a matter of order,
timing and partial failure, which unit tests hardly reach: these modules describe the
parts where it matters, TLC checks them on small instances, and TLAPS proves the most
important results for every value of the constants.

Paths below are relative to `src/src/`; `common/` stands for
`features/strategy/common/` and `poly/` for `features/strategy/polymarket/`.

## Inventory

| component | state it keeps | operations | hard about it |
|---|---|---|---|
| forward-test engine (`common/base_forward_test.py`, `common/pnl.py`) | `_position` in memory, one open row in `forward_trades`, the prices and results of rows | `tick`, `_persist_*`, `_load_open_from_db`, `reset_db`, `sync_from_binance`, `_update_*_price_in_db`, `get_stats` | every database call swallows its exceptions, so memory and table drift apart; fills answered late; restarts; operators |
| `spot_perp_cvd`, `oi_cvd_surge`, `eth_cvd_explosion` (`engine`, `signal`, `exit_check`) | position, `hold_bars`, trailing stop, re-entry block, targets | bar tick, price tick | rules that live in memory only; missing data; two sides that must mirror each other; bar extremes older than the trade |
| strategy loop and `get_state` (`common/strategy_loop.py`, `common/base_realtime_feed.py`, `*/forward_test_runner.py`) | `_last_bar_time`, `_signal_cache`, tick tasks, the loop's sleep | the loop, dashboards' polls, `_tick_and_notify` | shared state read before an await and used after it; tasks fired and forgotten |
| live orders (`_execute_verify_notify`, `common/binance_executor.py` of `src/src`) | position and stop orders on the exchange | `open_position`, `place_tp_sl`, `close_position` | requests that time out with or without effect; two runners on one position |
| cTrader executor, tokens, router | connection, one pending reply slot, refresh token | connect, send and wait, execution events, close by id, refresh | replies matched by order alone, fills of a part, volumes that are not the position's, reconnects that give up, token rotation by two parties |
| Polymarket fade engine (`poly/fade/`) | open slots, watch list, cool-downs, an entry lock, ledger rows | enter, add, close, replace, raise cash, screen, sweep | slot limit outside the lock, fills without a record, concurrent closes, lists read before an await |
| Polymarket signals and jobs (`poly/`: LC, LS, PH, BF, LA, resolver, retry jobs) | `polymarket_signals`, `polymarket_jobs`, cool-downs | scan, order task, resolve, redeem, retry, reset | lookup and insertion are two transactions, in several processes |
| Polymarket rules, reports, market lists | none, or a listing under way | price levels, sizes, ladders, pages, paged scans | lists that move while they are read; rounding |
| `value_scan` (with the service that runs `scripts/scan_value_forward.py` daily) | positions, history, a lock: an advisory lock on PostgreSQL, else a file | scheduled and manual scan, catch-up, repairs | crash between two commits, two processes, midnight, a lock that stays with a pooled connection |
| `drawdown_signal` | ledger of a replayed ladder | replay, scheduled and manual run, pages | the replay sees a sliding window of history |
| `us_options_gamma_wall` | snapshots, daily bars, ledger, advisory locks | collect, fold, score, clean up at start | two processes side by side during a deployment |
| price feed and bars (`binance_price_ws`, REST client) | last price, reconnect delay, pause | connect, receive, refuse | rate limits that overtake one another, streams that die silently |
| guest passes (`features/auth`) | `access_passes`, cookies | create, extend, revoke, login, visit | a sliding expiry that two parties move |
| web app, dashboards, notifications, helpers, other scripts | sessions, caches | requests | I/O |

How they interact: the loop of a strategy calls `get_state`; a bar seen for the first
time inside the pre-entry window (the last 60 s of a bar) fires a task that runs
`engine.tick`; the events of a tick (entry, close) go to `_execute_verify_notify`,
which calls the executors and writes fill prices back to the row. Dashboards call the
same `get_state` and share its state with the loop. The Polymarket and daily jobs run
beside it and share only the database and, between processes, its locks. Everything
but the cTrader reactor runs on one asyncio thread per process, so a step of a model is
the code from one await to the next.

`PROJECT.json` lists every component with its status, every hazard at its line, and the
lines each definition translates. In `strategies_master.yaml` five strategies are
enabled: `spot_perp_cvd`, `oi_cvd_surge`, `us_options_gamma_wall`,
`us_options_gex_pin` and `deribit_gex_reversal`. The Polymarket strategies (marked
legacy), `value_scan`, `drawdown_signal` and the explosion family are switched off at
this commit; they are complete programs and are modelled as what they do when they
are switched on.

## Modules

| module | models | state and actions |
|---|---|---|
| `ForwardTrades` | what the engine promises: one open trade, stops only tighten, a closed trade stays closed | `status`, `stop`; Enter, Exit, Reverse, Tighten |
| `ForwardEngine` | `BaseForwardTest` over a table that may fail | `position` = `_position`, `rows` = the strategy's rows; the four things a tick does, each with the outcome of its commits; `Restart`; `Reset` and the forced syncs |
| `EngineProofs` | theorems about `ForwardEngine` and the strategies of `MCBars` | |
| `TradeFills` | the price columns of a row and what the pages make of them | ticks, answers of orders in any order, restarts; statistics |
| `ExitRules` | `check_exit` of both live CVD strategies | operators on a position and a bar |
| `SpotPerpCvd` | the engine of `spot_perp_cvd` | `BarTick`, `IntrabarTick`, `Restart`, `FillNoted` |
| `SpotPerpSignal` | `compute_signal` of `spot_perp_cvd` in every mode | operators |
| `OiCvdSurge` | `get_state`, `tick` and price tick of `oi_cvd_surge` on a real bar | `Move`, `NewBar`, `Fetch`, `RunTick`, `IntrabarTick`, `Restart` |
| `CvdExplosion` | both ticks of `eth_cvd_explosion`, targets that walk from magnet to magnet | bar tick, price tick, restart |
| `CvdExplosionSignal` | the scores of both sides by which `eth_cvd_explosion` enters, with its filters | operators |
| `StrategyLoop` | loop, `get_state`, dashboards, tick tasks | a call of `get_state` is `Ask`, `Answer`, `Apply` or `Miss`; the loop is `TopHeld`, `TopFlat`, `LoopDone`, `LoopRaise`, `CheckPrice`, `NoPrice`, `Executed` |
| `LiveSync` | `_execute_verify_notify` and `BinanceExecutor` against an exchange in one-way mode | one action per HTTP request; `job` holds the two runners, `amt` and `orders` the exchange |
| `LiveServiceProofs` | theorems about `LiveSync` and `Services` | |
| `CTraderExecutor` | connection, the one slot for an answer, jobs of strategies and dashboard, a broker that acts on its own | one action per message, timeout or callback; positions have volumes, and an order may be carried out in part |
| `CTraderTokens` | the stored token pair, executors and routes that refresh it | read, refresh, answer, store |
| `FadeEngine` | tasks, ledger, watch list, lock, wallet of the fade engine; prices are choices | one action per answer that a task waits for |
| `FadeRules`, `FadeReports` | spikes, levels, replay, buffer, order prices; the pages | operators |
| `PolySignals` | signal rows, order tasks, retry jobs, resolver in several processes | scanners, `SaveSignal`, `OrderTask`, the resolver's steps, resets, `Restart` |
| `PolyRules`, `LogicArb`, `PolyReports` | when a market is worth a row, what is booked, what pages show | operators |
| `MarketScan` | paged reading of market lists while they move | pages, moves |
| `ValueScan`, `ScanBook` | schedule, lock, books and repairs of the value scan; scores, ratings, pages | scans in two processes, `lock` and the pooled connection that keeps it (`stuck`); operators |
| `Drawdown`, `DrawdownStats` | replay and ledger of the ladder; statistics | runs over a growing history; operators |
| `GammaWall` | collectors, pending snapshots, ledger, locks, clean-up | per process: collect, fold, clean |
| `MarketFeed` | mark price stream with reconnects; requests for bars with pauses | connect, fail, hear, die; ask, refuse |
| `AccessPass` | guest passes and cookies | one action per request, a clock |
| `Services` | `AccessPass`, `MarketFeed`, `MarketScan` and `TradeFills` side by side: services that share nothing | `part` says which one a behaviour is about |
| `DailyProofs` | theorems about the parts of `MCDaily`: `ValueScan`, `Drawdown`, `GammaWall` | |
| `PolySignalsProofs`, `FadeEngineProofs`, `StrategyLoopProofs`, `MCStrategyLoopProofs`, `CTraderProofs` | theorems about these | |

`MCBars`, `MCStrategyLoop`, `MCCTrader`, `MCFadeEngine`, `MCDaily`, `MCPolymarket` and
`MCServices` instantiate them for TLC; `MCServices` adds the enumerated questions to
`Services`. A module whose parts share nothing runs one part per behaviour (`part` in its
initial states), so that one run covers several small state machines without their product.

`ForwardEngine` implements `ForwardTrades` by `INSTANCE ... WITH`. `ForwardEngine` has
no prices and a table that fails; the strategies have prices and a table that answers;
`TradeFills` has the columns; `StrategyLoop` has time and no prices; `LiveSync` has the
exchange and takes the engine as given. They cut the system where the code itself
passes plain values.

Faulty variants (definitions commented as such, or as mutants) stand before the
definitions they change. They are not part of any specification; each property is
broken by at least one of them.

## Abstractions

- Prices are small integers, in the unit where the rules on them differ: half cents for
  Polymarket books, hundredths of a cent in the fade rules, tenths of the stake in the
  reports, thousands for thresholds in `LogicArb`, hundredths of shares. Percentages
  are whole or distances. Medians are doubled to stay whole. 0 or a named constant is
  a missing value (the code's falsy `0.0`, or NaN).
- A stop in `ForwardEngine` is the number of times it was tightened, and whether a tick
  exits or enters is a free choice there.
- Indicator values are arbitrary members of a small set, together with "blanked by a
  filter or a failed request". `hold_bars` counts up to `min_hold_bars`.
- Time in `StrategyLoop` has two phases per bar, body and window. A request and a tick
  task see at most one change of phase (their timeouts are shorter than a window).
- Sizes in `LiveSync` are one unit per entry; in `FadeEngine` a share costs one unit.
- Volumes in `CTraderExecutor` are steps of the symbol. How a lot size, a notional or a
  request comes by its volume is a choice: an order has any of `OrderVolumes`, a close by
  id any of the volumes its behaviour draws, whatever the position has. An order opens a
  position of its own and never adds to one (no netting).
- In `ValueScan` a connection of the pool is closed only while no body of the lock is under
  way: one that breaks in the middle of a scan, and with it frees the lock early, is not
  modelled.
- A tick is synchronous Python and so one step. A crash inside it leaves what a shorter
  tick followed by `Restart` leaves.
- In `PolySignals` times are two sets: markets that have ended, cool-downs that are on.
  A scan's stretch from lookup to insertion holds its process (`looked[p]`).
- In `GammaWall` steps that hold the lock and wait for nothing more are one step.
- Text, HTML, logging, protobuf encoding and wording are left out, unless a rule reads
  them (the kinds of words `LogicArb` classifies by).

## Runs

Bounds are in the `.cfg` files and, where a behaviour draws its own budget, in the MC
modules (`MCBounds`, `MCBudgets`): each kind of trouble occurs once or twice, in turn.

- **faults** (`ForwardEngine`): commits are lost or unacknowledged, the process restarts,
  operators reset and sync. A restart still finds the held trade; open rows without an
  owner never outnumber the faults that made them; the stop in the row is never tighter
  than the one in memory. Four rows and four faults allow two strays, a reversal, and a
  stray that a restart takes up.
- **reliable** (`ForwardEngine`): the database answers, no operator; memory and table
  agree and the engine implements `ForwardTrades`, restarts included.
- **engines** (`MCBars`): `spot_perp_cvd` with a trailing stop, restarts and corrected
  fills keeps its block on re-entry after a stop loss; its signal is the same for long
  and short mirrored, in every mode; `oi_cvd_surge` closes no trade by prices older than
  itself and never enters a bar twice in one process; in `eth_cvd_explosion` targets walk
  from magnet to magnet, and its scores tell the two sides apart and mirror each other. Stops only move toward profit, and a restart brings back the bet
  that was held. Four prices fit entry, stop, target and a stop that trails to the entry;
  six (`SurgeMaxPrice`, `ExMaxPrice`) fit two magnets on either side. `CvdExplosion` runs
  without slippage (`ExMaxSlip` 0).
- **loop** (`MCStrategyLoop`), two parts. Faulty: failing requests, missing prices, a
  restart and a polling dashboard, no request that outlives its bar: a bar is ticked at
  most once, in its own window, and a bar without a tick has one of the known causes.
  Live: answers may come after their bar; a held position is unchecked for at most one
  bar in a row; a price that stays beyond the stop gets the position closed. Three bars
  let a stale answer, a sleep and a recovery follow one another.
- **live_orders** (`LiveSync`): two failing requests, a restart, overlapping jobs, three
  trades. The position never exceeds one unit; an undisturbed close flattens and an
  undisturbed entry ends under its own TP and SL whatever earlier ones left; without
  failure, restart or overlap the exchange ends where the engine is.
- **close_aborts** (`LiveSync`): finding 1.
- **fade** (`MCFadeEngine`): two tasks, add-ons, slot replacement and cash sales, and in
  turn an exchange that fills unheard, a restart, a screening with a user's edit. Two
  markets and one slot: the second market has to replace the first or to wait. Ledger and
  wallet differ for the recorded causes only, an order sized from the balance is covered,
  exclusions stand.
- **dropped** (`MCFadeEngine`): finding 2.
- **ctrader** (`MCCTrader`), two parts. Two jobs (one call each) on one executor with time-outs, lost
  connections and a broker that acts on its own: an answer goes to the wrong job only
  where one is owed to nobody, and nobody is stuck. A close that reports success has closed
  what it asked for (`ClosedAsAsked`): confirmed by the list, the position is gone; by an
  answer, nothing is left of it unless the broker carried out a part, or a close by id sent
  too small a volume. Orders are of two steps (`OrderVolumes`), of which the broker may carry
  out one, and closes by id of one or two: with `MaxVolume` 2 a position may be as asked for,
  smaller, or larger than what a close sends. A behaviour has two faults; or a fault, an order
  in parts and closes by id of one step; or two orders in parts and closes by id of one step
  or two (`MCBounds`). Two executors and the routes that refresh one
  token pair: the chain of refresh tokens breaks for known causes only.
- **ledgers** (`MCDaily`), three state machines and three sets of questions. The value
  scan in two processes over the slots 24 to 26 around midnight of a Friday: every lot
  bought is in the books, a market is caught up once a date, one that is due does not
  stay so, as long as no idle connection has kept the lock. `Postgres` is TRUE: unlocking
  may free the lock, as a lock file does always, or leave it to a pooled connection. The
  exception is not idle: without `stuck` in `DueIsScanned` TLC refutes it (a scan ends, its
  unlock runs on another connection, every later try of the other process is refused), and
  with `Postgres` FALSE it holds without the exception. The drawdown ladder on a history one
  bar longer than its window: what is recorded stands while a run sees the same history,
  episodes begin and end for a cause. The gamma wall in two processes over three days
  (`WallDays`) with a holiday: no snapshot is lost, locks are taken in one order. Ratings
  never fall when a figure gets better; pages add up.
- **signals** (`MCPolymarket`): five worlds (`MCBudgets`) with two processes, failing
  commits, a restart, resets, a retry job. A side is signalled again only when its row
  was settled or its order failed; a row whose market has a result is settled.
- **services** (`MCServices`): passes (one pass, two browsers, five ticks, so that a
  limit, an extension and a cookie all run out), stream, bars (two requests that overtake
  each other), market lists (four markets on pages of two, so that a move crosses a page),
  fills (two trades), and the enumerated questions to rules and pages.

Deadlock checking is off where bounds end a behaviour (rows used up, last bar over,
trades used up, a question answered); the system itself goes on there.

### Fairness

Three specifications state fairness; safety needs none.

- `StrategyLoop`: weak throughout. asyncio runs every ready task, a request ends at its
  timeout at the latest, a sleep ends, time advances. Nothing is assumed of the market,
  of dashboards, of a price being available, or of the operator. `StopActedOnWhenFair`
  asks for a stop that stays breached: a price that comes back is not promised to be seen.
- `PolySignals`: strong fairness of the resolver's step (a scan's stretch from lookup to
  insertion is synchronous, so the step is disabled now and then), weak fairness of the
  insertion, and strong fairness of being told the final price: a settled market is in
  the end priced so. The code asks for one hour of price history, so a market that was
  settled long before may never answer; `EndedGetResolved` takes it that it does.
- `ValueScan`: the schedulers wake up, and a scan or repair that began ends. Time need not
  advance, and nothing is assumed of the connection that keeps a lock (it may never close).

## Proved

Each module of theorems extends the module it is about; TLAPS proves every step for all
values of the constants that the named assumptions admit. The assumptions only say what
kind of thing a constant is (natural numbers, Booleans, finite sets), unless said below.
Every inductive invariant was checked by TLC on the run's instance before it was proved.

**`EngineProofs`**, for any number of rows, stop levels and faults.

- `Invariance`: `Spec => []IInv`, with IInv the conjunction of the type invariant,
  "rows not yet inserted are absent" (`FreshIsAbsent`), "nothing is left of a position
  that is not held" (`FlatIsFlat`), "a held row is open and the latest open row"
  (`HeldRowIsLatest`) and `RowStopNeverTighter`. `RestartRecoversHeldTrade` alone is not
  inductive: a new row must be later than all others, which needs `FreshIsAbsent`.
- `TypeCorrect`, `RestartRecovers`, `RowStopSafe` follow from it.
- `StraysAreFaults`: every action adds at most as many strays as it counts faults, by
  lemmas about the cardinality of the set of open rows.
- `MemoryAndRowAgree` and `Refinement` (`Spec => ImplementsTrades`) under
  `Reliable == ~DbFaults /\ ~OperatorActs`, by the stronger invariant that adds
  `MemoryMatchesRow` and `AbsentIsNew`: each tick maps to one step of `ForwardTrades`,
  `Restart` to a stutter.
- The strategies of `MCBars`, for all prices, distances, ratios and magnets: `BarsInv` is the
  conjunction of `SpotInv`, `SurgeInv` and `ExplosionInv`. `SurgeInv` says what the process
  has seen since it entered: the extremes it keeps cover the bar it is in and the bar of a
  task that waits (`Covers`), which is why an exit was touched and not only priced. The
  advance of `eth_cvd_explosion` from magnet to magnet is a loop: the lemmas are about its
  sets (what is ahead, what is kept). `BarsTypes`, `BarsRecorded`, `BarsEntries` and the
  action property `BarsLevels` follow. `BarsEntries` leaves out the parts "signal" and
  "scores", which evaluate one bar and take no step.

**`LiveServiceProofs`**, about `LiveSync`, for any number of trades, failing requests and restarts, with or
without final errors and overlap.

- `Invariance`: `Spec => []LInv`, with LInv the type invariant, "a job stands at a request of
  the event it is on" (`JobsFit`), "the loop's job only closes" (`LoopCloses`), "an entry
  order leaves only when the exchange is flat" (`OrderFromFlat`) and `NeverDoubled`. The
  last is not inductive alone: two jobs that both open would double the position after both
  looked; that only the tick's job carries entries excludes it, and a close sent by the
  other runner is reduce-only: it cannot move a flat position.
- `TypeCorrect`, `NeverDoubledHolds` follow from it.
- `CloseFlattens` and `EntryProtects` are action properties. They need CInv, which adds
  `CleanOnTrack`: a job that nothing disturbed so far is the only one that runs, and
  exchange and orders are what its next request takes them to be.
- `SyncedWhenQuiet` (`QuietMeansSynced`): while nothing failed, restarted or overlapped,
  one runner is busy at most, the events it has still to carry over lead to the engine's
  trade, and the exchange is where its next request takes it to be. The proof has to allow
  for one thing that the property does not show: stop orders that earlier trades left may
  have closed the new position already.

**`LiveServiceProofs`**, about `Services`. For any number of passes and browsers, all
lifetimes and limits:

- `AccessInvariance`: AInv is the type invariant, `RowsSound` (each row against what was granted
  and when it was last visited), `VisitsPast`, `CookiesBacked`, and `CookiesLast` (the cookie
  of who logged in lasts until the row expires, or its limit). `AccessAssumption` has the
  clock end before a cookie of 90 days could.
- `AccessTypeCorrect` and `PassesHoldAlways` follow. The first attempt failed at the pass
  that is issued with a lifetime beyond its own limit; `create_pass` admits it, so the
  model keeps it apart (`BornBeyond`).

The other services: `ServicesInvariance` is `ServicesSpec => []ServicesInv`, one invariant
per service, for any number of requests, refusals, markets, moves, trades and restarts.

- `FeedInv`: a pause and the time the network has been well add up to one pause at most
  (`CalmIsWaited`), so that a price stream is open again when they have passed it; the pause
  that is kept is the one that was asked for, or longer, or there is an excuse
  (`BanCoversAsked`).
- `ScanInv`: a market that is due, not found and behind the reader is missed (`Missed`), and
  there are no more of them than moves. That is the whole argument, and the property alone
  is not inductive: it speaks of scans that are over. A page is told by places, the number
  of listed markets before one; a market that leaves shifts places by one at most
  (`PassedRemoved`), one that climbs lets no other slip behind the reader (`PassedRaised`), a
  page reads the places it spans (`PageRead`), and behind a short one there is none
  (`ShortPageIsLast`). By end dates a page without a wanted market has none behind it
  (`PastThePage`).
- `FillInv`: every order under way carries the side of its own row, and a close its entry as
  long as no fill was written (`Sendable`); at most one row is open, and it is the one held (`Held`);
  the results of a closed row are those of its prices, the fills noted apart (`TradeRow`,
  `Table`). Prices are at most 10000 (`ServicesAssumption`), so that a move of one unit is a
  hundredth of a percent at least and is not rounded away.
- `ServicesTypes`, `FeedKeepsAlways` (`FeedKeeps`) and `FillsAreOwn` follow; by
  `ServicesPasses` what is proved of the passes holds here too. `MCServices` only adds the
  part's name and a question that never changes.

**`DailyProofs`**, about the parts of `MCDaily`, for any number of stocks, processes, days,
prices and crashes.

- `WallInv` says what stands of a session at any moment: its newest snapshot is the record,
  or pending, or had no walls (`DayFits`); what a run read differs from the table by newer
  snapshots only (`RunFits`); and one of the two locks is never kept (`LocksFit`), so nobody
  waits in a circle. `WallsNeverWait` follows.
- `ScanInv`: lots bought are held, or in one closed trade, or owed by a known cause, counted
  by cardinalities of the closed trades; the body of the lock, the connection it may stay with, and the
  stages of both processes agree (`ScanLocks`, `ScanFits`); a date is scanned once unless a restart forgot it
  (`CatchupsFit`). `DailyScans` follows.
- `LadderInv`: the replay of the ladder is a recursive function of the bars. Its proofs tell
  it by the set of bars it comes by (`Reached`, the least set that is closed under "the next
  bar after an exit"), of which every entry and exit is the earliest of its kind. More bars
  of the same history extend the set and change nothing in it, so what was recorded stands
  (`DailyRecords`), and an episode ends for its cause (`DailyCauses`). Induction is by the
  least number that fails, from the well-foundedness of the naturals.
- `DailyTypes` joins the three. Of the lock it says that positions and history are written
  inside its body only, and that outside it the lock stays with one idle connection at most,
  on PostgreSQL only; not that it is free when no scan is under way, which is false there. `DailyScans` leaves out the parts of the questions,
  and `DailyCauses` what the pages say of the ladder (`StatsAgree`).

**`PolySignalsProofs`**, for any number of processes, rows and markets and all budgets.

- `Invariance`: SInv adds to the property that rows of late convergence have a status, that
  a row still cooling down is known to its process, and `LookStands`: between the lookup of
  a scan and its insertion no row appears that would have blocked it in the same process.
  Lookup and insertion are two transactions, so this is the whole argument.
- `TypeCorrect` and `NoDoubleSignalHolds` follow.

**`StrategyLoopProofs`**, for any number of bars and calls.

- `BarsInvariance`: a call of `get_state` fits its stage, the loop waits for its own call,
  a bar is noted for a cause, nothing is ahead of the clock, and a bar that is over was
  ticked or has one of the causes. `LostBarsHaveCause` follows.
- `OnceInWindow` under `~LateAnswers` adds `TicksCounted`: what the clock, the noted bar and
  the pending calls say bounds the ticks of a bar. With late answers it is false.
- `WatchedInTime` under `~Failures /\ ~Outages` adds `Exposed`, `LookIsWatch` and
  `AboutToLook`: the loop is on its way to a look at the price in every body.

`MCStrategyLoopProofs` carries these over to the two parts of the run, so that the properties
TLC checks there are stated literally (`PartsTypeCorrect`, `BarsAccountedForAlways`,
`OnceUnlessLate`).

**`FadeEngineProofs`**, for any markets, limits, funds, switches and bounds. `Invariant` is
`Spec => []FInv`, in two parts.

- LInv is about the tasks: the lock has the holder and the waiter that the tasks take it to
  have (`LockKept`), a job carries what its stage needs (`Fits`, `SaleFits`, `AddFits`), the
  rows the sweep has still to look at are in the table (`TodoFits`), an order sized from the
  balance is covered. Only the holder of the lock spends cash, so `OrdersAreFunded` is kept.
- Books is about one market, and relates its rows, its shares in the wallet and what both
  tasks are doing to it (`Pair`): the wallet and the open row differ by what is filled and
  not handled yet (`Balanced`), a cash sale empties the wallet (`Cashed`, `Covers`), an exit
  sells all there is unless the row was added to meanwhile (`ExitsWhole`), and whoever is
  late to close a row that is closed finds no row that was opened since, because the market
  is cooling down (`NoReentry`, and `Late` for the sweep). Without the last one the invariant
  fails: a late close would mark a new row an orphan. The lemmas are on a table and two job
  records, free of the machine; a step is then an instance of one of them.
- `TypeCorrect`, `MoneyIsAccounted`, `OneOpenRowAlways` and the action property
  `ExclusionStands` follow. Two attempts failed for a good reason and corrected the model:
  identical resting orders had been merged (a set, now a sequence), and an add-on had read
  its row in the table before the close it follows.

**`CTraderProofs`**, for any accounts, calls, sides, ids and bounds, announced orders or not.

- `TokenChainHolds`: TInv adds to the types that a refresh under way has a pair in hand, and
  that while nothing was lost and no two refreshes overlapped the newest pair is in the row,
  or with the one refresh about to store it (`NewestIsKept`).
- EInv is the invariant of the executor: locks and slots have the calls that hold them take
  them to have (`LocksFit`), a call carries what its request needs (`Fits`), on an account
  where nothing is owed to nobody a request or its answer is all that is under way
  (`NothingStray`), what the broker says of a position stays true while it is under way,
  because ids are used once (`Truthful`), and a call misled by nobody has the answer to its
  own request in hand (`InHand`). `FailuresFit` counts the calls that dial: they may go on
  counting failures after the last one. It holds in every step of call, connection and broker.
- About volumes EInv says that ids are unique and no position is larger than it was opened
  (`IdsFit`); that no position grows, so a list shows at least what is left of each
  (`Truthful`) and a strategy's close asks for all there is when the broker meets it
  (`Decided`); and that an answer to a close, unless the broker carried out a part (`parted`),
  comes with a position that is gone, or by id smaller by the volume sent (`Shrunk`).
  `NoneGrows` and `Onward` carry that from one table of positions to the next.
- `TypesHold`, `ClosedAsAskedHolds` and the action property `AnswersHold` follow, stated of
  the composition that the run checks, for any volumes. A first attempt failed: a thread that
  called again with the same request took a late answer of its earlier call for the new one,
  and the model's tag could not tell the two. TLC confirmed it with one thread and two
  calls. A thread of the model is one call since then, and `misled` means what it says.

### Only model-checked

- Liveness (`StopActedOnWhenFair`, `EndedGetResolved`, `DueIsScannedWhenFair`): fairness
  and ENABLED are out of this prover's reach.
- `NoJobIsStuck` of the cTrader executor: it speaks of ENABLED steps.
- Enumerated questions to signals, ratings, statistics and pages (`SignalIsFair`,
  `ExplosionIsFair`, `RatingsAreFair`, `BookAddsUp`, `StatsAgree`, and `EarningsAreReal` but
  for `FillsAreOwn`): they are about finite inputs that the MC modules choose. Their
  operators fold sequences, and what a fold computes for every input needs induction with an
  operator parameter, which none of the provers at hand can instantiate. `ClosingKeepsTotal`
  also rounds: it holds for prices that divide, as those of the run do.
- The questions of one run are asked in initial states, so the theorems that state the same
  property leave those parts out by name.

## Findings

1. **close_aborts**: `get_position` is outside the `try` of a close attempt
   (`common/binance_executor.py:362` of `src/src`), so one failed request ends
   `close_position`, which "must never fail", without a retry.
2. **dropped**: the screener reads the open positions before it awaits the curves
   (`poly/fade/screener.py:138`), so a market entered meanwhile is dropped from the watch
   list with its position open, which `screener.py:225` says it avoids.

## Observations

Behaviour met while modelling that a maintainer may want to know. The models contain it
unless it says otherwise; nothing here contradicts a promise of a doc, or it is outside
what the runs check.

Engine, loop and live orders:

- `hold_bars` is not saved, so `min_hold_bars` starts anew after a restart. Missing CVD
  data, or a regime filter that fails, silences the CVD exit of a held trade too.
- The re-entry block of `spot_perp_cvd` is in memory only.
- A position may go unwatched for up to a bar when `get_state` is late.
- A restart between the market order and its TP and SL leaves the position without them
  until the next entry. A close sent by the loop may overtake the entry of the tick task,
  find nothing, and the entry follows. Between the fetch and the tick task the loop may close a
  trade, and the tick enters by a signal that was fetched while it was held; no property
  speaks of that.
- `get_state` is cached by symbol, the engine is not: a page that asks a strategy for
  another symbol in the pre-entry window ticks the one engine with that symbol's bars
  (not modelled).
- `pnl_pct_net` is not corrected by a fill (`pnl.py:5` says it is `pnl_pct` less the fee).
  An entry fill answered after the close is ignored by the row while the engine keeps it,
  so a row's result and its prices may disagree. `get_stats` shows `trades[-20:][::-1]` of
  rows that come newest first: the oldest ones. Totals cover the last 100 trades only.
- A bar that meets both levels counts as a win in `oi_cvd_surge` and as a loss in
  `spot_perp_cvd`.
- `eth_cvd_explosion`: the sibling `cvd_explosion` does not save the advance of its levels
  (`base_forward_test.py:341` says they are saved for recovery); a failed signal has no
  `level_map` and the tick raises; the base `build_state` omits a required argument of
  `build_kline_bundle`, so these engines cannot tick at this commit, nor can the kline
  bundle cache be reached.
- `us_options_gex_pin` and `deribit_gex_reversal` (not modelled): `exit_deadline_ts` is not
  part of `position_meta`, so a restart falls back to entry plus a fixed time; a pin trade
  entered on the day of its expiry is entered after that day's 20:00 deadline, because
  snapshots exist from 20:30 on.

Feed and requests: a stream that the server closes in order is reopened without a pause;
one that answers pings but sends no prices is never given up; a 429 answered after a 418
shortens the ban; bans are forgotten at a restart.

Guest passes: `purge_expired` has no caller; a link with less than a second left gives a
cookie of age 0 and raises; an extension by hand does not lengthen cookies; a pass
without limit needs a new login after 90 days; an open market stream outlives a
revocation.

cTrader: an acceptance resolves the slot, so that the fill resolves the next request;
`_disabled` is tested before the connect lock only; a burst of jobs counts one failure
each; two positions of one side can never be closed; a fill of a part counts as a close, and a
close by id without a volume sends the default lot size though the position was opened by
its notional (`ctrader_executor.py:466`, `712`, `560`), so success may leave part of the
position open; `close_position_by_id` confirms a
lost answer by the first account tried, although the position may be on a later one;
executors and the `/refresh` route can lose each other's update; the route refreshes
with the token of the environment.

Fade engine: an entry that waited for the lock may duplicate another's; the slot limit
is tested outside the lock; a cash sale followed by a close may mark the row an orphan;
orphans get no cool-down; `_sell_fail` never resets by time; the reason
"manual_force_close" exceeds its column; `latest_status` and `detect_spikes` differ on
short curves; with `stop_loss` 0 the live stop equals the entry while the study has
none; a lazy chart may overwrite a refreshed one.

Polymarket signals: live order tasks and retry jobs die on an argument `place_order`
does not have, so their rows stay "pending" and retry jobs end "failed"; a redemption
scans LC even if it is off; PH and BF rows carry no end and are never settled; two
processes may signal the same side, since lookup and insertion are two transactions; a
row without status never blocks LC (SQL `NOT IN`); two resolvers may overwrite each
other; an interrupted job stays "running"; an arbitrage whose ends differ within the
tolerance may pay nothing. `latency_portfolio` takes `resolved_wins` from another
variable; `rotation_wallet` counts failed orders; a pair at two zero prices divides by
zero; market lists that move between pages may miss a market without a label.

Value scan: on PostgreSQL `value_scan_portfolio_lock` commits or rolls back before it
unlocks (`lock.py:67-77`). The session gives its connection back then, and the unlock may run
on another one of the pool (`db/session.py:20`), where it frees nothing: the advisory lock stays
with an idle connection, and scans of other processes are refused as busy, and those of the
same process unless they get that connection, until it closes. A failure between `update_positions` and `record` buys a second lot the same
day; two processes may both pass `should_run_catchup`; scans by hand and by
the daily scanner buy whether or not the market was caught up (`CatchupOncePerDate` counts the
scheduler's only); the unlocked repairs may lose
updates; a scan across midnight marks the next date done; `load_latest_scan_result`
prefers more rows over newer ones; missing figures of one kind rate a stock SELL; a
negative debt ratio scores full points.

Drawdown: the sliding window closes episodes as recovered although the old high was not
reached, and a purchase that was recorded may be withdrawn once its high has left the window; a late catch-up marks real signals as backfilled; a crash between save and
notice loses the alert; a failed price load still marks the day as run.

Gamma wall: a daily bar collected during the session is kept for ever; one bad spot
price blocks the ledger until it is superseded; after all sessions were removed the next
run counts as the first again.

## Not modelled

See `components` in `PROJECT.json` for each part and reason. In short: indicator and
option-chain arithmetic, which the models take as data; I/O (notifications, relay
transport, websocket shards, scripts); HTML and logs; disabled strategies that share
engine and loop with those modelled; `tp_advance` of
`_execute_verify_notify` and, of its cTrader leg, all but the calls it makes; the two expiry strategies.

## Plan

Modelled, checked: all modules above. Next:

1. the fade engine's limit on open slots, which is tested outside the lock that guards
   entries: how far it can be exceeded has no property yet;
2. the expiry strategies: a deadline that a restart forgets.
