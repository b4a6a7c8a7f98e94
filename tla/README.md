# Virtual trading lab: specification and verification

This directory models the virtual trading lab in TLA+: one paper-trading account
(`src/backend/app`), the automatic orders that trade it while nobody is looking,
the live price stream that drives both, the backtest that replays the same
bookkeeping over candles, and the terminal in the browser
(`src/frontend/src/hooks`). The models are checked with TLC on small instances;
the central results are proved with TLAPS for every number of sessions, every set
of instruments, prices, charges, order sizes, candle series and calendars.

All paths below are relative to the repository root as mapped in
`PROJECT.json`; `B/` abbreviates `src/backend/app/`, `F/` `src/frontend/src/`.

## 1. The system

One process, one asyncio event loop, one PostgreSQL database. Requests, the
poll job and the WebSocket coroutines interleave at every `await`; each request
has a database session of its own, so that requests also interleave at every
row lock. There is exactly one wallet.

| component | state | operations | talks to |
| --- | --- | --- | --- |
| Trading engine, `B/trading/engine.py`, `order_manager.py`, `execution.py` | `orders`, `trades` | `place_order`; reads | wallet row (FOR UPDATE), positions (FOR UPDATE), stop-losses in the same transaction |
| Accounting, `B/trading/position_manager.py`, `pnl.py`, `portfolio.py` | `positions` | `apply_fill`, averages, profits, cash delta, affordability | called by the engine and the backtest |
| Wallet service, `B/services/wallet_service.py` | `wallets` | initialise, reset, read | shares the wallet row with the engine |
| Automatic orders, `B/automation/service.py` | `automatic_orders` | create, cancel, reconcile with a position | called by requests and, in its transaction, by the engine |
| Monitor, `B/automation/monitor.py`, `evaluator.py` | an asyncio lock, the cache of armed symbols | `on_price`: claim, execute, record; revalidation of the cache | the poll loop calls it, it calls the engine and the pool |
| Connection pool, `B/realtime/connection_manager.py` | sockets and their subscriptions | connect, disconnect, switch, unsubscribe, send, broadcast | the endpoint's coroutines and the poll loop |
| Stream endpoint, `B/api/v1/endpoints/stream.py` | one coroutine per client | greet, subscribe, unsubscribe, ping | the pool |
| Price stream, `B/realtime/price_stream.py` | the poll job, the last ticks | poll once, broadcast, hand the tick to the monitor | provider, pool, monitor |
| Execution costs, `B/trading/spread.py`, `slippage.py`, `fees.py` | none | price of a fill, its charges | called by the engine and the backtest |
| Analytics, `B/analytics/` | `portfolio_snapshots` | capture on trade, periodic capture, performance summary | reads wallet, positions, provider |
| Backtest, `B/backtest/` | a portfolio in memory, its curve, its trades | run over bars, close out, summarise | accounting and cost functions, a strategy |
| Strategies, `B/strategies/`; indicators, `B/indicators/` | none | a signal per bar; a series of averages | called by the backtest |
| Markets, `B/markets/` | none | is the market open, when does it next open and close | engine, poll loop, stream endpoint |
| Market data, `B/market_data/` | provider registry, short caches | quotes and candles of external feeds | poll loop, requests |
| Terminal, `F/hooks/`, `F/components/MarketStatusBadge.tsx` | socket, retry timer, state of the connection, last tick, account panels | reconnect, switch symbol, refresh | stream endpoint, HTTP |
| Configuration, schemas, health, migrations | settings | validation at the edge | everything |

What is hard about it, and what correctness therefore means:

- **Orders that share money.** Two orders validated against the same cash or
  position must not both settle. The wallet row's lock is what prevents it, and
  a path that gives the lock up half-way (the `IntegrityError` handler of
  `get_or_create_for_update` rolls everything back) would void it. Correct means:
  at every commit the wallet, the position rows and the order rows are the sums
  of the trades, cash is never negative, a closing order never opens anything.
- **Crossing zero, and rounding.** A fill that crosses zero closes one position
  and opens another. Averages are rounded to four decimals and profits to paise,
  so that cash and profit part by a bounded amount.
- **An order fired by a machine.** The monitor claims, executes and records in
  three commits, and users cancel and trade between any two of them. Correct
  means: it fires once, whatever fails; what it recorded is what happened; a stop
  follows its position.
- **Sends that fail while others run.** A fan-out fails for one client while that
  client's own coroutine re-subscribes it. Correct means: no corpse in the pool
  and nobody lost on another's account.
- **A cache that says what to watch.** The poll loop asks the monitor's cache
  whom to poll; requests empty it, refreshes overwrite it, the evaluation that
  fills it is triggered by polling. Correct means: an armed symbol is watched.

- **A replay that must not know the future.** The backtest decides on one bar and
  fills on the next, books with code of its own beside the live engine's, and pays
  the same costs. Correct means: no bar is read early, no signal lost, every fill is
  one the live account would have made, and equity is explained by the market less
  the itemised costs.
- **A client that reconnects, switches and asks twice.** A socket that is lost,
  retried by a timer and replaced by hand; a switch while ticks of the old
  instrument are on their way; refreshes answered in the wrong order. Correct
  means: one link, and a screen that is of the instrument selected.
- **What a clock says.** Sessions are half open, days have holidays, the exchange's
  midnight is not UTC's. Correct means: what a calendar announces is true until the
  boundary it names.

The list of hazards, each at the line where it bites, with the properties that
guard it, is in `PROJECT.json`.

## 2. The modules

    PositionAccounting          arithmetic of one account
      |-- Ledger                abstract: atomic fills of one account
      `-- TradingEngine         sessions, row locks, order placement, wallet service
            |                   (INSTANCE Ledger: the refinement)
            |-- TradingBooks        tables and performance summary as sums over the trade log
            |-- TradingEngineInv    the inductive invariant IInv
            |     `-- TradingEngineProofs   (with AccountingProofs)
            |           `-- TradingBooksProofs   (of TradingBooks)
            |-- Snapshots             the equity curve, over engine and books
            |     `-- SnapshotsProofs       (with TradingBooksProofs)
            `-- AutomaticOrders     service, evaluator and monitor, over the engine
                  |-- AutomaticOrdersInv     FiringInv, OutcomeInv, StopInv, RefusalInv
                  `-- AutomaticOrdersProofs
    ConnectionPool              pool and endpoint coroutines
      `-- PriceStream           poll loop and the monitor's cache, over the pool
            `-- PriceStreamProofs
    ExecutionCosts              spread, slippage, charges (over PositionAccounting)
      `-- Backtest              a run over candles (INSTANCE Ledger: the refinement)
            `-- BacktestProofs        of the costs, too (with AccountingProofs)
    MarketCalendar              sessions, weekends, holidays, the next bell
      `-- Terminal              the browser's hooks against the endpoint's coroutine
            `-- TerminalProofs        of the calendar, too

The `MC` modules declare the model values of the instances and their symmetries,
and `MCBacktest` the series and configurations of its runs; nothing else.
Operators marked `Fault:` stand before the definition they distort. No
specification uses them. Each is a plausible mistake in the code (a lock not
taken, a lost reset, a swapped order), and substituting it makes TLC refute the
property it is paired with in `PROJECT.json`.

### PositionAccounting

The pure functions, over integers in the code's own units: money in paise, an
average price in `AvgTicks`-ths of a paisa (the code: 100), a quantity in
`Lot`-ths of a unit (the code: 10^8). `HalfUp` is `Decimal.quantize` with
`ROUND_HALF_UP`. `ApplyFill` is `apply_fill` with its three cases (extend,
reduce, cross), `AfterFill` is `PositionManager.apply`, `CanFill` is the
validation and affordability check of a priced fill. Charges are booked on
opening fills as well as on closing ones, as in the code.

### Ledger and TradingEngine

`Ledger` is what a caller is promised: an account, fills one at a time, each a
function of the account at that instant. `TradingEngine` has the sessions.

| model | code |
| --- | --- |
| `wallet`, `positions`, `rows`, `orders`, `trades` | the committed tables; `rows` are the symbols that have a position row |
| `work[s]` | the rows a session has read, its uncommitted writes |
| `walletLock`, `positionLock` | who holds the rows FOR UPDATE, or is inserting a position row |
| `nextId` | the sequence of `orders.id`, which a rollback does not return |
| `Submit` | a request past the checks that need no row (instrument, quantity, market hours) |
| `WalletMissing` | `WalletNotFoundError` |
| `LockWallet`, `LockPosition`, `MissPosition`, `InsertPosition` | the statements of `place_order` at which another session can intervene |
| `Settle`, `Reject` | the order row, the price and charges (chosen from sets), validation, the new rows |
| `CommitFill`, `CommitRejection` | COMMIT; a rejection also commits the position row its transaction inserted |
| `FindNoWallet`, `InsertWallet`, `AdoptWallet`, `ResetWallet` | the wallet service, the race of two first requests included |
| `Abort` | any exception or lost connection, at any point: `get_session` rolls back |

The snapshot a fill takes is written in the same transaction and read by nobody
here; it is in `Snapshots`. `wallet.resets`, the epoch
in a trade row and the `closed` of a trade are auxiliary.

`TradingBooks` holds what the tables say about one another: cash is the opening
balance plus the cash of the trades since the last reset, a position row is the
sum of its trades, FILLED orders and trades correspond one to one, and cash
against profit drifts by rounding only. `Totals`, `Outcomes` and `OrderCounts` are the
counts and totals of `PerformanceAnalyzer` (`B/analytics/performance.py`), read between
two commits; they, too, have to agree with the rows that other transactions wrote. Its
ratios, averages and extremes are left out.

### AutomaticOrders

The service, the evaluator and the monitor, composed with the engine: the
monitor trades through a session of the engine's, `Robot`. A client's stop-loss
is two steps (`CheckStopLoss` reads the position without a lock,
`InsertStopLoss` inserts the row); `SettleAndReconcile` and `Realign` are
`reconcile_for_position` inside a fill's transaction: the rows are locked with
the settlement and written with the commit. `Claim`, then `Fire` with the
engine's own steps, then `Record` are the monitor's three commits, and
`MonitorFails` may come between any two. `RefusedAtDoor` is a closed market;
`RobotHasNoWallet` is the exception that `_execute` does not catch. A tick that
finds the monitor's lock taken is dropped: `Tick` needs an idle monitor.
`history` is auxiliary: the orders placed for an automatic order, whether it was
inserted on a stale read (`raced`), whether its symbol was traded between its
claim and its order (`outrun`).

### Snapshots

`curve` is the table of portfolio snapshots. A fill is stamped when it settles
and its row commits with it (`SettleAndStamp`, `CommitAndCapture`; the setting
SNAPSHOT_ON_TRADE is on). The other captures are made of their statements:
`StartPeriodic` reads the positions, `Quote` awaits their prices, any of which may
be missing, `ReadWallet` and `ReadPositions` are the reads of `capture`, where the
session shows new rows but not what has become of the rows it had loaded. Of the
periodic job there is one at a time (`max_instances=1`); a request (`StartManual`) comes
with one mark or none, in a session of its own, beside the job and beside other
requests. The job then looks for the latest row and gives up when its own is like it
(`Compare`), and otherwise commits (`Save`): between the two, as between its stamp and
the comparison, others commit theirs. `capturing` holds the capture each task has under
way. Its `overtaken` (a fill or a reset has committed since it began) and `found` (the
stamp of the row it was compared with) are auxiliary. `captured_at` is
abstracted to the order of the stamps (`Now`). `EquityIsExplained` bounds what parts a
point's total from its profit: what each fill has rounded (`Rounding`) and, for every
position held, the rounding of its marked value (`MarkError`).

### ConnectionPool and PriceStream

A step is the code between two awaits. `ConnectionPool` has the handshake with
the limit checked before it (`Admit`) and the socket added after it (`Join`), the
endpoint's coroutine phase by phase, and fan-outs whose sends end one by one, in
any order, while any coroutine moves. A dead client (`Die`) is noticed by a
failed send or at the next receive, and a send to it may also seem to work.
`Encodable` says what `json.dumps` accepts: the frames of automatic orders carry
`Decimal`s and fail.

`PriceStream` adds the POLL mode: the job that starts with the first client, one
pass over the symbols wanted, fetch, fan-out, `on_price`, fan-out of the event.
Of the orders it keeps how many are ACTIVE per symbol; what a firing does to the
account is `AutomaticOrders`. `refresh_armed_symbols` is two steps, the query and
the assignment, because the session is closed between them. The initial states
are restarts: the process knows nothing, the table may hold armed orders.

### ExecutionCosts

Rates are integers in `Unit`-ths, so that the default settings are exact at
`Unit = 10^7`. `Quoted` is the half-spread, `Slipped` the slippage, each rounded to
paise; `EquityCharges` and `CryptoCharges` are the two fee schedules line by line,
with what is rounded to the rupee rounded to the rupee; `PriceFill` is
`ExecutionEngine.price_fill`, the record of a fill with its itemised costs. The
account engine (`TradingEngine`) goes on choosing prices and charges from sets, which
allows more; `FillIsAdverse` and `ChargesNonNegative` say that what `PriceFill` yields
is a price and charges such as those sets hold.

### Backtest

| model | code |
| --- | --- |
| `Begin` | `BacktestEngine.run` up to its loop, the empty series included |
| `OnBar` | one turn of the loop: mark, ask the strategy, size, price, settle (`_execute`, `_settle`) |
| `CloseOut`, `KeepOpen` | `close_at_end`, `_close_out`, and the last point marked again |
| `Summarise` | `summarise` and `max_drawdown`; the percentages and ratios made of their figures are left out |
| `Settled` | `BacktestPortfolio.apply` under its handler: an order that cannot be paid for only counts |
| `Sma`, `Known`, `HasIndicator` | the moving average with its warm-up, and what `StrategyContext` has of it |
| `Signal`, `OrderSide` | `ma_crossover.on_bar`, and the side its signal asks for |
| `TargetSize`, `OrderQuantity` | `PositionSizer`, and from the position held to the one wanted |

A run is sequential; what is checked is a long computation, against definitions
that are not the code's: crosses of unrounded averages, equity as the sum of what
the market did to each trade less its costs, drawdown as a maximum over pairs, and
the live `Ledger` for the books (`FillsAsLive`).

### MarketCalendar and Terminal

`MarketCalendar` is `calendar.py`: instants are integers in UTC, the exchange's time
zone is a fixed offset, day 0 is a Monday. `NextBell` is the bounded search of
`next_open` and `next_close`, `Status` the reasons in the order they are given,
`Session` what the endpoint sends.

`Terminal` has the browser and, for each of its sockets, the server's coroutine.

| model | code |
| --- | --- |
| `Connect`, `DialRefused`, `Opened`, `Receive`, `Lost`, `RetryDue`, `Reconnect` | `useLivePrice`: `connect`, its `catch`, `onopen`, `onmessage`, `onclose`, the timer, the button |
| `hooked` of a socket | whether its `onclose` is still the hook's |
| `Refresh`, `AnswerLatest`, `AnswerOlder` | `useAccount`: requests without numbers, answers in any order, failures |
| `Mount`, `Unmount`, `Switch` | the effects of both hooks and of the selector |
| `Greet`, `ServeSubscribe`, `Confirm` | `_switch_symbol` before and after its await, the replay of the last tick included |
| `Target`, `Send` | a fan-out that has taken the socket for a target, and its send |
| `Elapse` | time |

`history` is auxiliary: whether an older answer overtook the latest, whether the
price shown is one that a switch found with the socket down.

## 3. What the runs check

Passing runs. Sizes are distinct states.

| run | instance | states | what it shows |
| --- | --- | --- | --- |
| `engine` | 2 sessions, 2 instruments, 3 orders, 1 reset, sizes and prices 1..2 | 564 000 | serialisation, the schema's CHECKs, closing orders close, the tables are sums of the trades (`BooksMatchTrades`), drift is rounding |
| `automatic` | a user, the monitor, a client; 3 orders, 1 automatic order, failures | 846 000 | true records, stops that fit, fates that stay, and the composition implements `TradingEngine`'s own specification |
| `automation_liveness` | 2 automatic orders, 2 orders, failures | 136 000 | nobody waits for ever: every request and every evaluation ends, whoever holds the locks; once-only firing with two orders that match the same tick; the account moves by steps of `Ledger` only |
| `snapshots` | 1 session, 1 instrument, 2 orders, the periodic job and one request at once, started up to stamp 3, a reset, half units | 1 563 000 | every fill has its point and the point is the account it left; equity is explained by profit; an idle account adds nothing but what manual captures of the same moment excuse |
| `pool` | 2 clients, a pool of 1, 2 instruments | 876 000 | no corpses, live clients stay, the overshoot of the limit is the handshakes under way, ticks follow switches |
| `stream` | 1 client, 1 request, 1 order, 2 instruments, outages | 198 000 | the cache lacks an armed symbol for two reasons only; armed symbols are evaluated while somebody listens, outages notwithstanding; an idle server stops polling; fan-outs end |
| `backtest` | every series of 7 bars over two prices, gapped or not, and no bars; 36 configurations | 101 000 | no look-ahead and no missed cross; equity is market less costs; sizes fit the budget; the report is of the run; fills are the live ledger's |
| `terminal` | 2 sockets, 2 instruments (one continuous), a calendar with a holiday, instants 0..8 | 860 000 | one link, unless the browser refuses it, and a header that says so; server, price and panels follow the selection; the badge is right to its boundary |

Runs that find the code and its documentation apart. Each checks one sentence of
the repository:

| run | sentence | what happens |
| --- | --- | --- |
| `stop_matches` | "position and its stop-losses can never disagree, even for a moment" (`service.py`) | a stop is validated, a fill commits, the stop is inserted: larger than the position, or facing the wrong way, until the symbol's next fill |
| `dropped_alive` | "any failure means it is gone" (`connection_manager.py`) | an automatic-order frame cannot be encoded, so each live client that was to receive it is dropped |
| `watched_regardless` | "keeps being polled regardless of who is watching" (`price_stream.py`) | creating an order empties the cache, an empty cache with no listener polls nothing, and only polling refills the cache |
| `snapshot_prices` | "the equity curve can never record a state that never existed" (`engine.py`) | the point of a fill counts every other open position as zero |

Other divergences are in the shape of the passing properties: `DriftIsRounding`
bounds what a test (`test_realistic_execution.py`, "cash must equal opening +
net") takes for equal; `OvershootIsHandshakes` bounds by how much the pool
outgrows the limit that `connect` documents; `TicksFollowSwitches` excepts a client
that has unsubscribed ("stop watching X", `stream.py`), because the empty set it is
left with means every symbol; `CacheLacksOnlyTheUntold` names the
refresh that overwrites an invalidation, which makes the next tick miss an order
(`service.py`, "so the next tick sees this order"); `RecordedOutcomeIsTrue`
admits an order that stays TRIGGERED with neither order nor reason, where
`monitor.py` says that failures land in FAILED; `ReportMatchesRun` admits a run
that was to close at the end and did not, when what was left of the account could not
pay for it, which takes a short position, or a long one that costs more to sell than it
brings; `PriceIsOfSelection` excepts the price that stays on screen
when the instrument is switched while the socket is down, and
`PanelsFollowSelection` an older refresh whose answer comes last;
`IdleCurveDoesNotGrow` excuses a periodic point that is like the one before it
("so an idle account does not accumulate duplicates", `snapshots.py`) where a manual
capture came between the job's stamp and its comparison, or took its own stamp first and
committed later (`OutOfTurn`); `OneLink` excepts a terminal
that the browser refused a socket: it says "Offline" and, unlike after a loss, arms no
retry, so that only the user's click on the badge or a new mount brings it back;
`BadgeHoldsUntilItsBoundary` ends where the badge stops being true, since it prefers
the last subscription frame, however old, to what it polls; and a rejected first order leaves
a position row, so that `list_positions` returns an instrument that never traded.

### Bounds

`MaxOrders`, `MaxResets`, `MaxAutos`, `Watchable`, `Outstanding`,
`TriggerSides`, `MaxStamps`, `Last`, `MaxSent` and `MaxFrames` are bounds and are named so where
they are declared. Two sessions
are enough for every race the locks guard against: a lost update, a lock-order
inversion and an insert conflict each need two. Three orders open, extend or
reverse, and close a position, with an average that does not come out even at
the code's `AvgTicks = 100`; sizes 1 and 2 are what a partial exit and a reversal need. A
balance of 6 affords some of these orders and refuses others, so that rejections
happen with money and for position. One automatic order meets every interleaving
of its own life; two are what a shared tick and a shared lock need, in
`automation_liveness`. That one stop's exit clamps or retires the others of its position
(`StopFitsUnlessRaced`) is checked with one stop against the user's fills; with several
stops it rests on the theorem `StopsFit`. Two clients on a pool of one make the limit
matter. `Revalidate = 2` has evaluations with and without a revalidation. In `snapshots` a
capture may start as long as the next stamp is at most `MaxStamps` = 3: enough for a periodic point to follow
another periodic one, a fill's and a manual one, to be overtaken by fills, and for the
request to commit between the job's stamp and its comparison, and before or after its
commit. `Lot = 2` makes a unit half a share, so that values and averages round. What
follows a reset is explored through one order and two stamps (`SmallIfReset`, the one
state constraint of the project); several requests, several instruments and longer
histories with a reset are left to the proofs of section 4. In `stream` the client keeps
to one symbol, so that the other is watched for its order alone, and one
order keeps the run small enough for its three liveness properties.

Seven bars, with averages over 2 and 3, hold a cross each way and a fill after each,
and crosses on the first and the last bar that decides; the two prices and the
exaggerated rates round in every charge and make an all-in reversal unaffordable.
`Lot = 2` gives a coin a half, so that sizes round down. The configurations take each
timing, each sizing and shorting with and without, on three instruments: a share
intraday that closes at the end, a share for delivery that does not, a coin. In
`terminal` two sockets are the one in use and the one being dialled; instants 0..8
at three to a day hold the end of a Monday, a holiday and trading days, but no weekend,
which is left to `SessionHolds` (section 4); two subscribe messages can
overlap and one frame keeps the client behind the server. A full channel only delays
its sender. `TerminalProofs` needs none of these bounds to be small.

The two runs with liveness check no symmetry. `CHECK_DEADLOCK` is on but in
`backtest`, whose run ends: elsewhere a server with nothing to do waits (`Waiting`),
and nothing else may stop.

`AutoTypeOK` and `TerminalTypeOK` are proved and not run; `PoolTypeOK` is a
conjunct of `StreamTypeOK`.

### Fairness

`FairAutoSpec`: a session that runs is scheduled (weak fairness of its steps);
PostgreSQL queues the waiters of a row lock, so one that keeps being able to take
it does take it (strong fairness of `LockWallet`); the monitor's task is
scheduled. No request, tick, failure or cancel is obliged to happen.

`FairStreamSpec`: the event loop runs what is ready; the scheduler keeps calling
the poll job; a send ends, since the transport fails one it cannot finish; a
request that has committed goes on to invalidate the cache; and, among symbols
visited again and again, each is eventually fetched, and its evaluation's query
eventually answered. These two are strong fairness: outages strike in the run, but one
that struck each time the same symbol was due would starve that symbol, which the
code does not claim to survive.

Nothing else assumes fairness; `Terminal` and `Backtest` are checked for safety only.

## 4. What is proved

The constants carry only the named assumptions of the modules: prices and sizes
are positive, charges are natural numbers, sessions are a finite set, scales are
positive; rates are at most the whole of what they are a rate of; a slow average has
the longer period; the bells of a day lie within it. The number of sessions,
instruments, orders, resets, bars, sockets, messages and days is arbitrary.

`AccountingProofs` has the facts about the arithmetic: rounding half up of a
positive average stays positive, so an open position keeps an entry price; what
`ApplyFill` closes and opens add up to the fill; an affordable fill leaves cash at
or above zero; a closing order that passed validation closes in full.

`TradingEngineProofs` proves `Spec => []IInv`, where `IInv`
(`TradingEngineInv`) strengthens the checked properties, none of which is
inductive by itself, with

- `LockInv`: a session is between its wallet lock and its commit exactly when it
  holds the wallet row, and holders of position rows are such sessions;
- `ReadInv`: what such a session read is what is committed, which is what the
  lock is for;
- `SettledInv`: what a settled session will commit is a fill of the *committed*
  account at some price and charges. This carries the refinement: the commit is
  the ledger's step;
- `IdInv` and `RowInv`: ids are handed out in order, rows satisfy the CHECKs.

From it follow `TypeOK`, `OneTraderAtATime`, `NoInsertConflict` (the rollback path of
`get_or_create_for_update` is unreachable; proved only), `CashNonNegative`, `EntryPriceMatchesQuantity`, `CloseOnlyNeverOpens`, and
`ImplementsLedger`: `Spec => LedgerSpec`, by showing that a commit maps to `Fill`,
the wallet service's steps to `Open` and `Reset`, and all else to a stutter.

`AutomaticOrdersProofs` proves that automatic trading implements the engine's
specification (`UsesEngine`: every step of `AutoNext` is a step of `Next` or
leaves the engine alone), from which all of the above, the ledger included,
carries over; and `FiresAtMostOnce` by the invariant `FiringInv`: a claim takes an
order out of ACTIVE for good, the monitor's session works for that claim only,
and the rows a reconciliation has locked cannot be claimed or cancelled. What a step
does to a row (`RowStep`) then gives the action properties `FatesAreFinal` and
`OutlivesFills`. Three further invariants (`AutomaticOrdersInv`) carry the rest:

- `OutcomeInv`, for `RecordedOutcomeIsTrue`: the monitor's session asks for exactly the
  claim's terms; the order it commits is of those terms, under an id no other session
  has or will have; and the answer the monitor carries to its own commit, two
  transactions after the claim, agrees with the row.
- `StopInv`, for `StopFitsUnlessRaced`: a session about to commit a fill holds every
  ACTIVE stop of its symbol, except the raced ones. So its commit realigns them all,
  and no other position moves.
- `RefusalInv`, for `StopRefusedOnlyIfOutrun`: a claim that nobody has disturbed still
  fits, from the claim to the engine's verdict, and the position that verdict is based
  on is the committed one.

`TradingBooksProofs` proves that the books add up (`BooksAddUp`). `BooksInv` is
inductive together with `IInv`: it adds that the trade log is a finite set of rows, each
under the id of its order and of no later reset, and that an order not yet decided has
neither row nor trade. A commit is one more member of each
sum (`CommitFacts`), and `ReadInv` is what makes the row it replaces the committed one,
so that no debit is lost. `OnlyRoundingDrifts` then bounds, for every scale, how far
cash and profit part: `Drift` moves at a commit by `Unexplained` alone, which for a fill
that opens, closes or crosses zero is at most its `Rounding`.

The sums are `SumFunction` of the community modules, a fold whose definition takes the
members of a finite set in an order of `CHOOSE`. `AccountingProofs` shows what it is
for every set: empty, one member more, one member changed, term by term. They are
proved without the induction theorems, which take an operator as a parameter: the set
of sizes for which the claim fails would have a smallest member (`SmallestMember`).

`SnapshotsProofs` proves that captures only look (`SnapSpec => Spec`), and everything
the run `snapshots` checks. `SnapInv` strengthens it with

- `StampInv`: stamps in use are distinct, those of fills not yet committed included;
- `CaptureInv`: each task is in one of its own phases (`TaskOK`), and what a capture that
  nothing overtook holds is the committed account (`Holds`), under a stamp of its own;
- `OrderInv`: the points of fills are numbered by orders that have traded;
- `FoundInv`: the row a periodic point was compared with is there, and none but a manual
  one can be stamped after the point (`Compared`), committed or waiting to be saved; and
  what waits to be saved repeats no row before it (`Repeats`) that does not excuse it
  (`Excused`), though manual ones go on being committed beside it;
- `IdleInv`: a periodic point stamped after a fill that is still to commit shows the
  account as it is before that fill.

`FillsAreOnTheCurve` needs `BooksInv` besides, since a point reads sums; and
`ProfitExplainsEquity` the drift bound, whose cost term is compared with the marked
value of each position. `IdleAccountsAddNothing` has a condition that the run cannot
show: `FillsShow`, that every fill moves cash or costs something. It holds for whole
units, and whenever no fill is free (`WholeUnitsShow`). A fraction of a coin worth less
than half a paisa and charged nothing does neither, and then a periodic point can repeat
the one before the fill and its reversal: with `Lot = 4`, a price of 1, free fills and
sizes of 1 and 4 the property is false.

`PriceStreamProofs` proves what the runs `pool` and `stream` check but for liveness,
for any number of clients, symbols and requests. The limit needs room counted ahead:
`RoomInv` counts whoever was admitted with those already in. The rest is `SocketInv`,
what the two dictionaries hold for one client whatever becomes of the others: a socket
in the pool has an entry, only a served client has one, the frame that announces a
switch agrees with the table, and a frame still owed is one the client wants unless it
switched since. An action for one client keeps the others' `SocketInv` (`OthersKept`)
and its own (`TouchedKept`). `CacheInv` says of what a refresh has read, and not yet
assigned, what `CacheLacksOnlyTheUntold` says of the cache. `StreamFeedsThePool` is
`StreamSpec => PoolSpec`, so that the pool's theorems hold while the poll loop runs.

`BacktestProofs` first proves of the costs that no schedule charges a negative amount and that a
fill is never better than the price it was asked at (`FillIsAdverse`): rounding half
up keeps to the side of a whole number, so the move against the trader survives it.

It then proves, for every series and configuration, `BacktestTypeOK` (by
`BInv`, which adds what holds before the first bar), in particular that no fill leaves
a debt, and `FillsAsLive`: each step of a backtest is a step of the live `Ledger` or
leaves it alone. The heart is `SettledIsLive`: the order a signal turns into is one the
live engine would accept from the same account (`OrderQuantity` never sells more than
is held), what is unaffordable leaves no trace, and the books after it are the same.

The other four properties of the run are proved along a chain of invariants, each
inductive with the ones before it:

- `RunInv`, for `CurveIsExplained`: the portfolio is `Sound` (its trades are typed, its
  cash and its book are explained by them to the last rounding, each trade records the
  account it left), no trade is of a bar to come, and each point of the curve is
  explained. A later trade is not seen by an earlier point (`LaterTradeUnseen`), and a
  fill that opens, turns or closes moves the market's share and the books alike
  (`TurnExplainsProfit`).
- `SizeInv`, for `PositionsFitTheBudget`: each trade was sized out of the equity that the
  one before it left; a division rounded down is the largest multiple that fits.
- `ReportInv`, for `ReportIsOfTheRun`: the curve's last point is the account as it was
  left, and the report is the summary of the run. The fold behind `MaxDrawdown` is
  characterised by its peak and its worst fall so far (`Walked`), extended point by point
  (`WalksUp`); a position left over could not be closed for want of cash
  (`UnpaidClosing`).
- `CrossInv`, for `CrossesAreTraded`: every trade answers a cross of the bar before it,
  and every cross decided upon is heeded by the account or by the point after it.

`CrossesAreTraded` has a condition as well, `CrossesShow`: the crosses of the property
are those of exact averages, the code's those of averages rounded to four decimals, and
rounding must not make two different averages equal. It suffices that some number of
ticks up to a paisa (`AvgTicks`) is a multiple of both periods, and that the fast one is
at least 2 (TA-Lib refuses 1). The defaults, 10 and 30 with 100 ticks, satisfy it, and so
does the run; periods such as 50 and 200 do not, and the theorem says nothing of them.

`TerminalProofs` first proves the calendar outright: instants are ordered by day and
clock, the bell found is the first (`NextBellIsFirst`), `trading_status` and
`is_market_open` agree, an open market stays open until its close and a closed one
closed until its open, and so what a session record says is true until the boundary it
names (`SessionHolds`).

It then proves all that the run `terminal` checks, for any number of sockets,
messages and instants. `OneLink` is strengthened by which sockets are hooked (`LinkInv`);
a dial leaves one socket that is not open yet, or none and "offline" (`ConnectLinks`);
`ServerFollowsSelection` by where the latest selection is (`FollowInv`): the last
subscribe on its way to the server, or the switch not yet confirmed, or the last
confirmation on its way back, or what is on screen; `PanelsFollowSelection` by what the
latest answer was for (`PanelInv`); `BadgeHoldsUntilItsBoundary` by the truth of every
frame on its way (`MarketInv`), where `SessionHolds` is used.

Every safety property of a passing run is thus a theorem. What is only model-checked is
liveness (`NobodyWaitsForEver`, `WatchedWhileListening`, `IdleServerStops`,
`BroadcastEnds`), since TLAPS does not reason about fairness and ENABLED here. Where
`FillsShow` or `CrossesShow` fails, nothing is claimed.

## 5. Abstractions

- Prices and charges of a fill are any of a set. The properties must hold for all
  of them, so nothing is lost but the exact costs.
- The reference price of a new stop-loss only refuses more creations; a caller
  without one is the general case.
- `READ COMMITTED` is modelled by reads of the committed tables plus row locks.
  The statements of one session between two waits are one step where no other
  session can see or influence anything between them.
- A cancel and a wallet reset are single steps: they take one row lock, decide and
  commit.
- Symbols of a poll are visited in any order (the code: alphabetically), which
  allows more.
- Error frames are routed as ticks are and are modelled as such.
- A time zone is a fixed offset (India has no daylight saving). A bar of a backtest is
  its open and its close: nothing in a run reads the rest.
- TA-Lib's averages are exact rationals rounded to `AvgTicks`; a period of one, which it
  refuses, never warms up. Candles have distinct timestamps.
- The user's click and the effects React runs for it are one step. `StrictMode`'s second
  mount, in development only, is taken for `Unmount` and `Mount`, which reset the state of
  the component; React keeps it there.
- `new WebSocket` may throw at any dial (`DialRefused`); the code does not say when.
- How long a retry waits, and that its delay grows, are left out.
- A socket of `Terminal` ends with its client's place in the pool. That the pool may drop
  a client whose socket lives on is the run `dropped_alive`.
- Wording, ids other than the order sequence, timestamps and logging are left out.

## 6. Not modelled

PUSH mode of the stream, which only the mock provider supports, and shutdown
(`disconnect_all`); `subscribe` of the pool, which the endpoint never calls; how
long a send takes, so that one slow reader delays a whole fan-out and the poll behind
it; the reference price of a new stop-loss, which is the default instrument's last
tick whichever symbol the stop is for; the feeds behind the providers and the
providers' caches; indicators that are only charted; percentages and ratios of a
backtest's report; the badge's REST poll, the loading flags and the revaluation of the
account view at the streamed price; HTTP schemas, configuration, migrations;
presentation. Each component's status and reason is in `PROJECT.json`.

## 7. Plan

Done, in the order of importance: `PositionAccounting`, `Ledger`, `TradingEngine`,
`TradingBooks`, `AutomaticOrders`, `ConnectionPool`, `PriceStream`, `Snapshots`,
`ExecutionCosts`, `Backtest`, `MarketCalendar`, `Terminal`, and the proofs of section 4, which
reach every safety property of the passing runs.
Left, most useful first:

1. The market-data registry with its expiring caches and the fallback between
   providers (`B/market_data/`).
2. `Terminal` over `ConnectionPool` instead of a coroutine of its own, so that a client
   dropped while its socket lives shows as a screen that stops.
3. The market's hours in `TradingEngine`, where a closed market is a refusal at the door.
