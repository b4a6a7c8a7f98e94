------------------------------- MODULE Backtest -------------------------------
(***************************************************************************)
(* One run of the backtest engine: backtest/engine.py over                 *)
(* backtest/portfolio.py, the moving-average crossover                     *)
(* (strategies/ma_crossover.py, the one registered strategy) and the       *)
(* metrics of backtest/results.py.  Fills are priced by ExecutionCosts and *)
(* booked by PositionAccounting, as the live engine's are.                 *)
(*                                                                         *)
(* Bars are numbered from 1 (the code's index + 1).  A bar is known here   *)
(* by its open and its close: nothing in a run reads its high, low or      *)
(* volume, and its timestamp only identifies it.                           *)
(***************************************************************************)
EXTENDS ExecutionCosts, SequencesExt

CONSTANTS Series,  \* the candle series a run may be given
          Configs, \* what it may be asked for: BacktestConfig and the instrument
          Capital, \* initial_capital
          Fast,    \* the periods of the two averages
          Slow

Bar == [open: Nat \ {0}, close: Nat \ {0}]

\* size is the fixed quantity, the fixed value or the percentage of equity.
Config == [timing: {"NEXT_OPEN", "CURRENT_CLOSE"},
           sizing: {"FIXED_QUANTITY", "FIXED_VALUE", "PERCENT_OF_EQUITY"},
           size: Nat, closeAtEnd: BOOLEAN, allowShort: BOOLEAN,
           class: AssetClass, schedule: Schedule]

ASSUME RunAssumption ==
    /\ Series \subseteq Seq(Bar) /\ Configs \subseteq Config
    /\ Capital \in Nat \ {0} /\ Fast \in Nat \ {0} /\ Slow \in Nat /\ Fast < Slow

VARIABLES config, candles,
          phase,     \* "new", "bars", "sums" (the metrics are next), "done"
          bar,       \* the bar to be marked next
          portfolio, \* BacktestPortfolio without its curve
          curve,     \* equity_curve
          report     \* BacktestResult, {} until there is one

vars == <<config, candles, phase, bar, portfolio, curve, report>>

Bars == Len(candles)

-----------------------------------------------------------------------------
(* portfolio.py *)

Equity(p, price) == p.cash + HalfUp(p.book.quantity * price, Lot)

\* unrealized_pnl: zero when flat, as the average is not then an entry price.
Unrealized(p, price) ==
    IF p.book.quantity = 0 THEN 0
    ELSE HalfUp((price * AvgTicks - p.book.average) * p.book.quantity, AvgTicks * Lot)

\* The curve point record_equity appends.
Point(p, at) ==
    LET mark == candles[at].close
    IN  [bar |-> at, mark |-> mark, cash |-> p.cash, position |-> p.book.quantity,
         total |-> Equity(p, mark), net |-> p.book.net + Unrealized(p, mark)]

\* Fault: an order the account cannot pay for is filled all the same.
SettledOnCredit(p, at, fill) ==
    LET outcome == ApplyFill(p.book.quantity, p.book.average,
                             Direction(fill.side) * fill.quantity, fill.price)
        delta   == CashDelta(fill.side, fill.quantity, fill.price, fill.charges)
    IN  [cash |-> p.cash + delta,
         book |-> AfterFill(p.book, fill.side, fill.quantity, fill.price, fill.charges),
         trades |-> Append(p.trades, [fill |-> fill, bar |-> at, gross |-> outcome.realized,
                                      closed |-> outcome.closed, position |-> outcome.quantity,
                                      cash |-> p.cash + delta]),
         rejected |-> p.rejected]

\* apply, under _settle's handler: what cannot be paid for only counts.
Settled(p, at, fill) ==
    LET outcome == ApplyFill(p.book.quantity, p.book.average,
                             Direction(fill.side) * fill.quantity, fill.price)
        delta   == CashDelta(fill.side, fill.quantity, fill.price, fill.charges)
    IN  IF ~Affordable(p.cash, delta) THEN [p EXCEPT !.rejected = @ + 1]
        ELSE [cash |-> p.cash + delta,
              book |-> AfterFill(p.book, fill.side, fill.quantity, fill.price, fill.charges),
              trades |-> Append(p.trades,
                  [fill |-> fill, bar |-> at, gross |-> outcome.realized,
                   closed |-> outcome.closed, position |-> outcome.quantity,
                   cash |-> p.cash + delta]),
              rejected |-> p.rejected]

-----------------------------------------------------------------------------
(* indicators/library.py sma, and the rule of ma_crossover.py *)

\* Whether the average has warmed up: before that _precompute leaves None, and
\* TA-Lib refuses a period of one, which leaves nothing but None.
Known(period, at) == period >= 2 /\ at >= period

\* Fault: the series is shifted left by one when it is aligned with the bars.
SmaOfNextBar(period, at) ==
    LET last == Lesser(at + 1, Bars)
    IN  HalfUp(AvgTicks * SumFunction([k \in last - period + 1 .. last |-> candles[k].close]),
               period)

\* In AvgTicks-ths of a paisa, the four decimals of to_decimal.
Sma(period, at) ==
    HalfUp(AvgTicks * SumFunction([k \in at - period + 1 .. at |-> candles[k].close]), period)

\* context.indicator: nothing before the first bar, nothing before the warm-up.
HasIndicator(period, at, offset) == at > offset /\ Known(period, at - offset)

CrossedUp(at) == Sma(Fast, at - 1) <= Sma(Slow, at - 1) /\ Sma(Fast, at) > Sma(Slow, at)
CrossedDown(at) == Sma(Fast, at - 1) >= Sma(Slow, at - 1) /\ Sma(Fast, at) < Sma(Slow, at)

\* on_bar
Signal(at, position) ==
    LET warm == \A offset \in {0, 1} : /\ HasIndicator(Fast, at, offset)
                                       /\ HasIndicator(Slow, at, offset)
    IN  CASE warm /\ CrossedUp(at) /\ position <= 0 -> "BUY"
          [] warm /\ CrossedDown(at) /\ position >= 0 /\ config.allowShort -> "SHORT"
          [] warm /\ CrossedDown(at) /\ position > 0 /\ ~config.allowShort -> "SELL"
          [] OTHER -> "HOLD"

\* order_side: no order for a signal that is not actionable.
OrderSide(signal) ==
    CASE signal = "BUY" -> "BUY"          [] signal = "SELL" -> "SELL"
      [] signal = "SHORT" -> "SHORT_SELL" [] signal = "COVER" -> "BUY_TO_COVER"
      [] signal = "HOLD" -> "NONE"

-----------------------------------------------------------------------------
(* engine.py: sizing and the price to trade at *)

Greater(m, n) == IF m >= n THEN m ELSE n

\* quantity_step: whole shares, or the finest fraction of a coin.
Step == IF config.class = "STOCK" THEN Lot ELSE 1

\* Fault: the size is rounded up to the next tradable increment.
TargetSizeRoundedUp(equity, price) ==
    LET size == CASE config.sizing = "FIXED_QUANTITY" -> config.size
                  [] config.sizing = "FIXED_VALUE" -> (config.size * Lot) \div price
                  [] config.sizing = "PERCENT_OF_EQUITY" ->
                         (equity * config.size * Lot) \div (100 * price)
    IN  Greater(Step * ((size + Step) \div Step), 0)

\* PositionSizer.target_size, rounded down to the step.
TargetSize(equity, price) ==
    LET size == CASE config.sizing = "FIXED_QUANTITY" -> config.size
                  [] config.sizing = "FIXED_VALUE" -> (config.size * Lot) \div price
                  [] config.sizing = "PERCENT_OF_EQUITY" ->
                         (equity * config.size * Lot) \div (100 * price)
    IN  Greater(Step * (size \div Step), 0)

\* Fault: closing a long sells the size of a new position.
OrderQuantitySellingTarget(side, p, price) ==
    LET held == p.book.quantity
    IN  CASE side = "BUY" -> Greater(TargetSize(Equity(p, price), price) - held, 0)
          [] side = "SHORT_SELL" -> Greater(TargetSize(Equity(p, price), price) + held, 0)
          [] side = "SELL" -> TargetSize(Equity(p, price), price)
          [] side = "BUY_TO_COVER" -> Greater(-held, 0)

\* _order_quantity: from the position held to the one wanted, in one order.
OrderQuantity(side, p, price) ==
    LET held == p.book.quantity
    IN  CASE side = "BUY" -> Greater(TargetSize(Equity(p, price), price) - held, 0)
          [] side = "SHORT_SELL" -> Greater(TargetSize(Equity(p, price), price) + held, 0)
          [] side = "SELL" -> Greater(held, 0)
          [] side = "BUY_TO_COVER" -> Greater(-held, 0)

ReferencePrice(at) ==
    IF config.timing = "CURRENT_CLOSE" THEN candles[at].close ELSE candles[at + 1].open

Priced(side, quantity, reference) ==
    PriceFill(config.schedule, config.class, side, quantity, reference)

-----------------------------------------------------------------------------
(* results.py *)

\* max_drawdown: one walk along the curve with its running high.

\* Fault: the fall is measured from the first point.
MaxDrawdownFromStart(points) ==
    IF points = <<>> THEN 0 ELSE
    FoldLeft(LAMBDA seen, point : [seen EXCEPT !.worst = Greater(@, seen.peak - point.total)],
             [peak |-> points[1].total, worst |-> 0], points).worst

MaxDrawdown(points) ==
    IF points = <<>> THEN 0
    ELSE FoldLeft(LAMBDA seen, point :
                      IF point.total > seen.peak THEN [seen EXCEPT !.peak = point.total]
                      ELSE [seen EXCEPT !.worst = Greater(@, seen.peak - point.total)],
                  [peak |-> points[1].total, worst |-> 0], points).worst

TradeNet(trade) == trade.gross - trade.fill.charges

\* summarise: the figures the ratios of a result are made of.
Summary ==
    LET net     == [k \in DOMAIN portfolio.trades |-> TradeNet(portfolio.trades[k])]
        closing == {k \in DOMAIN net : portfolio.trades[k].closed > 0}
        wins    == {k \in closing : net[k] > 0}
        losses  == {k \in closing : net[k] < 0}
        final   == IF curve = <<>> THEN Capital ELSE Last(curve).total
    IN  [return |-> final - Capital, net |-> SumFunction(net),
         closing |-> Cardinality(closing),
         wins |-> Cardinality(wins), losses |-> Cardinality(losses),
         grossProfit |-> SumFunctionOnSet(net, wins),
         grossLoss |-> SumFunctionOnSet(net, losses),
         drawdown |-> MaxDrawdown(curve),
         exposed |-> Cardinality({i \in DOMAIN curve : curve[i].position # 0}),
         rejected |-> portfolio.rejected, finalPosition |-> portfolio.book.quantity]

-----------------------------------------------------------------------------
Init ==
    /\ config \in Configs /\ candles \in Series
    /\ phase = "new" /\ bar = 1
    /\ portfolio = [cash |-> 0, book |-> Flat, trades |-> <<>>, rejected |-> 0]
    /\ curve = <<>> /\ report = {}

\* run, up to its loop; without candles there is nothing but the metrics.
Begin ==
    /\ phase = "new"
    /\ phase' = IF Bars = 0 THEN "sums" ELSE "bars"
    /\ portfolio' = [portfolio EXCEPT !.cash = Capital]
    /\ UNCHANGED <<config, candles, bar, curve, report>>

\* One bar: mark the account, ask the strategy, send its order (_execute).
OnBar ==
    /\ phase = "bars" /\ bar <= Bars
    /\ curve' = Append(curve, Point(portfolio, bar))
    /\ LET side      == IF bar > Slow /\ bar < Bars
                        THEN OrderSide(Signal(bar, portfolio.book.quantity)) ELSE "NONE"
           reference == ReferencePrice(bar)
           quantity  == OrderQuantity(side, portfolio, reference)
       IN  portfolio' = IF side = "NONE" \/ quantity <= 0 THEN portfolio
                        ELSE Settled(portfolio, bar + 1, Priced(side, quantity, reference))
    /\ bar' = bar + 1
    /\ UNCHANGED <<config, candles, phase, report>>

\* _close_out: flatten on the last bar, and mark that bar again.
CloseOut ==
    /\ phase = "bars" /\ bar > Bars
    /\ config.closeAtEnd /\ portfolio.book.quantity # 0
    /\ LET held == portfolio.book.quantity
           side == IF held > 0 THEN "SELL" ELSE "BUY_TO_COVER"
       IN  portfolio' = Settled(portfolio, Bars,
                                Priced(side, Magnitude(held), candles[Bars].close))
    /\ curve' = [curve EXCEPT ![Bars] = Point(portfolio', Bars)]
    /\ phase' = "sums"
    /\ UNCHANGED <<config, candles, bar, report>>

KeepOpen ==
    /\ phase = "bars" /\ bar > Bars
    /\ ~config.closeAtEnd \/ portfolio.book.quantity = 0
    /\ phase' = "sums"
    /\ UNCHANGED <<config, candles, bar, portfolio, curve, report>>

Summarise ==
    /\ phase = "sums"
    /\ report' = {Summary}
    /\ phase' = "done"
    /\ UNCHANGED <<config, candles, bar, portfolio, curve>>

Next == Begin \/ OnBar \/ CloseOut \/ KeepOpen \/ Summarise

Spec == Init /\ [][Next]_vars

-----------------------------------------------------------------------------
(* Properties *)

FillType == [side: Side, quantity: Nat \ {0}, reference: Nat \ {0}, price: Nat,
             spread: Nat, slippage: Nat, charges: Nat]

TradeType == [fill: FillType, bar: Nat, gross: Int, closed: Nat, position: Int, cash: Nat]

PointType == [bar: Nat, mark: Nat, cash: Nat, position: Int, total: Int, net: Int]

Portfolio == [cash: Nat, book: Position, trades: Seq(TradeType), rejected: Nat]

\* The state is well typed; in particular no fill has left a debt, and the
\* curve has one point for every bar gone by.
BacktestTypeOK ==
    /\ config \in Configs /\ candles \in Series
    /\ phase \in {"new", "bars", "sums", "done"}
    /\ bar \in 1 .. Bars + 1
    /\ portfolio \in Portfolio
    /\ curve \in Seq(PointType) /\ Len(curve) = bar - 1

Closes(period, at) ==
    SumFunction([k \in {k \in 1 .. at : k + period > at} |-> candles[k].close])

\* The fast average, as a ratio and without rounding, is above or below the slow.
Above(at) == Slow * Closes(Fast, at) > Fast * Closes(Slow, at)
Below(at) == Slow * Closes(Fast, at) < Fast * Closes(Slow, at)
GoldenCross(at) == ~Above(at - 1) /\ Above(at)
DeathCross(at) == ~Below(at - 1) /\ Below(at)

Decides(at) == at \in Slow + 1 .. Bars - 1

\* Every trade but the closing sweep answers a cross that was complete one bar
\* before the bar it is booked on, on the side of the cross, at a price nobody
\* had to foresee (FillTiming): no bar is read ahead of its time.  And no cross
\* is missed: with nothing rejected and a size that can be traded, the bar after
\* it is spent on its side.
TradesFollowCrosses ==
    /\ \A k \in DOMAIN portfolio.trades :
           LET trade == portfolio.trades[k]
               at    == trade.bar - 1
           IN  \/ /\ Decides(at)
                  /\ IF Direction(trade.fill.side) > 0 THEN GoldenCross(at) ELSE DeathCross(at)
                  /\ trade.fill.reference = IF config.timing = "NEXT_OPEN"
                                            THEN candles[trade.bar].open ELSE candles[at].close
               \/ /\ phase \in {"sums", "done"} /\ config.closeAtEnd
                  /\ trade.bar = Bars /\ k = Len(portfolio.trades) /\ trade.position = 0
                  /\ trade.fill.reference = candles[Bars].close
    /\ phase = "bars" /\ portfolio.rejected = 0
         /\ config.sizing = "FIXED_QUANTITY" /\ config.size >= Step =>
           \A at \in Slow + 1 .. bar - 2 : Decides(at) =>
               /\ GoldenCross(at) => curve[at + 1].position > 0
               /\ DeathCross(at) => IF config.allowShort THEN curve[at + 1].position < 0
                                    ELSE curve[at + 1].position <= 0

\* Half-units by which n roundings can be out; a whole number of shares needs none.
Slack(n) == IF config.class = "STOCK" THEN 0 ELSE n

\* What the market did to a trade from the price it was decided at to the mark,
\* less what the trade reports to have cost.
Earned(trade, mark) ==
    Direction(trade.fill.side) * trade.fill.quantity * (mark - trade.fill.reference)
      - Lot * (trade.fill.spread + trade.fill.slippage + trade.fill.charges)

\* Every point of the curve is the capital, plus what the market did to each
\* trade from the price it was decided at, less the spread, slippage and charges
\* it reports: costs are neither lost nor counted twice, and the curve sees the
\* trades up to its bar and no later one.  It is also the capital plus the
\* profit on the books: the cash and the position tell one story.
EquityIsMarketLessCosts ==
    \A i \in DOMAIN curve :
        LET point == curve[i]
            past  == {k \in DOMAIN portfolio.trades : portfolio.trades[k].bar <= i}
            earned == SumFunction([k \in past |-> Earned(portfolio.trades[k], point.mark)])
        IN  /\ 2 * Magnitude(Lot * (point.total - Capital) - earned)
                 <= Lot * Slack(3 * Cardinality(past) + 1)
            /\ 2 * Magnitude(point.total - Capital - point.net)
                 <= Slack(2 * Cardinality(past) + 2)

\* The account a trade found: the one the trade before it left.
Found(k) == IF k = 1 THEN [cash |-> Capital, position |-> 0] ELSE portfolio.trades[k - 1]

\* What the budget allows at a price, out of an equity.
Fits(quantity, price, equity) ==
    CASE config.sizing = "FIXED_QUANTITY" -> quantity <= config.size
      [] config.sizing = "FIXED_VALUE" -> quantity * price <= config.size * Lot
      [] config.sizing = "PERCENT_OF_EQUITY" -> 100 * quantity * price <= equity * config.size * Lot

\* An order that opens a position leaves the largest that the budget allows, at
\* the price it was sized for and out of the equity there was just before it,
\* whatever it had to close on the way (PositionSizer).
SizedToBudget ==
    \A k \in DOMAIN portfolio.trades :
        LET trade  == portfolio.trades[k]
            price  == trade.fill.reference
            equity == Found(k).cash + HalfUp(Found(k).position * price, Lot)
            opened == Magnitude(trade.position)
        IN  trade.fill.side \in {"BUY", "SHORT_SELL"} =>
              /\ opened % Step = 0
              /\ opened = 0 \/ Fits(opened, price, equity)
              /\ ~Fits(opened + Step, price, equity)

\* The report is about the run: its worst fall is the largest between any two
\* points of the curve; and when the run was to close at the end and did not,
\* what was left of the account could not pay for closing it, which takes a short
\* position, or a long one that costs more to sell than it brings.
ReportMatchesRun ==
    \A result \in report :
        /\ \A i, j \in DOMAIN curve :
               i <= j => curve[i].total - curve[j].total <= result.drawdown
        /\ curve # <<>> => \E i, j \in DOMAIN curve :
               i <= j /\ curve[i].total - curve[j].total = result.drawdown
        /\ result.return = IF curve = <<>> THEN 0 ELSE curve[Bars].total - Capital
        /\ result.finalPosition = 0 =>
               2 * Magnitude(result.return - result.net)
                 <= Slack(2 * Len(portfolio.trades) + 2)
        /\ result.finalPosition # 0 /\ config.closeAtEnd =>
               LET side == IF result.finalPosition > 0 THEN "SELL" ELSE "BUY_TO_COVER"
                   fill == Priced(side, Magnitude(result.finalPosition), candles[Bars].close)
               IN  /\ result.rejected > 0
                   /\ result.finalPosition > 0 => fill.charges * Lot > fill.price * fill.quantity
                   /\ 2 * (Equity(portfolio, candles[Bars].close)
                             - fill.spread - fill.slippage - fill.charges) < Slack(4)

(* The live ledger, as a backtest runs one: a single instrument, the account   *)
(* opened by Begin, and a trade for every fill.                                *)

TheSymbol == "symbol"

LiveFill(k) ==
    LET trade == portfolio.trades[k]
    IN  [order |-> k, symbol |-> TheSymbol, side |-> trade.fill.side,
         quantity |-> trade.fill.quantity, price |-> trade.fill.price,
         charges |-> trade.fill.charges, gross |-> trade.gross, closed |-> trade.closed,
         epoch |-> 0]

Live == INSTANCE Ledger WITH
    Symbols <- {TheSymbol}, Quantities <- Nat \ {0}, Prices <- Nat, Charges <- Nat,
    Balances <- {Capital}, OrderIds <- Nat \ {0},
    account <- [open |-> phase # "new", initial |-> IF phase = "new" THEN 0 ELSE Capital,
                cash |-> portfolio.cash, resets |-> 0],
    holdings <- [symbol \in {TheSymbol} |-> portfolio.book],
    fills <- {LiveFill(k) : k \in DOMAIN portfolio.trades}

LiveStep ==
    \/ Live!Open(Capital)
    \/ LET k    == Len(portfolio.trades')
           fill == portfolio'.trades[k].fill
       IN  /\ k > Len(portfolio.trades)
           /\ Live!Fill(k, TheSymbol, fill.side, fill.quantity, fill.price, fill.charges)

\* A backtest is an account of the live engine: each step leaves its ledger
\* alone or is one the live ledger can take, with the live checks on what a side
\* may do and on what the cash can pay, and the live bookkeeping of a fill.
FillsAsLive == Live!LedgerInit /\ [][LiveStep]_(Live!ledgerVars)
===============================================================================
