----------------------------- MODULE TradingBooks -----------------------------
(***************************************************************************)
(* What the tables of the trading engine say about one another, as sums    *)
(* over the whole trade log, and the performance summary that is computed  *)
(* from them (analytics/performance.py).                                   *)
(***************************************************************************)
EXTENDS TradingEngine, FiniteSetsExt, Functions

TradesIn(symbol) == {trade \in trades : trade.symbol = symbol}

SignedQuantity(trade) == Direction(trade.side) * trade.quantity

TradeCash(trade) == CashDelta(trade.side, trade.quantity, trade.price, trade.charges)

\* Cash is the opening balance plus the cash of every trade committed since
\* the last reset: no concurrent order's debit is lost or applied twice.
CashMatchesTrades ==
    wallet.open =>
        LET since == {trade \in trades : trade.epoch = wallet.resets}
        IN  wallet.cash = wallet.initial +
                            SumFunction([trade \in since |-> TradeCash(trade)])

\* Each position row is the sum of the instrument's trades: quantity, realised
\* profit and charges (opening fills included), and the net of the two.  A
\* wallet reset does not disturb this.
PositionMatchesTrades ==
    \A symbol \in Symbols :
        LET gross   == SumFunction([trade \in TradesIn(symbol) |-> trade.gross])
            charges == SumFunction([trade \in TradesIn(symbol) |-> trade.charges])
        IN  /\ positions[symbol].quantity =
                 SumFunction([trade \in TradesIn(symbol) |-> SignedQuantity(trade)])
            /\ positions[symbol].realized = gross
            /\ positions[symbol].charges = charges
            /\ positions[symbol].net = gross - charges

\* Order and trade move together: every FILLED order has exactly one trade,
\* for what was ordered, and no other order, absent or REJECTED, has any.
FilledMatchesTrades ==
    \A id \in OrderIds :
        LET made == {trade \in trades : trade.order = id}
        IN  /\ Cardinality(made) = IF orders[id].status = "FILLED" THEN 1 ELSE 0
            /\ \A trade \in made : /\ trade.symbol = orders[id].symbol
                                   /\ trade.side = orders[id].side
                                   /\ trade.quantity = orders[id].quantity

-----------------------------------------------------------------------------
(* PerformanceAnalyzer, between two commits *)

Net(trade) == trade.gross - trade.charges

\* Only a fill that closed something can win or lose.
Closing == {trade \in trades : trade.closed > 0}

\* Over every fill, opening ones included.
Totals == [count   |-> Cardinality(trades),
           gross   |-> SumFunction([trade \in trades |-> trade.gross]),
           charges |-> SumFunction([trade \in trades |-> trade.charges]),
           net     |-> SumFunction([trade \in trades |-> Net(trade)])]

Profit(trade) == IF Net(trade) > 0 THEN Net(trade) ELSE 0
Loss(trade) == IF Net(trade) < 0 THEN Net(trade) ELSE 0

Outcomes == [closing |-> Cardinality(Closing),
             wins    |-> Cardinality({trade \in Closing : Net(trade) > 0}),
             losses  |-> Cardinality({trade \in Closing : Net(trade) < 0}),
             profit  |-> SumFunction([trade \in Closing |-> Profit(trade)]),
             loss    |-> SumFunction([trade \in Closing |-> Loss(trade)])]

OrdersAt(status) == {id \in OrderIds : orders[id].status = status}

OrderCounts == [total    |-> Cardinality({id \in OrderIds : orders[id].status # "NONE"}),
                filled   |-> Cardinality(OrdersAt("FILLED")),
                rejected |-> Cardinality(OrdersAt("REJECTED"))]

\* The summary agrees with the order table and with the position rows, which
\* are other transactions' writes: one trade for each filled order, and the
\* profit, charges and net of all positions, open ones included.  What the
\* closing fills won and lost is the net total less the cost of the openings.
PerformanceMatchesBooks ==
    LET opening == trades \ Closing
    IN  /\ Totals.count = OrderCounts.filled
        /\ OrderCounts.total = OrderCounts.filled + OrderCounts.rejected
        /\ Totals.gross = SumFunction([x \in Symbols |-> positions[x].realized])
        /\ Totals.charges = SumFunction([x \in Symbols |-> positions[x].charges])
        /\ Totals.net = SumFunction([x \in Symbols |-> positions[x].net])
        /\ Totals.net = Outcomes.profit + Outcomes.loss
                          - SumFunction([trade \in opening |-> trade.charges])

\* At every commit wallet, positions and orders are what the trades make them,
\* whatever orders raced, were refused or failed half-way.
BooksMatchTrades ==
    /\ CashMatchesTrades
    /\ PositionMatchesTrades
    /\ FilledMatchesTrades
    /\ PerformanceMatchesBooks

-----------------------------------------------------------------------------
(* Cash against profit.  Without rounding, cash plus the cost of what is    *)
(* held would be the opening balance plus the net realised profit.  Each    *)
(* rounded average, profit and cash amount moves the two sides apart.       *)

Cost(symbol) == positions[symbol].quantity * positions[symbol].average

\* In the unit of Cost: average-price ticks of a Lot-th.
Drift == AvgTicks * Lot * (wallet.cash - wallet.initial
                             - SumFunction([symbol \in Symbols |-> positions[symbol].net]))
           + SumFunction([symbol \in Symbols |-> Cost(symbol)])

Traded(symbol) == SumFunction([trade \in TradesIn(symbol) |-> trade.quantity])

\* A fill that closes rounds a profit, to half a paisa; one that only opens
\* rounds an average, to half a tick for each unit then held, which is no more
\* than was ever traded.  Cash is rounded to half a paisa, unless a quantity
\* is a whole number of units.  Twice that:
Rounding(trade) ==
    (IF trade.closed > 0 THEN AvgTicks * Lot ELSE Traded(trade.symbol))
      + (IF Lot = 1 THEN 0 ELSE AvgTicks * Lot)

\* Cash and profit part by what the fills have rounded and by nothing else, so
\* that no legal sequence of fills makes or loses money.
DriftIsRounding ==
    wallet.open /\ wallet.resets = 0 =>
        2 * Magnitude(Drift) <= SumFunction([trade \in trades |-> Rounding(trade)])
===============================================================================
